-------------------------- MODULE TentaclesProofs --------------------------
(***************************************************************************)
(* Proofs about Tentacles, for any number of wf_* and enclave_sync calls,  *)
(* namespaces, tentacles, kinds of objects and requests, with or without   *)
(* failures: type correctness, what a frozen enclave sees of the calls,    *)
(* who an updated tentacle belongs to, and what a release holds.           *)
(*                                                                         *)
(* The argument: the history of a call records the present state at every  *)
(* step, so whatever the call read is in it; and while a call meets no     *)
(* other, nobody else touches what it describes or has described.          *)
(***************************************************************************)
EXTENDS Tentacles, EnclaveSyncProofs

AllRequests == ApplyRequests \cup OtherRequests

\* The types of the objects besides those of the enclave.
ModeTexts == Modes \cup {Empty, Unreadable}
DepModes == [Namespaces -> [Tentacles -> ModeTexts]]
ObjRecords == [release : Tentacles \cup {Empty}, content : Contents \cup {Empty}]
Objs == [Namespaces -> [Objects -> ObjRecords]]
Versions == [Namespaces -> [Kinds -> Nat]]

\* The two records of a Deployment agree.
Agree(n, t) == deps[n][t].exists <=> obj[n][t].release # Empty

\* What is known of a call at each place of its handler.
CallOK(x) ==
  /\ x \in Calls
  /\ x.pc # "idle" => x.req \in AllRequests
  /\ x.pc \in {"annotations", "deployment", "namespace", "manifests", "write"} =>
       x.req.op = "apply"
  /\ x.pc \in {"lookup", "access"} => x.req.op # "apply"
  /\ x.pc \in {"restart", "patch"} => x.req.op = "restart"
  /\ x.pc = "run" => x.req.op = "run"
  /\ x.pc = "delete" => x.req.op \in {"apply", "remove"}
  /\ x.pc \notin {"idle", "annotations"} /\ x.req.op = "apply" => ReadableMode(x.req)
  /\ x.pc = "write" => x.item \in Objects /\ x.item \notin x.todo
  /\ x.pc \in {"manifests", "write"} => x.todo \subseteq x.req.manifests
  /\ x.pc = "write" => x.item \in x.req.manifests
  /\ x.pc = "delete" /\ x.req.op = "apply" =>
       (x.todo \cup x.listed) \cap x.req.manifests = {}
  /\ x.pc # "delete" => x.listed = {}

TentaclesInv ==
  /\ TentaclesTypeOK
  /\ SyncTypeInv
  /\ \A h \in Callers : CallOK(call[h])

\* A listed object is deleted.
Deletes(h) == \E o \in Objects : DeleteObject(h, o)

\* The parts of a request.
LEMMA CallRequestType ==
  ASSUME NEW r \in AllRequests
  PROVE  /\ r.name \in Namespaces /\ r.tentacle \in Tentacles
         /\ r.deployer \in Deployers
         /\ r.op \in {"apply", "remove", "restart", "run"}
         /\ r.op = "apply" => r \in ApplyRequests
         /\ r \in ApplyRequests =>
              /\ r.op = "apply"
              /\ r.manifests \in SUBSET Objects /\ r.content \in Contents
              /\ r.mode \in Modes \cup {Empty, Unreadable}
              /\ r.own \in DeploymentAnnotations
  BY TentaclesAssumption DEF AllRequests

\* A call that is not in flight is well formed.
LEMMA NoCallOK == CallOK(NoCall)
  BY DEF CallOK, NoCall, Calls, AllRequests

\* wf_apply never stamps a mode that it could not read.
LEMMA ResolvedModeType ==
  ASSUME NEW r \in ApplyRequests, ReadableMode(r), NEW info
  PROVE  ResolvedMode(r, info) \in Modes
<1>1. r.mode \in Modes \cup {Empty, Unreadable}
  BY CallRequestType DEF AllRequests
<1>2. ~IsModeText(Unreadable)
  BY DEF IsModeText, Unreadable
<1>3. r.mode # Empty => r.mode \in Modes
  BY <1>1, <1>2 DEF ReadableMode
<1>4. /\ ModeString(DefaultEnclaveMode) \in Modes
      /\ ModeString(DefaultMode) \in Modes
  BY ModesAssumption
<1> QED BY <1>3, <1>4 DEF ResolvedMode

\* The annotations wf_apply gives a Deployment.
LEMMA AnnotateDeployerType ==
  ASSUME NEW d \in Deployers, NEW mode \in Modes,
         NEW existing \in DeploymentAnnotations \cup {Empty},
         NEW own \in DeploymentAnnotations
  PROVE  LET a == AnnotateDeployer(d, mode, existing, own) IN
         /\ a.owner \in Emails \cup {Empty} /\ a.ownerSub \in Emails \cup {Empty}
         /\ a.mode \in ModeTexts
<1>1. ASSUME NEW S, NEW old \in S, NEW new \in S PROVE Carried(old, new) \in S
  BY DEF Carried
<1>2. d.email \in Emails \cup {Empty} /\ mode \in ModeTexts
  BY DEF Deployers, ModeTexts
<1>3. ASSUME NEW e \in DeploymentAnnotations
      PROVE  /\ e.owner \in Emails \cup {Empty} /\ e.ownerSub \in Emails \cup {Empty}
             /\ e.mode \in ModeTexts
  BY DEF DeploymentAnnotations, ModeTexts
<1>4. CASE existing = Empty
  BY <1>1, <1>2, <1>3, <1>4 DEF AnnotateDeployer
<1>5. CASE existing # Empty
  BY <1>1, <1>2, <1>3, <1>5 DEF AnnotateDeployer
<1> QED BY <1>4, <1>5

---------------------------------------------------------------------------
(* Steps of a call *)

\* From x to y: the handler goes on with its request, or has returned.
Continues(x, y) ==
  \/ y = NoCall
  \/ /\ y.pc \notin {"idle", "annotations", "lookup"} /\ y.req = x.req
     /\ y.whole => x.whole

\* Every step of a handler that has started changes its own call, and leaves it
\* well formed.
LEMMA CallShape ==
  ASSUME TentaclesInv, NEW h \in Callers, CallStep(h) \/ CallFail(h)
  PROVE  \E y : /\ call' = [call EXCEPT ![h] = y]
                /\ CallOK(y)
                /\ call[h].pc # "idle"
                /\ Continues(call[h], y)
<1> DEFINE x == call[h]
           Goal == \E y : /\ call' = [call EXCEPT ![h] = y]
                          /\ CallOK(y)
                          /\ x.pc # "idle"
                          /\ Continues(x, y)
<1> SUFFICES Goal
  OBVIOUS
<1>0. CallOK(x) /\ call \in [Callers -> Calls] /\ ClusterTypeOK
  BY DEF TentaclesInv, TentaclesTypeOK
<1>1. ASSUME x.pc # "idle", call' = [call EXCEPT ![h] = NoCall] PROVE Goal
  BY <1>1, NoCallOK DEF Continues
<1>2. ASSUME x.pc # "idle"
      PROVE  /\ x.req.name \in Namespaces /\ x.req.tentacle \in Tentacles
             /\ x.req.op \in {"apply", "remove", "restart", "run"}
             /\ x.req.op = "apply" => x.req.manifests \in SUBSET Objects
             /\ ns[NsOf(h)] \in NsObjects /\ DepOf(h) \in DepObjects
  BY <1>0, <1>2, CallRequestType DEF CallOK, NsOf, TentOf, DepOf, ClusterTypeOK
<1>3. ASSUME NEW n \in Namespaces, NEW t \in Tentacles
      PROVE  Annotations(n, t) \in DeploymentAnnotations
  BY DEF TentaclesInv, TentaclesTypeOK, ClusterTypeOK, DepObjects, Annotations,
         DeploymentAnnotations
<1>4. ASSUME NEW loc, x.pc # "idle", call' = [call EXCEPT ![h].pc = loc],
             loc \notin {"idle", "annotations", "lookup"},
             CallOK([x EXCEPT !.pc = loc])
      PROVE  Goal
  <2> DEFINE y == [x EXCEPT !.pc = loc]
  <2>1. call' = [call EXCEPT ![h] = y]
    BY <1>4
  <2>2. y.pc = loc /\ y.req = x.req /\ y.whole = x.whole
    BY <1>0 DEF Calls
  <2> QED BY <1>4, <2>1, <2>2 DEF Continues
<1>5. CASE ApplyAnnotations(h)
  <2> DEFINE y == [x EXCEPT !.info = ns[NsOf(h)].ann, !.pc = "deployment"]
  <2>1. x.pc = "annotations" /\ x.pc # "idle"
    BY <1>5 DEF ApplyAnnotations
  <2>2. ns[NsOf(h)].ann \in EnclaveInfo \cup {Empty}
    BY <1>2, <2>1 DEF NsObjects
  <2>3. CASE call' = [call EXCEPT ![h] = y] /\ ReadableMode(x.req)
    <3>1. CallOK(y) /\ Continues(x, y)
      BY <1>0, <2>1, <2>2, <2>3 DEF CallOK, Calls, Continues
    <3> QED BY <2>1, <2>3, <3>1
  <2> QED BY <1>1, <1>5, <2>1, <2>3 DEF ApplyAnnotations, Return
<1>6. CASE ApplyDeployment(h)
  <2> DEFINE ann == Annotations(NsOf(h), TentOf(h))
             y == [x EXCEPT !.existing = ann, !.pc = "managed"]
  <2>1. x.pc = "deployment" /\ x.pc # "idle"
    BY <1>6 DEF ApplyDeployment
  <2>2. ann \in DeploymentAnnotations
    BY <1>2, <1>3, <2>1 DEF NsOf, TentOf
  <2>3. CASE call' = [call EXCEPT ![h] = y]
    <3> HIDE DEF ann
    <3>1. /\ y.pc = "managed" /\ y.req = x.req /\ y.todo = x.todo /\ y.item = x.item
          /\ y.whole = x.whole /\ y.listed = x.listed
      BY <1>0 DEF Calls
    <3>2. y \in Calls
      BY ZenonT(40), <1>0, <2>2 DEF Calls
    <3> HIDE DEF y
    <3>3. CallOK(y) /\ Continues(x, y)
      BY <1>0, <2>1, <3>1, <3>2 DEF CallOK, Continues
    <3> QED BY <2>1, <2>3, <3>3
  <2>4. CallOK([x EXCEPT !.pc = "namespace"])
    BY <1>0, <2>1 DEF CallOK, Calls
  <2> QED BY <1>1, <1>4, <1>6, <2>1, <2>3, <2>4 DEF ApplyDeployment, Return, Goto
<1>7. CASE ApplyNamespace(h)
  <2>1. x.pc = "namespace" /\ CallOK([x EXCEPT !.pc = "managed"])
    BY <1>0, <1>7 DEF ApplyNamespace, CallOK, Calls
  <2> QED BY <1>1, <1>4, <1>7, <2>1 DEF ApplyNamespace, Return, Goto
<1>8. CASE Lookup(h)
  <2> DEFINE ann == Annotations(NsOf(h), TentOf(h))
             y == [x EXCEPT !.pc = "access", !.existing = ann]
  <2>1. x.pc = "lookup" /\ x.pc # "idle"
    BY <1>8 DEF Lookup
  <2>2. ann \in DeploymentAnnotations
    BY <1>2, <1>3, <2>1 DEF NsOf, TentOf
  <2>3. CASE call' = [call EXCEPT ![h] = y]
    <3> HIDE DEF ann
    <3>1. /\ y.pc = "access" /\ y.req = x.req /\ y.todo = x.todo /\ y.item = x.item
          /\ y.whole = x.whole /\ y.listed = x.listed
      BY <1>0 DEF Calls
    <3>2. y \in Calls
      BY ZenonT(40), <1>0, <2>2 DEF Calls
    <3> HIDE DEF y
    <3>3. CallOK(y) /\ Continues(x, y)
      BY <1>0, <2>1, <3>1, <3>2 DEF CallOK, Continues
    <3> QED BY <2>1, <2>3, <3>3
  <2>4. CallOK([x EXCEPT !.pc = "managed"])
    BY <1>0, <2>1 DEF CallOK, Calls
  <2> QED BY <1>4, <1>8, <2>1, <2>3, <2>4 DEF Lookup, Goto
<1>9. CASE Access(h)
  <2>1. x.pc = "access" /\ CallOK([x EXCEPT !.pc = "managed"])
    BY <1>0, <1>9 DEF Access, CallOK, Calls
  <2> QED BY <1>1, <1>4, <1>9, <2>1 DEF Access, Return, Goto
<1>10. CASE Managed(h)
  <2> DEFINE todo == CASE x.req.op = "apply" -> x.req.manifests
                       [] x.req.op = "remove" -> Objects
                       [] OTHER -> {}
             loc == CASE x.req.op = "apply" -> "manifests"
                      [] x.req.op = "remove" -> "delete"
                      [] OTHER -> x.req.op
             y == [x EXCEPT !.todo = todo, !.pc = loc]
  <2>1. x.pc = "managed" /\ x.pc # "idle"
    BY <1>10 DEF Managed
  <2>2. /\ todo \in SUBSET Objects
        /\ x.req.op = "apply" => loc = "manifests" /\ todo = x.req.manifests
        /\ x.req.op = "remove" => loc = "delete"
        /\ x.req.op = "restart" => loc = "restart"
        /\ x.req.op = "run" => loc = "run"
    BY <1>2, <2>1
  <2>3. CASE call' = [call EXCEPT ![h] = y]
    <3> HIDE DEF todo, loc
    <3>1. /\ y.pc = loc /\ y.req = x.req /\ y.todo = todo /\ y.item = x.item
          /\ y.whole = x.whole /\ y.listed = x.listed
      BY <1>0 DEF Calls
    <3>2. y \in Calls
      BY ZenonT(40), <1>0, <1>2, <2>1, <2>2 DEF Calls
    <3> HIDE DEF y
    <3>3. CallOK(y) /\ Continues(x, y)
      BY <1>0, <1>2, <2>1, <2>2, <3>1, <3>2 DEF CallOK, Continues
    <3> QED BY <2>1, <2>3, <3>3
  <2> QED BY <1>1, <1>10, <2>1, <2>3 DEF Managed, Return
<1>11. ASSUME NEW o \in Objects, ReadObject(h, o) PROVE Goal
  <2> DEFINE rv == VersionOf(NsOf(h), o)
             y == [x EXCEPT !.item = o, !.todo = x.todo \ {o}, !.pc = "write",
                            !.rv = rv]
  <2>1. x.pc = "manifests" /\ o \in x.todo /\ call' = [call EXCEPT ![h] = y]
    BY <1>11 DEF ReadObject
  <2>2. rv \in Nat
    <3>1. o \in Kinds => rvs[NsOf(h)][o] \in Nat
      BY <1>2, <2>1 DEF TentaclesInv, TentaclesTypeOK, NsOf
    <3>2. o \in Tentacles => deps[NsOf(h)][o].rv \in Nat
      BY <1>0, <1>2, <2>1 DEF ClusterTypeOK, DepObjects, NsOf
    <3> QED BY <3>1, <3>2 DEF VersionOf, Objects
  <2> HIDE DEF rv
  <2>3. CallOK(y) /\ Continues(x, y)
    BY <1>0, <2>1, <2>2 DEF CallOK, Calls, Continues
  <2> QED BY <2>1, <2>3
<1>12. CASE WriteObject(h)
  <2>1. x.pc = "write" /\ CallOK([x EXCEPT !.pc = "manifests"])
    BY <1>0, <1>12 DEF WriteObject, CallOK, Calls
  <2> QED BY <1>1, <1>4, <1>12, <2>1 DEF WriteObject, Return
<1>13. CASE Written(h)
  <2> DEFINE todo == Objects \ x.req.manifests
             y == [x EXCEPT !.pc = "delete", !.todo = todo]
  <2>1. x.pc = "manifests" /\ call' = [call EXCEPT ![h] = y]
    BY <1>13 DEF Written
  <2>2. todo \in SUBSET Objects /\ todo \cap x.req.manifests = {}
    OBVIOUS
  <2> HIDE DEF todo
  <2>3. CallOK(y) /\ Continues(x, y)
    BY <1>0, <2>1, <2>2 DEF CallOK, Calls, Continues
  <2> QED BY <2>1, <2>3
<1>14. ASSUME NEW kind \in Lists, ListObjects(h, kind) PROVE Goal
  <2> DEFINE found == {o \in kind \cap x.todo : obj[NsOf(h)][o].release = TentOf(h)}
             y == [x EXCEPT !.todo = x.todo \ kind, !.listed = found]
  <2>1. x.pc = "delete" /\ call' = [call EXCEPT ![h] = y]
    BY <1>14 DEF ListObjects
  <2>2. found \subseteq x.todo
    OBVIOUS
  <2> HIDE DEF found
  <2>3. CallOK(y) /\ Continues(x, y)
    BY <1>0, <2>1, <2>2 DEF CallOK, Calls, Continues
  <2> QED BY <2>1, <2>3
<1>15. ASSUME NEW o \in Objects, DeleteObject(h, o) PROVE Goal
  <2> DEFINE y == [x EXCEPT !.listed = x.listed \ {o}]
  <2>1. x.pc = "delete" /\ call' = [call EXCEPT ![h] = y]
    BY <1>15 DEF DeleteObject
  <2>2. CallOK(y) /\ Continues(x, y)
    BY <1>0, <2>1 DEF CallOK, Calls, Continues
  <2> QED BY <2>1, <2>2
<1>16. CASE Done(h)
  BY <1>1, <1>16 DEF Done, Succeed
<1>17. CASE RestartGet(h)
  <2>1. x.pc = "restart" /\ CallOK([x EXCEPT !.pc = "patch"])
    BY <1>0, <1>17 DEF RestartGet, CallOK, Calls
  <2> QED BY <1>1, <1>4, <1>17, <2>1 DEF RestartGet, Return, Goto
<1>18. CASE RestartPatch(h)
  BY <1>1, <1>18 DEF RestartPatch, Return
<1>19. CASE RunPost(h)
  BY <1>1, <1>19 DEF RunPost, Return
<1>20. CASE CallFail(h)
  <2>1. ASSUME NEW kind, x.pc = "delete",
               call' = [call EXCEPT ![h].todo = @ \ kind, ![h].whole = FALSE]
        PROVE  Goal
    <3> DEFINE y == [x EXCEPT !.todo = x.todo \ kind, !.whole = FALSE]
    <3>1. call' = [call EXCEPT ![h] = y]
      BY <2>1
    <3>2. CallOK(y) /\ Continues(x, y)
      BY <1>0, <2>1 DEF CallOK, Calls, Continues
    <3> QED BY <2>1, <3>1, <3>2
  <2>2. ASSUME NEW o, x.pc = "delete",
               call' = [call EXCEPT ![h].listed = @ \ {o}, ![h].whole = FALSE]
        PROVE  Goal
    <3> DEFINE y == [x EXCEPT !.listed = x.listed \ {o}, !.whole = FALSE]
    <3>1. call' = [call EXCEPT ![h] = y]
      BY <2>2
    <3>2. CallOK(y) /\ Continues(x, y)
      BY <1>0, <2>2 DEF CallOK, Calls, Continues
    <3> QED BY <2>2, <3>1, <3>2
  <2> HIDE DEF Goal
  <2> QED BY <1>1, <1>20, <2>1, <2>2 DEF CallFail, Return
<1> HIDE DEF Goal
<1> QED BY <1>5, <1>6, <1>7, <1>8, <1>9, <1>10, <1>11, <1>12, <1>13, <1>14, <1>15,
           <1>16, <1>17, <1>18, <1>19, <1>20 DEF CallStep

\* Three steps of a handler change objects of the cluster.
LEMMA CallEffects ==
  ASSUME NEW h \in Callers, CallStep(h) \/ CallFail(h)
  PROVE  \/ WriteObject(h) \/ Deletes(h) \/ RestartPatch(h)
         \/ UNCHANGED <<clusterVars, objectVars>>
<1>1. ASSUME NEW o, ReadObject(h, o) \/ ListObjects(h, o)
      PROVE  UNCHANGED <<clusterVars, objectVars>>
  BY <1>1 DEF ReadObject, ListObjects
<1>2. CASE CallFail(h)
  BY <1>2 DEF CallFail
<1>3. CASE \/ ApplyAnnotations(h) \/ ApplyDeployment(h) \/ ApplyNamespace(h)
           \/ Lookup(h) \/ Access(h) \/ Managed(h)
  BY <1>3 DEF ApplyAnnotations, ApplyDeployment, ApplyNamespace, Lookup, Access,
              Managed
<1>4. CASE Written(h) \/ Done(h) \/ RestartGet(h) \/ RunPost(h)
  BY <1>4 DEF Written, Done, RestartGet, RunPost
<1> QED BY <1>1, <1>2, <1>3, <1>4 DEF CallStep, Deletes

\* They leave the cluster's objects well typed.
LEMMA CallCluster ==
  ASSUME TentaclesInv, NEW h \in Callers, CallStep(h) \/ CallFail(h)
  PROVE  /\ ClusterTypeOK'
         /\ depMode' \in DepModes /\ obj' \in Objs /\ rvs' \in Versions
         /\ \A n \in Namespaces, t \in Tentacles : Agree(n, t)'
<1> DEFINE x == call[h]
           n == NsOf(h)
           t == TentOf(h)
           AllAgree == \A m \in Namespaces, u \in Tentacles :
                         deps'[m][u].exists <=> obj'[m][u].release # Empty
           Goal == /\ ClusterTypeOK'
                   /\ depMode' \in DepModes /\ obj' \in Objs /\ rvs' \in Versions
                   /\ AllAgree
<1> SUFFICES Goal
  BY DEF Agree
<1>0. /\ CallOK(x) /\ ClusterTypeOK
      /\ depMode \in DepModes /\ obj \in Objs /\ rvs \in Versions
      /\ \A m \in Namespaces, u \in Tentacles :
           deps[m][u].exists <=> obj[m][u].release # Empty
  BY DEF TentaclesInv, TentaclesTypeOK, DepModes, ModeTexts, Objs, ObjRecords, Versions
<1>1. x.pc # "idle"
  BY CallShape
<1>2. /\ n \in Namespaces /\ t \in Tentacles /\ x.req \in AllRequests
      /\ x.req.deployer \in Deployers
      /\ deps[n] \in [Tentacles -> DepObjects]
      /\ depMode[n] \in [Tentacles -> ModeTexts]
      /\ obj[n] \in [Objects -> ObjRecords]
      /\ rvs[n] \in [Kinds -> Nat]
      /\ Empty \notin Tentacles /\ Tentacles \cap Kinds = {}
      /\ Tentacles \subseteq Objects /\ Kinds \subseteq Objects
  BY <1>0, <1>1, CallRequestType, TentaclesAssumption
     DEF CallOK, NsOf, TentOf, ClusterTypeOK, DepModes, Objs, Versions, Objects
<1>4. ASSUME NEW u \in Tentacles, NEW d \in DepObjects,
             deps' = [deps EXCEPT ![n][u] = d], UNCHANGED <<ns, quota, res>>
      PROVE  ClusterTypeOK'
  <2>1. [deps[n] EXCEPT ![u] = d] \in [Tentacles -> DepObjects]
    BY <1>2
  <2>2. deps' = [deps EXCEPT ![n] = [deps[n] EXCEPT ![u] = d]]
    BY <1>4
  <2> QED BY <1>0, <1>2, <1>4, <2>1, <2>2 DEF ClusterTypeOK
<1>5. ASSUME NEW u \in Tentacles, NEW d \in ModeTexts,
             depMode' = [depMode EXCEPT ![n][u] = d]
      PROVE  depMode' \in DepModes
  <2>1. [depMode[n] EXCEPT ![u] = d] \in [Tentacles -> ModeTexts]
    BY <1>2
  <2>2. depMode' = [depMode EXCEPT ![n] = [depMode[n] EXCEPT ![u] = d]]
    BY <1>5
  <2> QED BY <1>0, <2>1, <2>2 DEF DepModes
<1>6. ASSUME NEW o \in Objects, NEW d \in ObjRecords, obj' = [obj EXCEPT ![n][o] = d]
      PROVE  obj' \in Objs
  <2>1. [obj[n] EXCEPT ![o] = d] \in [Objects -> ObjRecords]
    BY <1>2
  <2>2. obj' = [obj EXCEPT ![n] = [obj[n] EXCEPT ![o] = d]]
    BY <1>6
  <2> QED BY <1>0, <2>1, <2>2 DEF Objs
<1>7. ASSUME UNCHANGED clusterVars PROVE ClusterTypeOK'
  BY <1>0, <1>7 DEF clusterVars, ClusterTypeOK
<1>8. ASSUME NEW u \in Tentacles, NEW d, NEW e, deps' = [deps EXCEPT ![n][u] = d],
             obj' = [obj EXCEPT ![n][u] = e], d.exists <=> e.release # Empty
      PROVE  AllAgree
  <2>1. ASSUME NEW m \in Namespaces, NEW v \in Tentacles
        PROVE  deps'[m][v].exists <=> obj'[m][v].release # Empty
    <3>1. m = n /\ v = u => deps'[m][v] = d /\ obj'[m][v] = e
      BY <1>0, <1>2, <1>8 DEF ClusterTypeOK, Objs
    <3>2. m # n \/ v # u => deps'[m][v] = deps[m][v] /\ obj'[m][v] = obj[m][v]
      BY <1>0, <1>2, <1>8 DEF ClusterTypeOK, Objs
    <3> QED BY <1>0, <1>8, <3>1, <3>2
  <2> QED BY <2>1
<1>9. ASSUME NEW k \in Kinds, NEW e, obj' = [obj EXCEPT ![n][k] = e], UNCHANGED deps
      PROVE  AllAgree
  <2>1. ASSUME NEW m \in Namespaces, NEW v \in Tentacles PROVE obj'[m][v] = obj[m][v]
    <3>1. v # k /\ v \in Objects
      BY <1>2, <1>9
    <3> QED BY <1>0, <1>2, <1>9, <3>1 DEF Objs
  <2> QED BY <1>0, <1>9, <2>1
<1> HIDE DEF AllAgree
<1>10. CASE WriteObject(h)
  <2>1. /\ x.pc = "write" /\ x.req \in ApplyRequests /\ ReadableMode(x.req)
        /\ x.req.content \in Contents /\ x.item \in Objects
        /\ x.req.own \in DeploymentAnnotations
        /\ x.existing \in DeploymentAnnotations \cup {Empty}
    BY <1>0, <1>2, <1>10, CallRequestType DEF WriteObject, CallOK, Calls
  <2> DEFINE f == [release |-> t, content |-> x.req.content]
  <2>2. CASE /\ Label(h, x.item)
             /\ \/ x.item \in Tentacles /\ WriteDeployment(h, x.item)
                \/ x.item \in Kinds /\ WriteOther(h, x.item)
    <3>1. obj' = [obj EXCEPT ![n][x.item] = f] /\ f \in ObjRecords /\ f.release = t
      BY <1>2, <2>1, <2>2 DEF Label, ObjRecords
    <3> HIDE DEF f
    <3>2. obj' \in Objs
      BY <1>6, <2>1, <3>1
    <3>3. CASE x.item \in Tentacles /\ WriteDeployment(h, x.item)
      <4> DEFINE a == AnnotateDeployer(By(h), ResolvedMode(x.req, x.info), x.existing,
                                       x.req.own)
                 d == [exists |-> TRUE, rv |-> deps[n][x.item].rv + 1,
                       owner |-> a.owner, ownerSub |-> a.ownerSub]
      <4>1. /\ deps' = [deps EXCEPT ![n][x.item] = d]
            /\ depMode' = [depMode EXCEPT ![n][x.item] = a.mode]
            /\ UNCHANGED <<ns, quota, res, rvs>>
        BY <3>3 DEF WriteDeployment
      <4>2. ResolvedMode(x.req, x.info) \in Modes
        BY <2>1, ResolvedModeType
      <4>3. /\ a.owner \in Emails \cup {Empty} /\ a.ownerSub \in Emails \cup {Empty}
            /\ a.mode \in ModeTexts
        BY <1>2, <2>1, <4>2, AnnotateDeployerType DEF By
      <4> HIDE DEF a
      <4>4. d \in DepObjects /\ d.exists = TRUE
        BY <1>2, <3>3, <4>3 DEF DepObjects
      <4> HIDE DEF d
      <4>5. AllAgree
        BY <1>2, <1>8, <3>1, <3>3, <4>1, <4>4
      <4> QED BY <1>0, <1>4, <1>5, <3>2, <3>3, <4>1, <4>3, <4>4, <4>5
    <3>4. CASE x.item \in Kinds /\ WriteOther(h, x.item)
      <4>1. UNCHANGED <<clusterVars, depMode>>
        BY <3>4 DEF WriteOther
      <4>2. rvs' \in Versions
        <5>1. rvs' = [rvs EXCEPT ![n] = [rvs[n] EXCEPT ![x.item] = rvs[n][x.item] + 1]]
          BY <3>4 DEF WriteOther
        <5>2. [rvs[n] EXCEPT ![x.item] = rvs[n][x.item] + 1] \in [Kinds -> Nat]
          BY <1>2, <3>4
        <5> QED BY <1>0, <5>1, <5>2 DEF Versions
      <4>3. AllAgree
        BY <1>9, <3>1, <3>4, <4>1 DEF clusterVars
      <4> QED BY <1>0, <1>7, <3>2, <4>1, <4>2, <4>3
    <3> QED BY <2>2, <3>3, <3>4
  <2>3. CASE UNCHANGED <<clusterVars, objectVars>>
    BY <1>0, <1>7, <2>3 DEF clusterVars, objectVars, AllAgree
  <2> QED BY <1>10, <2>2, <2>3 DEF WriteObject
<1>11. ASSUME NEW o \in Objects, DeleteObject(h, o) PROVE Goal
  <2>1. /\ UNCHANGED <<ns, quota, res, rvs>>
        /\ obj' = [obj EXCEPT ![n][o] = NoObject]
    BY <1>11 DEF DeleteObject
  <2>2. NoObject \in ObjRecords /\ NoObject.release = Empty
    BY DEF NoObject, ObjRecords
  <2>3. obj' \in Objs
    BY <1>6, <2>1, <2>2
  <2>4. CASE o \in Tentacles
    <3> DEFINE d == [exists |-> FALSE, rv |-> deps[n][o].rv, owner |-> Empty,
                     ownerSub |-> Empty]
    <3>1. /\ deps' = [deps EXCEPT ![n][o] = d]
          /\ depMode' = [depMode EXCEPT ![n][o] = Empty]
      BY <1>2, <1>11, <2>4 DEF DeleteObject
    <3>2. d \in DepObjects /\ d.exists = FALSE /\ Empty \in ModeTexts
      BY <1>2, <2>4 DEF DepObjects, ModeTexts
    <3> HIDE DEF d
    <3>3. AllAgree
      BY <1>8, <2>1, <2>2, <2>4, <3>1, <3>2
    <3> QED BY <1>0, <1>4, <1>5, <2>1, <2>3, <2>4, <3>1, <3>2, <3>3
  <2>5. CASE o \in Kinds
    <3>1. UNCHANGED <<deps, depMode>>
      BY <1>2, <1>11, <2>5 DEF DeleteObject
    <3>2. AllAgree
      BY <1>9, <2>1, <2>5, <3>1
    <3> QED BY <1>0, <1>7, <2>1, <2>3, <3>1, <3>2 DEF clusterVars
  <2> QED BY <2>4, <2>5 DEF Objects
<1>12. CASE RestartPatch(h)
  <2> DEFINE d == [deps[n][t] EXCEPT !.rv = deps[n][t].rv + 1]
  <2>1. /\ UNCHANGED <<ns, quota, res, depMode, obj, rvs>>
        /\ deps' = deps \/ deps' = [deps EXCEPT ![n][t] = d]
    BY <1>12 DEF RestartPatch, objectVars
  <2>2. d \in DepObjects /\ d.exists = deps[n][t].exists
    BY <1>2 DEF DepObjects
  <2> HIDE DEF d
  <2>3. ASSUME NEW m \in Namespaces, NEW u \in Tentacles
        PROVE  deps'[m][u].exists = deps[m][u].exists
    <3>1. deps \in [Namespaces -> [Tentacles -> DepObjects]]
      BY <1>0 DEF ClusterTypeOK
    <3> QED BY <1>2, <2>1, <2>2, <3>1
  <2>4. AllAgree
    BY <1>0, <2>1, <2>3 DEF AllAgree
  <2> QED BY <1>0, <1>2, <1>4, <1>7, <2>1, <2>2, <2>4 DEF clusterVars
<1>13. CASE UNCHANGED <<clusterVars, objectVars>>
  BY <1>0, <1>7, <1>13 DEF clusterVars, objectVars, AllAgree
<1> HIDE DEF Goal
<1> QED BY <1>10, <1>11, <1>12, <1>13, CallEffects DEF Deletes

\* good changes when a handler begins to change a release, takes an object from
\* another one, or has succeeded.
LEMMA CallGood ==
  ASSUME NEW h \in Callers, CallStep(h) \/ CallFail(h)
  PROVE  \/ UNCHANGED good
         \/ Managed(h) /\ good' = [good EXCEPT ![NsOf(h)][TentOf(h)] = Empty]
         \/ WriteObject(h) /\ Label(h, call[h].item)
         \/ Done(h) /\ Succeed(h)
<1>1. ASSUME NEW o, ReadObject(h, o) \/ ListObjects(h, o) \/ DeleteObject(h, o)
      PROVE  UNCHANGED good
  BY <1>1 DEF ReadObject, ListObjects, DeleteObject
<1>2. CASE CallFail(h)
  BY <1>2 DEF CallFail, Return
<1>3. CASE \/ ApplyAnnotations(h) \/ ApplyDeployment(h) \/ ApplyNamespace(h)
           \/ Lookup(h) \/ Access(h)
  BY <1>3 DEF ApplyAnnotations, ApplyDeployment, ApplyNamespace, Lookup, Access,
              Return, Goto
<1>4. CASE Managed(h)
  BY <1>4 DEF Managed, Return
<1>5. CASE WriteObject(h) \/ Written(h)
  BY <1>5 DEF WriteObject, Written, Return
<1>6. CASE Done(h) \/ RestartGet(h) \/ RestartPatch(h) \/ RunPost(h)
  BY <1>6 DEF Done, RestartGet, RestartPatch, RunPost, Return, Goto
<1> QED BY <1>1, <1>2, <1>3, <1>4, <1>5, <1>6 DEF CallStep

\* What a request asks for is the content of a release.
LEMMA AskedType ==
  ASSUME NEW r \in AllRequests
  PROVE  Asked(r) \in [Objects -> Contents \cup {Empty}]
<1>1. r.op = "apply" => r.content \in Contents
  BY CallRequestType
<1> QED BY <1>1 DEF Asked, Named

\* good keeps its type.
LEMMA GoodType ==
  ASSUME TentaclesInv, NEW h \in Callers, CallStep(h) \/ CallFail(h)
  PROVE  good' \in [Namespaces -> [Tentacles -> Goods \cup {Empty}]]
<1> DEFINE n == NsOf(h)
           t == TentOf(h)
<1>0. good \in [Namespaces -> [Tentacles -> Goods \cup {Empty}]]
  BY DEF TentaclesInv, TentaclesTypeOK
<1>1. /\ call[h].req \in AllRequests /\ call[h].whole \in BOOLEAN
      /\ n \in Namespaces /\ t \in Tentacles
  BY CallShape, CallRequestType DEF TentaclesInv, CallOK, Calls, NsOf, TentOf
<1>2. good[n] \in [Tentacles -> Goods \cup {Empty}]
  BY <1>0, <1>1
<1>3. ASSUME NEW v \in Goods \cup {Empty}, good' = [good EXCEPT ![n][t] = v]
      PROVE  good' \in [Namespaces -> [Tentacles -> Goods \cup {Empty}]]
  <2>1. good' = [good EXCEPT ![n] = [good[n] EXCEPT ![t] = v]]
    BY <1>3
  <2>2. [good[n] EXCEPT ![t] = v] \in [Tentacles -> Goods \cup {Empty}]
    BY <1>2
  <2> QED BY <1>0, <2>1, <2>2
<1>4. CASE good' = [good EXCEPT ![n][t] = Empty]
  BY <1>3, <1>4
<1>5. CASE Label(h, call[h].item)
  <2> DEFINE G == [u \in Tentacles |->
               IF u # t /\ obj[n][call[h].item].release = u THEN Empty ELSE good[n][u]]
  <2>1. good' = [good EXCEPT ![n] = G]
    BY <1>5 DEF Label
  <2>2. G \in [Tentacles -> Goods \cup {Empty}]
    BY <1>2
  <2> HIDE DEF G
  <2> QED BY <1>0, <2>1, <2>2
<1>6. CASE Succeed(h)
  <2> DEFINE v == IF seen[h].alone
                  THEN [asked |-> Asked(call[h].req), whole |-> call[h].whole] ELSE Empty
  <2>1. v \in Goods \cup {Empty}
    <3>1. Asked(call[h].req) \in [Objects -> Contents \cup {Empty}]
      BY <1>1, AskedType
    <3> QED BY <1>1, <3>1 DEF Goods
  <2>2. good' = [good EXCEPT ![n][t] = v]
    BY <1>6 DEF Succeed
  <2> HIDE DEF v
  <2> QED BY <1>3, <2>1, <2>2
<1> QED BY <1>0, <1>4, <1>5, <1>6, CallGood

\* The history of the calls keeps its type.
LEMMA SeenType ==
  ASSUME TentaclesInv, Witness, call' \in [Callers -> Calls],
         \A h \in Callers : CallOK(call'[h]), ClusterTypeOK',
         depMode' \in DepModes
  PROVE  seen' \in [Callers ->
           [active : BOOLEAN, owners : SUBSET (Emails \cup {Empty}),
            modes : SUBSET ModeTexts, alone : BOOLEAN]]
<1> DEFINE SeenRecords == [active : BOOLEAN, owners : SUBSET (Emails \cup {Empty}),
                           modes : SUBSET ModeTexts, alone : BOOLEAN]
<1>1. ASSUME NEW h \in Callers PROVE seen'[h] \in SeenRecords
  <2>1. CASE call'[h].pc = "idle"
    <3>1. seen'[h] = NotSeen
      BY <2>1 DEF Witness
    <3> QED BY <3>1 DEF NotSeen
  <2>2. CASE call'[h].pc # "idle"
    <3>1. PICK n, t : n = call'[h].req.name /\ t = call'[h].req.tentacle
      OBVIOUS
    <3>2. n \in Namespaces /\ t \in Tentacles
      BY <2>2, <3>1, CallRequestType DEF CallOK
    <3>3. /\ deps'[n][t].owner \in Emails \cup {Empty}
          /\ depMode'[n][t] \in ModeTexts
      BY <3>2 DEF ClusterTypeOK, DepObjects, DepModes
    <3>4. seen[h] \in SeenRecords
      BY DEF TentaclesInv, TentaclesTypeOK, ModeTexts
    <3>5. seen'[h] =
            [active |-> seen[h].active \/ ~IsFrozen(ns'[n].ann),
             owners |-> seen[h].owners \cup
                          IF deps'[n][t].exists THEN {deps'[n][t].owner} ELSE {},
             modes  |-> seen[h].modes \cup
                          IF deps'[n][t].exists THEN {depMode'[n][t]} ELSE {},
             alone  |-> /\ seen[h].alone
                        /\ \A g \in Callers \ {h} : ~Meets(call'[g], call'[h].req)]
      BY <2>2, <3>1 DEF Witness
    <3>6. /\ seen'[h].active \in BOOLEAN /\ seen'[h].alone \in BOOLEAN
          /\ seen'[h].owners \in SUBSET (Emails \cup {Empty})
          /\ seen'[h].modes \in SUBSET ModeTexts
      BY <3>3, <3>4, <3>5
    <3> QED BY <3>5, <3>6
  <2> QED BY <2>1, <2>2
<1>2. seen' = [h \in Callers |-> seen'[h]]
  BY DEF Witness
<1> HIDE DEF SeenRecords
<1>3. seen' \in [Callers -> SeenRecords]
  BY <1>1, <1>2
<1> QED BY <1>3 DEF SeenRecords

---------------------------------------------------------------------------
(* Types *)

\* The objects and calls the system starts with are well typed.
LEMMA TentaclesInit == Init => TentaclesInv
<1> SUFFICES ASSUME Init PROVE TentaclesInv
  OBVIOUS
<1>1. PICK i \in Initial :
        /\ ns = [n \in Namespaces |->
             [phase |-> "Active", rv |-> 1, uid |-> 1, ann |-> i.enclaves[n]]]
        /\ deps = [n \in Namespaces |-> [t \in Tentacles |->
             IF i.tentacles[t] = Empty
             THEN [exists |-> FALSE, rv |-> 0, owner |-> Empty, ownerSub |-> Empty]
             ELSE [exists |-> TRUE, rv |-> 1, owner |-> i.tentacles[t].owner,
                   ownerSub |-> i.tentacles[t].ownerSub]]]
        /\ quota = [n \in Namespaces |->
             [exists |-> TRUE, rv |-> 1, kind |-> "requests",
              preset |-> i.enclaves[n].preset]]
        /\ res = [n \in Namespaces |-> Resources]
        /\ depMode = [n \in Namespaces |-> [t \in Tentacles |->
             IF i.tentacles[t] = Empty THEN Empty ELSE i.tentacles[t].mode]]
        /\ obj = [n \in Namespaces |-> [o \in Objects |->
             IF o \in Kinds THEN NoObject
             ELSE IF i.tentacles[o] = Empty THEN NoObject
             ELSE [release |-> o, content |-> CHOOSE x \in Contents : TRUE]]]
  BY DEF Init
<1>2. /\ i.enclaves \in [Namespaces -> EnclaveInfo]
      /\ i.tentacles \in [Tentacles -> DeploymentAnnotations \cup {Empty}]
  BY TentaclesAssumption
<1>3. /\ rvs = [n \in Namespaces |-> [k \in Kinds |-> 0]]
      /\ SyncInit
      /\ call = [h \in Callers |-> NoCall]
      /\ callCount = 0
      /\ seen = [h \in Callers |-> NotSeen]
      /\ good = [n \in Namespaces |-> [t \in Tentacles |-> Empty]]
  BY DEF Init
<1>4. ClusterTypeOK
  <2>1. \A n \in Namespaces : i.enclaves[n] \in EnclaveInfo /\ i.enclaves[n].preset \in Presets
    BY <1>2 DEF EnclaveInfo
  <2>2. ns \in [Namespaces -> NsObjects]
    BY <1>1, <2>1 DEF NsObjects
  <2>3. deps \in [Namespaces -> [Tentacles -> DepObjects]]
    BY <1>1, <1>2 DEF DepObjects, DeploymentAnnotations
  <2>4. quota \in [Namespaces -> QuotaObjects]
    BY <1>1, <2>1 DEF QuotaObjects
  <2> QED BY <1>1, <2>2, <2>3, <2>4 DEF ClusterTypeOK
<1>5. depMode \in DepModes
  BY <1>1, <1>2 DEF DepModes, ModeTexts, DeploymentAnnotations
<1>6. /\ obj \in Objs
      /\ \A n \in Namespaces, t \in Tentacles :
           deps[n][t].exists <=> obj[n][t].release # Empty
  <2>1. (CHOOSE x \in Contents : TRUE) \in Contents
    BY TentaclesAssumption
  <2>2. NoObject \in ObjRecords /\ NoObject.release = Empty
    BY DEF NoObject, ObjRecords
  <2>3. \A o \in Objects : o \notin Kinds => o \in Tentacles
    BY DEF Objects
  <2>4. obj \in Objs
    BY <1>1, <2>1, <2>2, <2>3 DEF Objs, ObjRecords
  <2>5. ASSUME NEW n \in Namespaces, NEW t \in Tentacles
        PROVE  deps[n][t].exists <=> obj[n][t].release # Empty
    <3>1. t \in Objects /\ t \notin Kinds /\ t # Empty
      BY TentaclesAssumption DEF Objects
    <3>2. obj[n][t].release = IF i.tentacles[t] = Empty THEN Empty ELSE t
      BY <1>1, <2>2, <3>1
    <3>3. deps[n][t].exists = (i.tentacles[t] # Empty)
      BY <1>1
    <3> QED BY <3>1, <3>2, <3>3
  <2> QED BY <2>4, <2>5
<1>7. \A h \in Callers : CallOK(call[h]) /\ call[h] \in Calls /\ call[h].pc = "idle"
  BY <1>3, NoCallOK DEF CallOK, NoCall
<1>8. TentaclesTypeOK
  BY <1>3, <1>4, <1>5, <1>6, <1>7
     DEF TentaclesTypeOK, NotSeen, DepModes, ModeTexts, Objs, ObjRecords
<1>9. SyncTypeInv
  <2>1. SyncOK(Idle) /\ Idle \in SyncCalls
    BY IdleSyncOK DEF SyncOK
  <2> QED BY <1>3, <1>4, <2>1 DEF SyncTypeInv, SyncInit
<1> QED BY <1>7, <1>8, <1>9 DEF TentaclesInv

\* The start of a call.
LEMMA StartShape ==
  ASSUME NEW h \in Callers, NEW r \in AllRequests, Start(h, r)
  PROVE  \E y : /\ call' = [call EXCEPT ![h] = y]
                /\ CallOK(y) /\ y.req = r /\ y.existing = Empty
                /\ y.pc = IF r.op = "apply" THEN "annotations" ELSE "lookup"
                /\ call[h].pc = "idle"
<1> DEFINE loc == IF r.op = "apply" THEN "annotations" ELSE "lookup"
           y == [NoCall EXCEPT !.pc = loc, !.req = r]
<1>1. call' = [call EXCEPT ![h] = y] /\ call[h].pc = "idle"
  BY DEF Start, Busy
<1>2. loc \in {"annotations", "lookup"} /\ (loc = "annotations" <=> r.op = "apply")
  OBVIOUS
<1>3. y.pc = loc /\ y.req = r /\ y.existing = Empty
  BY DEF NoCall
<1> HIDE DEF loc
<1>4. CallOK(y)
  BY <1>2 DEF CallOK, NoCall, Calls, AllRequests
<1> QED BY <1>1, <1>3, <1>4 DEF loc

\* enclave_sync neither creates nor deletes a Deployment or a namespace.
LEMMA SyncFrame ==
  ASSUME TentaclesInv, SyncNext, NEW n \in Namespaces
  PROVE  /\ ns'[n].phase = ns[n].phase
         /\ \A t \in Tentacles : deps'[n][t].exists = deps[n][t].exists
<1>0. /\ ns \in [Namespaces -> NsObjects]
      /\ deps \in [Namespaces -> [Tentacles -> DepObjects]]
  BY DEF TentaclesInv, TentaclesTypeOK, ClusterTypeOK
<1>1. ASSUME NEW c \in Syncers, NEW u \in Tentacles, TransferUpdate(c, u)
      PROVE  UNCHANGED ns /\ \A t \in Tentacles : deps'[n][t].exists = deps[n][t].exists
  <2>1. UNCHANGED ns
    BY <1>1 DEF TransferUpdate
  <2>2. \/ UNCHANGED deps
        \/ /\ deps[Name(c)][u].exists
           /\ \E d : d.exists = TRUE /\ deps' = [deps EXCEPT ![Name(c)][u] = d]
    BY <1>1 DEF TransferUpdate
  <2>3. deps[n] \in [Tentacles -> DepObjects] /\ \A t \in Tentacles : deps[n][t].exists \in BOOLEAN
    BY <1>0 DEF DepObjects
  <2> QED BY ZenonT(40), <1>0, <2>1, <2>2, <2>3
<1>2. ASSUME NEW c \in Syncers, SyncUpdate(c)
      PROVE  ns'[n].phase = ns[n].phase /\ UNCHANGED deps
  <2>1. PICK i : ns' = [ns EXCEPT ![Name(c)] = Annotated(ns[Name(c)], i)]
    BY <1>2 DEF SyncUpdate
  <2>2. UNCHANGED deps
    BY <1>2 DEF SyncUpdate
  <2> QED BY <1>0, <2>1, <2>2 DEF Annotated
<1>3. ASSUME NEW c \in Syncers, ~(\E u \in Tentacles : TransferUpdate(c, u)),
             ~SyncUpdate(c),
             SyncStep(c) \/ SyncFail(c) \/ \E r \in Requests : SyncStart(c, r)
      PROVE  UNCHANGED <<ns, deps>>
  BY <1>3 DEF SyncStep, SyncFail, SyncStart, SyncGet, TransferList, QuotaGet,
              QuotaUpdate, SyncRefuse, SyncConflict, SyncGone, clusterVars
<1> QED BY <1>1, <1>2, <1>3 DEF SyncNext

\* The deletion of a namespace leaves the objects well typed.
LEMMA GoneType ==
  ASSUME TentaclesInv, NEW n \in Namespaces, Deprovision(n) \/ Finalize(n)
  PROVE  /\ ClusterTypeOK'
         /\ depMode' \in DepModes /\ obj' \in Objs /\ rvs' \in Versions
         /\ good' \in [Namespaces -> [Tentacles -> Goods \cup {Empty}]]
         /\ \A m \in Namespaces, t \in Tentacles : Agree(m, t)'
<1>0. /\ ClusterTypeOK
      /\ depMode \in DepModes /\ obj \in Objs /\ rvs \in Versions
      /\ good \in [Namespaces -> [Tentacles -> Goods \cup {Empty}]]
      /\ \A m \in Namespaces, t \in Tentacles :
           deps[m][t].exists <=> obj[m][t].release # Empty
  BY DEF TentaclesInv, TentaclesTypeOK, DepModes, ModeTexts, Objs, ObjRecords, Versions
<1>1. CASE Deprovision(n)
  <2>1. DeletedNs(ns[n]) \in NsObjects
    BY <1>0, NsWritten DEF ClusterTypeOK
  <2> QED BY <1>0, <1>1, <2>1 DEF Deprovision, ClusterTypeOK, objectVars, Agree
<1>2. CASE Finalize(n)
  <2>1. ns' \in [Namespaces -> NsObjects]
    <3> DEFINE o == [phase |-> "Absent", rv |-> ns[n].rv, uid |-> ns[n].uid,
                     ann |-> Empty]
    <3>1. o \in NsObjects
      BY <1>0 DEF ClusterTypeOK, NsObjects
    <3>2. ns' = [ns EXCEPT ![n] = o]
      BY <1>2 DEF Finalize, FinalizeNamespace
    <3> HIDE DEF o
    <3> QED BY <1>0, <3>1, <3>2 DEF ClusterTypeOK
  <2>2. deps' \in [Namespaces -> [Tentacles -> DepObjects]]
    <3> DEFINE D == [t \in Tentacles |->
                      [exists |-> FALSE, rv |-> deps[n][t].rv, owner |-> Empty,
                       ownerSub |-> Empty]]
    <3>1. D \in [Tentacles -> DepObjects]
      BY <1>0 DEF ClusterTypeOK, DepObjects
    <3>2. deps' = [deps EXCEPT ![n] = D]
      BY <1>2 DEF Finalize, FinalizeNamespace
    <3> HIDE DEF D
    <3> QED BY <1>0, <3>1, <3>2 DEF ClusterTypeOK
  <2>3. quota' \in [Namespaces -> QuotaObjects] /\ res' \in [Namespaces -> SUBSET Resources]
    <3> DEFINE o == [quota[n] EXCEPT !.exists = FALSE]
    <3>0. quota[n] \in QuotaObjects /\ quota \in [Namespaces -> QuotaObjects]
      BY <1>0 DEF ClusterTypeOK
    <3>1. o \in QuotaObjects
      BY <3>0 DEF QuotaObjects
    <3>2. quota' = [quota EXCEPT ![n] = o] /\ res' = [res EXCEPT ![n] = {}]
      BY <1>2 DEF Finalize, FinalizeNamespace
    <3> HIDE DEF o
    <3> QED BY <1>0, <3>0, <3>1, <3>2 DEF ClusterTypeOK
  <2>4. depMode' \in DepModes
    BY <1>0, <1>2 DEF Finalize, DepModes, ModeTexts
  <2>5. obj' \in Objs
    <3> DEFINE D == [o \in Objects |-> NoObject]
    <3>1. D \in [Objects -> ObjRecords]
      BY DEF NoObject, ObjRecords
    <3>2. obj' = [obj EXCEPT ![n] = D]
      BY <1>2 DEF Finalize
    <3> HIDE DEF D
    <3> QED BY <1>0, <3>1, <3>2 DEF Objs
  <2>6. good' \in [Namespaces -> [Tentacles -> Goods \cup {Empty}]]
    BY <1>0, <1>2 DEF Finalize
  <2>7. rvs' \in Versions
    BY <1>0, <1>2 DEF Finalize
  <2>8. ASSUME NEW m \in Namespaces, NEW t \in Tentacles
        PROVE  deps'[m][t].exists <=> obj'[m][t].release # Empty
    <3>1. CASE m = n
      <4>1. t \in Objects
        BY DEF Objects
      <4>2. obj'[m][t].release = Empty /\ deps'[m][t].exists = FALSE
        BY <1>0, <1>2, <3>1, <4>1
           DEF Finalize, FinalizeNamespace, NoObject, Objs, ClusterTypeOK
      <4> QED BY <4>2
    <3>2. CASE m # n
      <4>1. obj'[m] = obj[m] /\ deps'[m] = deps[m]
        BY <1>0, <1>2, <3>2 DEF Finalize, FinalizeNamespace, Objs, ClusterTypeOK
      <4> QED BY <1>0, <4>1
    <3> QED BY <3>1, <3>2
  <2> QED BY <2>1, <2>2, <2>3, <2>4, <2>5, <2>6, <2>7, <2>8 DEF ClusterTypeOK, Agree
<1> QED BY <1>1, <1>2

\* Every step keeps the types.
LEMMA TentaclesTypeNext == TentaclesInv /\ [Next]_vars => TentaclesInv'
<1> SUFFICES ASSUME TentaclesInv, [Next]_vars PROVE TentaclesInv'
  OBVIOUS
<1> DEFINE GoodTypes == [Namespaces -> [Tentacles -> Goods \cup {Empty}]]
           AllAgree == \A n \in Namespaces, t \in Tentacles : Agree(n, t)
           CallsOK == call' \in [Callers -> Calls] /\ \A g \in Callers : CallOK(call'[g])
<1>0. /\ ClusterTypeOK /\ SyncTypeInv
      /\ depMode \in DepModes /\ obj \in Objs /\ rvs \in Versions
      /\ good \in GoodTypes /\ callCount \in Nat /\ AllAgree
      /\ call \in [Callers -> Calls] /\ \A h \in Callers : CallOK(call[h])
  BY DEF TentaclesInv, TentaclesTypeOK, DepModes, ModeTexts, Objs, ObjRecords, Versions,
         Agree
<1>1. ASSUME ClusterTypeOK', SyncTypeInv', depMode' \in DepModes, obj' \in Objs,
             rvs' \in Versions, good' \in GoodTypes, callCount' \in Nat, CallsOK,
             AllAgree', Witness
      PROVE  TentaclesInv'
  <2>1. seen' \in [Callers ->
          [active : BOOLEAN, owners : SUBSET (Emails \cup {Empty}),
           modes : SUBSET ModeTexts, alone : BOOLEAN]]
    BY <1>1, SeenType
  <2>2. \A h \in Callers :
          call'[h].pc \notin {"idle", "annotations"} /\ call'[h].req.op = "apply" =>
            ReadableMode(call'[h].req)
    BY <1>1 DEF CallOK
  <2>3. TentaclesTypeOK'
    BY <1>1, <2>1, <2>2 DEF TentaclesTypeOK, DepModes, ModeTexts, Objs, ObjRecords,
         Versions, Agree, ReadableMode
  <2> QED BY <1>1, <2>3 DEF TentaclesInv
<1>2. ASSUME UNCHANGED syncVars, ClusterTypeOK' PROVE SyncTypeInv'
  BY <1>0, <1>2 DEF syncVars, SyncTypeInv
<1>3. ASSUME NEW h \in Callers, NEW y, CallOK(y), call' = [call EXCEPT ![h] = y]
      PROVE  CallsOK
  BY <1>0, <1>3 DEF CallOK
<1>4. ASSUME UNCHANGED <<call, callCount>> PROVE CallsOK /\ callCount' \in Nat
  BY <1>0, <1>4
<1> HIDE DEF GoodTypes, CallsOK
<1>5. ASSUME NEW h \in Callers, NEW r \in AllRequests, Start(h, r), UNCHANGED syncVars, Witness
      PROVE  TentaclesInv'
  <2>1. /\ ClusterTypeOK' /\ depMode' \in DepModes /\ obj' \in Objs /\ rvs' \in Versions
        /\ good' \in GoodTypes /\ callCount' \in Nat /\ AllAgree'
    BY <1>0, <1>5 DEF Start, clusterVars, objectVars, ClusterTypeOK, Agree
  <2>2. CallsOK
    BY <1>3, <1>5, StartShape
  <2> QED BY <1>1, <1>2, <1>5, <2>1, <2>2
<1>6. ASSUME NEW h \in Callers, CallStep(h) \/ CallFail(h), UNCHANGED syncVars, Witness
      PROVE  TentaclesInv'
  <2>1. /\ ClusterTypeOK' /\ depMode' \in DepModes /\ obj' \in Objs /\ rvs' \in Versions
        /\ AllAgree'
    BY <1>6, CallCluster
  <2>2. CallsOK
    BY <1>3, <1>6, CallShape
  <2>3. callCount' \in Nat
    <3>1. UNCHANGED callCount
      BY <1>6 DEF CallStep, ApplyAnnotations, ApplyDeployment, ApplyNamespace, Lookup,
           Access, Managed, ReadObject, WriteObject, Written, ListObjects, DeleteObject,
           Done, RestartGet, RestartPatch, RunPost, CallFail
    <3> QED BY <1>0, <3>1
  <2>4. good' \in GoodTypes
    BY <1>6, GoodType DEF GoodTypes
  <2> QED BY <1>1, <1>2, <1>6, <2>1, <2>2, <2>3, <2>4
<1>7. CASE SyncNext /\ UNCHANGED <<tentacleVars, good>> /\ Witness
  <2>1. SyncTypeInv'
    BY <1>0, <1>7, SyncTypeNext
  <2>2. ClusterTypeOK'
    BY <2>1 DEF SyncTypeInv
  <2>3. UNCHANGED <<depMode, obj, rvs, call, callCount, good>>
    BY <1>7 DEF tentacleVars, objectVars
  <2>4. AllAgree'
    BY <1>0, <1>7, <2>3, SyncFrame DEF Agree
  <2> QED BY <1>0, <1>1, <1>4, <1>7, <2>1, <2>2, <2>3, <2>4
<1>8. ASSUME NEW n \in Namespaces, Deprovision(n) \/ Finalize(n),
             UNCHANGED <<syncVars, call, callCount>>, Witness
      PROVE  TentaclesInv'
  <2>1. /\ ClusterTypeOK' /\ depMode' \in DepModes /\ obj' \in Objs /\ rvs' \in Versions
        /\ good' \in GoodTypes /\ AllAgree'
    BY <1>8, GoneType DEF GoodTypes
  <2> QED BY <1>1, <1>2, <1>4, <1>8, <2>1
<1>9. CASE UNCHANGED vars
  BY <1>9 DEF vars, clusterVars, syncVars, tentacleVars, objectVars, historyVars,
              TentaclesInv, TentaclesTypeOK, SyncTypeInv, ClusterTypeOK
<1> QED BY <1>5, <1>6, <1>7, <1>8, <1>9 DEF Next, AllRequests

\* For any number of calls of the wf_* tools and of enclave_sync, the objects of
\* the cluster and the locals of the handlers keep their types, and a mode that
\* ParseMode refuses is never the one wf_apply itself stamps (the manifest's own may
\* be anything).
THEOREM TentaclesTypeCorrect == Spec => []TentaclesTypeOK
<1>1. TentaclesInv => TentaclesTypeOK
  BY DEF TentaclesInv
<1> QED BY <1>1, TentaclesInit, TentaclesTypeNext, PTL DEF Spec

---------------------------------------------------------------------------
(* What the history of a call holds *)

\* The present state is recorded in it.
Recorded(h) ==
  /\ ~IsFrozen(ns[NsOf(h)].ann) => seen[h].active
  /\ DepOf(h).exists =>
       /\ DepOf(h).owner \in seen[h].owners
       /\ depMode[NsOf(h)][TentOf(h)] \in seen[h].modes
  /\ seen[h].alone => \A g \in Callers \ {h} : ~Meets(call[g], call[h].req)

\* wf_apply has still to write the Deployment.
ToWrite(x) ==
  \/ x.pc \in {"namespace", "managed"}
  \/ x.pc \in {"manifests", "write"} /\ x.req.tentacle \in x.todo
  \/ x.pc = "write" /\ x.item = x.req.tentacle

\* wf_restart and wf_run have passed their checks.
Checked(x) ==
  /\ x.req.op \in {"restart", "run"}
  /\ x.pc \in {"managed", "restart", "patch", "run"}

\* What the handler has read is recorded; and a handler that is alone and that
\* found no Deployment, on which it made no check of the tentacle or which it will
\* create, is right about that.
Remembered(h) ==
  LET x == call[h] IN
  /\ x.req.op = "apply" /\ x.pc # "annotations" => seen[h].active
  /\ Checked(x) /\ seen[h].alone => seen[h].active \/ ~DepOf(h).exists
  /\ x.req.op = "apply" /\ x.existing # Empty =>
       x.existing.owner \in seen[h].owners /\ x.existing.mode \in seen[h].modes
  /\ x.req.op = "apply" /\ x.existing = Empty /\ seen[h].alone /\ ToWrite(x) =>
       ~DepOf(h).exists

HistoryInv ==
  /\ TentaclesInv
  /\ \A h \in Callers : Busy(h) => Recorded(h) /\ Remembered(h)

\* The history of a call that goes on.
LEMMA HistoryGrows ==
  ASSUME TentaclesInv, Witness, NEW h \in Callers, call'[h].pc # "idle"
  PROVE  /\ seen[h].active => seen'[h].active
         /\ seen[h].owners \subseteq seen'[h].owners
         /\ seen[h].modes \subseteq seen'[h].modes
         /\ seen'[h].alone => seen[h].alone
         /\ Recorded(h)'
<1>1. PICK n, t : n = call'[h].req.name /\ t = call'[h].req.tentacle
  OBVIOUS
<1> DEFINE active == seen[h].active \/ ~IsFrozen(ns'[n].ann)
           owners == seen[h].owners \cup
                       IF deps'[n][t].exists THEN {deps'[n][t].owner} ELSE {}
           modes == seen[h].modes \cup
                      IF deps'[n][t].exists THEN {depMode'[n][t]} ELSE {}
           alone == /\ seen[h].alone
                    /\ \A g \in Callers \ {h} : ~Meets(call'[g], call'[h].req)
<1>2. seen'[h] = [active |-> active, owners |-> owners, modes |-> modes, alone |-> alone]
  BY <1>1 DEF Witness
<1>3. active \in BOOLEAN /\ alone \in BOOLEAN
  OBVIOUS
<1> HIDE DEF active, owners, modes, alone
<1>4. /\ seen'[h].active = active /\ seen'[h].owners = owners
      /\ seen'[h].modes = modes /\ seen'[h].alone = alone
  BY <1>2
<1>5. seen[h].active \in BOOLEAN /\ seen[h].alone \in BOOLEAN
  BY DEF TentaclesInv, TentaclesTypeOK
<1>6. seen[h].active => seen'[h].active
  BY <1>4, <1>5 DEF active
<1>7. seen'[h].alone => seen[h].alone
  BY <1>4, <1>5 DEF alone
<1>8. seen[h].owners \subseteq seen'[h].owners /\ seen[h].modes \subseteq seen'[h].modes
  BY <1>4 DEF owners, modes
<1>9. ~IsFrozen(ns'[n].ann) => seen'[h].active
  BY <1>4 DEF active
<1>10. deps'[n][t].exists =>
         deps'[n][t].owner \in seen'[h].owners /\ depMode'[n][t] \in seen'[h].modes
  BY <1>4 DEF owners, modes
<1>11. seen'[h].alone =>
         \A g \in Callers \ {h} : ~Meets(call'[g], call'[h].req)
  BY <1>4 DEF alone
<1>12. Recorded(h)'
  BY <1>1, <1>9, <1>10, <1>11 DEF Recorded, NsOf, TentOf, DepOf
<1> QED BY <1>6, <1>7, <1>8, <1>12

\* A Deployment comes into being only when a wf_apply call that describes it writes it.
LEMMA Appears ==
  ASSUME TentaclesInv, Next, NEW n \in Namespaces, NEW t \in Tentacles,
         ~deps[n][t].exists, deps'[n][t].exists
  PROVE  \E g \in Callers :
           /\ call[g].pc = "write" /\ call[g].item = t
           /\ NsOf(g) = n
           /\ call' = [call EXCEPT ![g].pc = "manifests"]
<1> DEFINE Goal == \E g \in Callers :
             /\ call[g].pc = "write" /\ call[g].item = t
             /\ NsOf(g) = n
             /\ call' = [call EXCEPT ![g].pc = "manifests"]
<1>0. deps \in [Namespaces -> [Tentacles -> DepObjects]]
  BY DEF TentaclesInv, TentaclesTypeOK, ClusterTypeOK
<1>1. ASSUME NEW g \in Callers, CallStep(g) \/ CallFail(g) PROVE Goal
  <2>1. /\ CallOK(call[g]) /\ call[g].pc # "idle"
    BY <1>1, CallShape DEF TentaclesInv
  <2>2. NsOf(g) \in Namespaces /\ TentOf(g) \in Tentacles
    BY <2>1, CallRequestType DEF CallOK, NsOf, TentOf
  <2>3. CASE WriteObject(g)
    <3>1. /\ WriteDeployment(g, call[g].item) /\ call[g].item \in Tentacles
          /\ call' = [call EXCEPT ![g].pc = "manifests"] /\ call[g].pc = "write"
      BY <2>3 DEF WriteObject, WriteOther, clusterVars
    <3>2. NsOf(g) = n /\ call[g].item = t
      BY <1>0, <2>2, <3>1 DEF WriteDeployment
    <3> QED BY <3>1, <3>2
  <2>4. ASSUME NEW o \in Objects, DeleteObject(g, o) PROVE Goal
    <3>1. \/ UNCHANGED deps
          \/ /\ o \in Tentacles
             /\ \E d : ~d.exists /\ deps' = [deps EXCEPT ![NsOf(g)][o] = d]
      BY <2>4 DEF DeleteObject
    <3> QED BY <1>0, <2>2, <3>1
  <2>5. CASE RestartPatch(g)
    BY <1>0, <2>2, <2>5 DEF RestartPatch, DepOf, DepObjects
  <2>6. CASE UNCHANGED <<clusterVars, objectVars>>
    BY <2>6 DEF clusterVars
  <2> QED BY <1>1, <2>3, <2>4, <2>5, <2>6, CallEffects DEF Deletes
<1>2. ASSUME NEW g \in Callers, NEW r \in AllRequests, Start(g, r) PROVE FALSE
  BY <1>2 DEF Start, clusterVars
<1>3. CASE SyncNext
  <2>1. ASSUME NEW c \in Syncers, NEW u \in Tentacles, TransferUpdate(c, u) PROVE FALSE
    <3>1. \/ UNCHANGED deps
          \/ /\ deps[Name(c)][u].exists
             /\ \E d : deps' = [deps EXCEPT ![Name(c)][u] = d]
      BY <2>1 DEF TransferUpdate
    <3> QED BY <1>0, <3>1
  <2>2. ASSUME NEW c \in Syncers, ~(\E u \in Tentacles : TransferUpdate(c, u)),
               SyncStep(c) \/ SyncFail(c) \/ \E r \in Requests : SyncStart(c, r)
        PROVE  UNCHANGED deps
    BY <2>2 DEF SyncStep, SyncFail, SyncStart, SyncGet, TransferList, QuotaGet,
                QuotaUpdate, SyncRefuse, SyncUpdate, SyncConflict, SyncGone, clusterVars
  <2> QED BY <1>3, <2>1, <2>2 DEF SyncNext
<1>4. ASSUME NEW m \in Namespaces, Deprovision(m) \/ Finalize(m) PROVE FALSE
  BY <1>0, <1>4 DEF Deprovision, Finalize, FinalizeNamespace
<1> HIDE DEF Goal
<1> QED BY <1>1, <1>2, <1>3, <1>4 DEF Next, AllRequests, Goal

\* The steps of a handler that goes on, by what they read and decide.
LEMMA CallMoves ==
  ASSUME TentaclesInv, NEW h \in Callers, CallStep(h) \/ CallFail(h),
         call'[h].pc # "idle"
  PROVE  LET x == call[h]
             y == call'[h]
             n == NsOf(h)
             t == TentOf(h) IN
         \/ /\ x.pc = "annotations" /\ y.pc = "deployment"
            /\ y.existing = x.existing /\ ~IsFrozen(ns[n].ann)
         \/ /\ x.pc = "deployment" /\ y.pc = "namespace"
            /\ y.existing = x.existing /\ ~DepOf(h).exists
         \/ /\ x.pc = "deployment" /\ y.pc = "managed"
            /\ y.existing = Annotations(n, t) /\ DepOf(h).exists
         \/ x.pc = "lookup" /\ y.pc = "managed" /\ ~DepOf(h).exists
         \/ x.pc = "lookup" /\ y.pc = "access"
         \/ /\ x.pc = "access" /\ y.pc = "managed"
            /\ x.req.op = "remove" \/ ~IsFrozen(ns[n].ann)
         \/ /\ x.pc \notin {"annotations", "deployment", "lookup", "access"}
            /\ y.existing = x.existing
            /\ ToWrite(y) => ToWrite(x)
            /\ Checked(y) => Checked(x)
<1> DEFINE x == call[h]
           y == call'[h]
           Rest == /\ x.pc \notin {"annotations", "deployment", "lookup", "access"}
                   /\ y.existing = x.existing
                   /\ ToWrite(y) => ToWrite(x)
                   /\ Checked(y) => Checked(x)
           Goal == \/ /\ x.pc = "annotations" /\ y.pc = "deployment"
                      /\ y.existing = x.existing /\ ~IsFrozen(ns[NsOf(h)].ann)
                   \/ /\ x.pc = "deployment" /\ y.pc = "namespace"
                      /\ y.existing = x.existing /\ ~DepOf(h).exists
                   \/ /\ x.pc = "deployment" /\ y.pc = "managed"
                      /\ y.existing = Annotations(NsOf(h), TentOf(h))
                      /\ DepOf(h).exists
                   \/ x.pc = "lookup" /\ y.pc = "managed" /\ ~DepOf(h).exists
                   \/ x.pc = "lookup" /\ y.pc = "access"
                   \/ /\ x.pc = "access" /\ y.pc = "managed"
                      /\ x.req.op = "remove" \/ ~IsFrozen(ns[NsOf(h)].ann)
                   \/ Rest
<1> SUFFICES Goal
  OBVIOUS
<1>0. CallOK(x) /\ x \in Calls /\ call \in [Callers -> Calls] /\ NoCall.pc = "idle"
  BY DEF TentaclesInv, TentaclesTypeOK, NoCall
<1>1. call' # [call EXCEPT ![h] = NoCall]
  BY <1>0
<1>2. ~Return(h) /\ ~Succeed(h)
  BY <1>1 DEF Return, Succeed
<1>3. ASSUME NEW loc, Goto(h, loc)
      PROVE  /\ y.pc = loc /\ y.req = x.req /\ y.todo = x.todo /\ y.item = x.item
             /\ y.existing = x.existing
  BY <1>0, <1>3 DEF Goto, Calls
<1>4. CASE ApplyAnnotations(h)
  BY <1>0, <1>2, <1>4 DEF ApplyAnnotations, Calls
<1>5. CASE ApplyDeployment(h)
  <2>1. \/ ~DepOf(h).exists /\ Goto(h, "namespace")
        \/ /\ DepOf(h).exists
           /\ call' = [call EXCEPT ![h].existing = Annotations(NsOf(h), TentOf(h)),
                                   ![h].pc = "managed"]
    BY <1>2, <1>5 DEF ApplyDeployment
  <2>2. x.pc = "deployment"
    BY <1>5 DEF ApplyDeployment
  <2> QED BY <1>0, <1>3, <2>1, <2>2 DEF Calls
<1>6. CASE ApplyNamespace(h)
  <2>1. x.pc = "namespace" /\ Goto(h, "managed")
    BY <1>2, <1>6 DEF ApplyNamespace
  <2>2. x.req.op = "apply"
    BY <1>0, <2>1 DEF CallOK
  <2> QED BY <1>3, <2>1, <2>2 DEF ToWrite, Checked
<1>7. CASE Lookup(h)
  BY <1>0, <1>3, <1>7 DEF Lookup, Calls
<1>8. CASE Access(h)
  BY <1>2, <1>3, <1>8 DEF Access
<1>9. CASE Managed(h)
  <2>1. /\ x.pc = "managed" /\ y.existing = x.existing /\ y.req = x.req
    BY <1>0, <1>2, <1>9 DEF Managed, Calls
  <2> QED BY <2>1 DEF ToWrite, Checked
<1>10. ASSUME NEW o \in Objects, ReadObject(h, o) PROVE Goal
  <2>1. /\ x.pc = "manifests" /\ o \in x.todo /\ y.existing = x.existing
        /\ y.pc = "write" /\ y.item = o /\ y.todo = x.todo \ {o} /\ y.req = x.req
    BY <1>0, <1>10 DEF ReadObject, Calls
  <2> QED BY <2>1 DEF ToWrite, Checked
<1>11. CASE WriteObject(h)
  <2>1. x.pc = "write" /\ call' = [call EXCEPT ![h].pc = "manifests"]
    BY <1>2, <1>11 DEF WriteObject
  <2>2. /\ y.pc = "manifests" /\ y.req = x.req /\ y.todo = x.todo
        /\ y.existing = x.existing
    BY <1>0, <2>1 DEF Calls
  <2> QED BY <2>1, <2>2 DEF ToWrite, Checked
<1>12. CASE Written(h)
  BY <1>0, <1>12 DEF Written, Calls, ToWrite, Checked
<1>13. ASSUME NEW o, ListObjects(h, o) \/ DeleteObject(h, o) PROVE Goal
  <2>1. x.pc = "delete" /\ y.existing = x.existing /\ y.pc = "delete"
    BY <1>0, <1>13 DEF ListObjects, DeleteObject, Calls
  <2> QED BY <2>1 DEF ToWrite, Checked
<1>15. CASE RestartGet(h)
  BY <1>2, <1>3, <1>15 DEF RestartGet, ToWrite, Checked
<1>16. CASE Done(h) \/ RestartPatch(h) \/ RunPost(h)
  BY <1>2, <1>16 DEF Done, RestartPatch, RunPost
<1>17. CASE CallFail(h)
  <2>1. ASSUME NEW kind,
               call' = [call EXCEPT ![h].todo = @ \ kind, ![h].whole = FALSE]
        PROVE  y.pc = x.pc /\ y.existing = x.existing
    BY <1>0, <2>1 DEF Calls
  <2>2. ASSUME NEW o,
               call' = [call EXCEPT ![h].listed = @ \ {o}, ![h].whole = FALSE]
        PROVE  y.pc = x.pc /\ y.existing = x.existing
    BY <1>0, <2>2 DEF Calls
  <2>3. x.pc = "delete" /\ y.pc = "delete" /\ y.existing = x.existing
    BY <1>2, <1>17, <2>1, <2>2 DEF CallFail
  <2> QED BY <2>3 DEF ToWrite, Checked
<1> HIDE DEF Goal
<1> QED BY <1>4, <1>5, <1>6, <1>7, <1>8, <1>9, <1>10, <1>11, <1>12, <1>13,
           <1>15, <1>16, <1>17 DEF CallStep

\* Steps of others leave what a handler remembers.
LEMMA RememberedStays ==
  ASSUME HistoryInv, Next, NEW h \in Callers, Busy(h), call'[h] = call[h]
  PROVE  Remembered(h)'
<1> DEFINE x == call[h]
<1>0. TentaclesInv /\ Remembered(h) /\ x.pc # "idle" /\ Witness
  BY DEF HistoryInv, Busy, Next
<1>1. /\ seen[h].active => seen'[h].active
      /\ seen[h].owners \subseteq seen'[h].owners
      /\ seen[h].modes \subseteq seen'[h].modes
      /\ seen'[h].alone => seen[h].alone
      /\ Recorded(h)'
  BY <1>0, HistoryGrows
<1>2. PICK n \in Namespaces, t \in Tentacles : n = x.req.name /\ t = x.req.tentacle
  BY <1>0, CallRequestType DEF TentaclesInv, CallOK
<1>3. seen'[h].alone /\ ~deps[n][t].exists => ~deps'[n][t].exists
  <2> SUFFICES ASSUME seen'[h].alone, ~deps[n][t].exists, deps'[n][t].exists
               PROVE  FALSE
    OBVIOUS
  <2>1. PICK g \in Callers :
          /\ call[g].pc = "write" /\ call[g].item = t
          /\ NsOf(g) = n
          /\ call' = [call EXCEPT ![g].pc = "manifests"]
    BY <1>0, Appears
  <2>2. call \in [Callers -> Calls] /\ CallOK(call[g])
    BY <1>0 DEF TentaclesInv, TentaclesTypeOK
  <2>3. call'[g].pc = "manifests" /\ call'[g].req = call[g].req
    BY <2>1, <2>2 DEF Calls
  <2>4. g # h
    BY <2>1, <2>3
  <2>5. t \in Named(call'[g].req) /\ call'[g].req.op = "apply"
    BY <2>1, <2>2, <2>3 DEF CallOK, Named
  <2>6. Meets(call'[g], call'[h].req)
    BY <1>2, <2>1, <2>3, <2>5 DEF Meets, NsOf
  <2> QED BY <1>1, <2>4, <2>6 DEF Recorded
<1>4. /\ x.req.op = "apply" /\ x.pc # "annotations" => seen'[h].active
      /\ Checked(x) /\ seen'[h].alone => seen'[h].active \/ ~deps'[n][t].exists
      /\ x.req.op = "apply" /\ x.existing # Empty =>
           x.existing.owner \in seen'[h].owners /\ x.existing.mode \in seen'[h].modes
      /\ x.req.op = "apply" /\ x.existing = Empty /\ seen'[h].alone /\ ToWrite(x) =>
           ~deps'[n][t].exists
  BY <1>0, <1>1, <1>2, <1>3 DEF Remembered, DepOf, NsOf, TentOf
<1> QED BY <1>2, <1>4 DEF Remembered, DepOf, NsOf, TentOf, Checked, ToWrite

\* A handler's own steps keep what it remembers true.
LEMMA RememberedMoves ==
  ASSUME HistoryInv, Next, NEW h \in Callers, CallStep(h) \/ CallFail(h),
         call'[h].pc # "idle"
  PROVE  Remembered(h)'
<1>0. TentaclesInv /\ Witness /\ CallOK(call[h]) /\ call \in [Callers -> Calls]
  BY DEF HistoryInv, Next, TentaclesInv, TentaclesTypeOK
<1>1. PICK x, y : x = call[h] /\ y = call'[h]
  OBVIOUS
<1>2. /\ call' = [call EXCEPT ![h] = y] /\ CallOK(y)
      /\ x.pc # "idle" /\ y.req = x.req /\ y.pc \notin {"idle", "annotations", "lookup"}
  <2>1. PICK z : /\ call' = [call EXCEPT ![h] = z] /\ CallOK(z)
                 /\ call[h].pc # "idle" /\ Continues(call[h], z)
    BY <1>0, CallShape
  <2>2. z = y /\ NoCall.pc = "idle"
    BY <1>0, <1>1, <2>1 DEF NoCall
  <2> QED BY <1>1, <2>1, <2>2 DEF Continues
<1>3. Recorded(h) /\ Remembered(h)
  BY <1>1, <1>2 DEF HistoryInv, Busy
<1>4. /\ seen[h].active => seen'[h].active
      /\ seen[h].owners \subseteq seen'[h].owners
      /\ seen[h].modes \subseteq seen'[h].modes
      /\ seen'[h].alone => seen[h].alone
  BY <1>0, HistoryGrows
<1>5. PICK n \in Namespaces, t \in Tentacles : n = x.req.name /\ t = x.req.tentacle
  BY <1>0, <1>1, <1>2, CallRequestType DEF CallOK
<1>6. NsOf(h) = n /\ TentOf(h) = t /\ DepOf(h) = deps[n][t]
  BY <1>1, <1>5 DEF NsOf, TentOf, DepOf
<1>7. ~deps[n][t].exists /\ deps'[n][t].exists => ~Checked(y) /\ ~ToWrite(y)
  <2> SUFFICES ASSUME ~deps[n][t].exists, deps'[n][t].exists
               PROVE  ~Checked(y) /\ ~ToWrite(y)
    OBVIOUS
  <2>1. PICK g \in Callers :
          /\ call[g].pc = "write" /\ call[g].item = t
          /\ NsOf(g) = n
          /\ call' = [call EXCEPT ![g].pc = "manifests"]
    BY <1>0, Appears
  <2>2. g = h
    BY <1>0, <1>2, <2>1 DEF Calls
  <2>3. y.pc = "manifests" /\ y.todo = x.todo /\ y.req.tentacle = t
    BY <1>0, <1>1, <1>2, <1>5, <2>1, <2>2 DEF Calls
  <2>4. t \notin x.todo
    BY <1>0, <1>1, <2>1, <2>2 DEF CallOK
  <2> QED BY <2>3, <2>4 DEF Checked, ToWrite
<1>8. /\ deps[n][t].exists => Annotations(n, t).owner \in seen[h].owners
                              /\ Annotations(n, t).mode \in seen[h].modes
      /\ Annotations(n, t) # Empty
      /\ ~IsFrozen(ns[n].ann) => seen[h].active
  <2>1. Annotations(n, t) \in DeploymentAnnotations
    BY <1>0 DEF TentaclesInv, TentaclesTypeOK, ClusterTypeOK, DepObjects, Annotations,
                DeploymentAnnotations
  <2>2. Annotations(n, t) # Empty
    BY <2>1, ModesAssumption
  <2> QED BY <1>3, <1>6, <2>2 DEF Recorded, Annotations
<1> DEFINE R == /\ y.req.op = "apply" /\ y.pc # "annotations" => seen'[h].active
                /\ Checked(y) /\ seen'[h].alone => seen'[h].active \/ ~deps'[n][t].exists
                /\ y.req.op = "apply" /\ y.existing # Empty =>
                     /\ y.existing.owner \in seen'[h].owners
                     /\ y.existing.mode \in seen'[h].modes
                /\ y.req.op = "apply" /\ y.existing = Empty /\ seen'[h].alone /\ ToWrite(y)
                     => ~deps'[n][t].exists
<1>9. /\ x.req.op = "apply" /\ x.pc # "annotations" => seen[h].active
      /\ Checked(x) /\ seen[h].alone => seen[h].active \/ ~deps[n][t].exists
      /\ x.req.op = "apply" /\ x.existing # Empty =>
           x.existing.owner \in seen[h].owners /\ x.existing.mode \in seen[h].modes
      /\ x.req.op = "apply" /\ x.existing = Empty /\ seen[h].alone /\ ToWrite(x) =>
           ~deps[n][t].exists
  BY <1>1, <1>3, <1>6 DEF Remembered
<1>10. \/ /\ x.pc = "annotations" /\ y.pc = "deployment"
          /\ y.existing = x.existing /\ ~IsFrozen(ns[n].ann)
       \/ /\ x.pc = "deployment" /\ y.pc = "namespace"
          /\ y.existing = x.existing /\ ~deps[n][t].exists
       \/ /\ x.pc = "deployment" /\ y.pc = "managed"
          /\ y.existing = Annotations(n, t) /\ deps[n][t].exists
       \/ x.pc = "lookup" /\ y.pc = "managed" /\ ~deps[n][t].exists
       \/ x.pc = "lookup" /\ y.pc = "access"
       \/ /\ x.pc = "access" /\ y.pc = "managed"
          /\ x.req.op = "remove" \/ ~IsFrozen(ns[n].ann)
       \/ /\ x.pc \notin {"annotations", "deployment", "lookup", "access"}
          /\ y.existing = x.existing
          /\ ToWrite(y) => ToWrite(x)
          /\ Checked(y) => Checked(x)
  BY <1>0, <1>1, <1>6, CallMoves
<1>11. R
  <2>1. CASE x.pc = "annotations"
    BY <1>0, <1>1, <1>2, <1>4, <1>8, <1>9, <1>10, <2>1 DEF CallOK, Checked, ToWrite
  <2>2. CASE x.pc = "deployment"
    BY <1>0, <1>1, <1>2, <1>4, <1>7, <1>8, <1>9, <1>10, <2>2 DEF CallOK, Checked, ToWrite
  <2>3. CASE x.pc \in {"lookup", "access"}
    BY <1>0, <1>1, <1>2, <1>4, <1>7, <1>8, <1>9, <1>10, <2>3 DEF CallOK, Checked, ToWrite
  <2>4. CASE x.pc \notin {"annotations", "deployment", "lookup", "access"}
    BY <1>2, <1>4, <1>7, <1>9, <1>10, <2>4
  <2> QED BY <2>1, <2>2, <2>3, <2>4
<1> QED BY <1>1, <1>2, <1>5, <1>11
        DEF Remembered, DepOf, NsOf, TentOf, Checked, ToWrite

\* At the start no call is in flight.
LEMMA HistoryInit == Init => HistoryInv
<1>1. Init => \A h \in Callers : ~Busy(h)
  BY DEF Init, Busy, NoCall
<1> QED BY <1>1, TentaclesInit DEF HistoryInv

\* A step changes at most one call: none, one that starts, or one that goes on.
LEMMA OneCall ==
  ASSUME TentaclesInv, Next
  PROVE  \/ UNCHANGED call
         \/ \E h \in Callers : \E r \in AllRequests : \E y :
              /\ Start(h, r) /\ ~Busy(h)
              /\ call' = [call EXCEPT ![h] = y]
              /\ y.req = r /\ y.existing = Empty
              /\ y.pc = IF r.op = "apply" THEN "annotations" ELSE "lookup"
         \/ \E h \in Callers : \E y :
              /\ CallStep(h) \/ CallFail(h)
              /\ Busy(h)
              /\ call' = [call EXCEPT ![h] = y]
<1>1. ASSUME NEW h \in Callers, NEW r \in AllRequests, Start(h, r)
      PROVE  \E y : /\ ~Busy(h)
                    /\ call' = [call EXCEPT ![h] = y]
                    /\ y.req = r /\ y.existing = Empty
                    /\ y.pc = IF r.op = "apply" THEN "annotations" ELSE "lookup"
  BY <1>1, StartShape DEF Busy
<1>2. ASSUME NEW h \in Callers, CallStep(h) \/ CallFail(h)
      PROVE  \E y : Busy(h) /\ call' = [call EXCEPT ![h] = y]
  BY <1>2, CallShape DEF Busy
<1>3. CASE SyncNext /\ UNCHANGED <<tentacleVars, good>>
  BY <1>3 DEF tentacleVars
<1> QED BY <1>1, <1>2, <1>3 DEF Next, AllRequests

\* Every step keeps the histories right.
LEMMA HistoryNext == HistoryInv /\ [Next]_vars => HistoryInv'
<1> SUFFICES ASSUME HistoryInv, [Next]_vars PROVE HistoryInv'
  OBVIOUS
<1>0. TentaclesInv /\ TentaclesInv' /\ call \in [Callers -> Calls]
  BY TentaclesTypeNext DEF HistoryInv, TentaclesInv, TentaclesTypeOK
<1>1. CASE UNCHANGED vars
  <2>1. UNCHANGED <<ns, deps, depMode, call, seen>>
    BY <1>1 DEF vars, clusterVars, tentacleVars, objectVars, historyVars
  <2>2. ASSUME NEW h \in Callers, Busy(h)' PROVE Recorded(h)' /\ Remembered(h)'
    <3>1. Recorded(h) /\ Remembered(h)
      BY <2>1, <2>2 DEF HistoryInv, Busy
    <3> QED BY <2>1, <3>1 DEF Recorded, Remembered, NsOf, TentOf, DepOf, Meets,
                              Checked, ToWrite
  <2> QED BY <1>0, <2>2 DEF HistoryInv
<1>2. ASSUME Next, NEW h \in Callers, call'[h].pc # "idle"
      PROVE  Recorded(h)' /\ Remembered(h)'
  <2>1. Witness /\ Recorded(h)'
    BY <1>0, <1>2, HistoryGrows DEF Next
  <2>2. CASE call'[h] = call[h]
    BY <1>2, <2>1, <2>2, RememberedStays DEF Busy
  <2>3. CASE call'[h] # call[h]
    <3>1. CASE \E r \in AllRequests : \E y :
                 /\ call' = [call EXCEPT ![h] = y]
                 /\ y.req = r /\ y.existing = Empty
                 /\ y.pc = IF r.op = "apply" THEN "annotations" ELSE "lookup"
      <4>0. PICK r \in AllRequests :
              \E y : /\ call' = [call EXCEPT ![h] = y]
                     /\ y.req = r /\ y.existing = Empty
                     /\ y.pc = IF r.op = "apply" THEN "annotations" ELSE "lookup"
        BY <3>1
      <4>1. PICK y :
              /\ call' = [call EXCEPT ![h] = y]
              /\ y.req = r /\ y.existing = Empty
              /\ y.pc = IF r.op = "apply" THEN "annotations" ELSE "lookup"
        BY <4>0
      <4>2. call'[h] = y /\ y.pc \in {"annotations", "lookup"}
            /\ (y.req.op = "apply" => y.pc = "annotations")
        BY <1>0, <4>1
      <4>3. ~Checked(y) /\ ~ToWrite(y)
        BY <4>2 DEF Checked, ToWrite
      <4> QED BY <2>1, <4>1, <4>2, <4>3 DEF Remembered, Checked, ToWrite
    <3>2. CASE CallStep(h) \/ CallFail(h)
      BY <1>2, <2>1, <3>2, RememberedMoves
    <3>3. ASSUME NEW g \in Callers, NEW y, call' = [call EXCEPT ![g] = y] PROVE g = h
      BY <1>0, <2>3, <3>3
    <3> QED BY <1>0, <1>2, <2>3, <3>1, <3>2, <3>3, OneCall
  <2> QED BY <2>2, <2>3
<1> QED BY <1>0, <1>1, <1>2 DEF HistoryInv, Busy

\* Whatever other calls do meanwhile, a wf_apply, wf_restart or wf_run call has an
\* effect only if the enclave was active at some time during the call: the
\* status that the handler read API calls ago was the enclave's.
THEOREM FrozenEnclavesAlwaysRest == Spec => FrozenEnclavesRest
<1>1. ASSUME HistoryInv, [Next]_vars, NEW h \in Callers, Effect(h)
      PROVE  \/ call[h].req.op = "remove"
             \/ seen[h].active
             \/ call[h].req.op \in {"restart", "run"} /\ ~seen[h].alone
  <2> DEFINE x == call[h]
  <2>0. /\ TentaclesInv /\ call \in [Callers -> Calls] /\ CallOK(x)
        /\ seen[h].active \in BOOLEAN /\ seen[h].alone \in BOOLEAN
    BY <1>1 DEF HistoryInv, TentaclesInv, TentaclesTypeOK
  <2>1. call'[h] # call[h] /\ Next
    BY <1>1 DEF Effect, vars, tentacleVars
  <2>2. ASSUME NEW r \in AllRequests, Start(h, r) PROVE FALSE
    BY <1>1, <2>2 DEF Effect, Start, clusterVars, Busy
  <2>3. Busy(h) /\ (CallStep(h) \/ CallFail(h))
    <3>1. ASSUME NEW g \in Callers, NEW y, call' = [call EXCEPT ![g] = y] PROVE g = h
      BY <2>0, <2>1, <3>1
    <3> QED BY <2>0, <2>1, <2>2, <3>1, OneCall
  <2>4. Remembered(h) /\ x.req \in AllRequests
    BY <1>1, <2>0, <2>3 DEF HistoryInv, Busy, CallOK
  <2>5. x.req.op \in {"apply", "remove", "restart", "run"}
    BY <2>4, CallRequestType
  <2>6. CASE x.req.op = "apply"
    <3>1. x.pc # "annotations"
      <4>1. ASSUME x.pc = "annotations"
            PROVE  UNCHANGED <<clusterVars, objectVars>>
        BY <2>3, <4>1, CallEffects
             DEF WriteObject, Deletes, DeleteObject, RestartPatch
      <4> QED BY <1>1, <4>1 DEF Effect, clusterVars
    <3> QED BY <2>4, <2>6, <3>1 DEF Remembered
  <2>7. CASE x.req.op \in {"restart", "run"}
    <3>1. Checked(x) /\ DepOf(h).exists
      <4>1. CASE x.pc = "run" /\ DepOf(h).exists
        BY <2>7, <4>1 DEF Checked
      <4>2. CASE ~(x.pc = "run" /\ DepOf(h).exists)
        <5>1. <<deps, objectVars>>' # <<deps, objectVars>>
          BY <1>1, <4>2 DEF Effect
        <5>2. ~WriteObject(h) /\ ~Deletes(h)
          BY <2>0, <2>7 DEF CallOK, WriteObject, Deletes, DeleteObject
        <5>3. RestartPatch(h)
          BY <2>3, <5>1, <5>2, CallEffects DEF clusterVars
        <5> QED BY <2>7, <5>1, <5>3 DEF RestartPatch, Checked
      <4> QED BY <4>1, <4>2
    <3> QED BY <2>0, <2>4, <2>7, <3>1 DEF Remembered
  <2> QED BY <2>5, <2>6, <2>7
<1>2. HistoryInv /\ [Next]_vars =>
        [\A h \in Callers :
           Effect(h) =>
             \/ call[h].req.op = "remove"
             \/ seen[h].active
             \/ call[h].req.op \in {"restart", "run"} /\ ~seen[h].alone]_vars
  BY <1>1
<1> QED BY <1>2, HistoryInit, HistoryNext, PTL DEF Spec, FrozenEnclavesRest

\* Whatever transfers, removals and deployments go on meanwhile, an update by
\* wf_apply leaves a tentacle that had an owner all through the call to one of them,
\* and gives it a mode it did not have then only if AnnotateDeployer may: the caller
\* was the owner, an operator, or there was no owner or no mode.
THEOREM OwnershipAlwaysKept == Spec => UpdatesKeepOwnership
<1>1. ASSUME HistoryInv, [Next]_vars, NEW h \in Callers, Overwrites(h),
             call[h].existing # Empty \/ seen[h].alone
      PROVE  /\ \/ deps'[NsOf(h)][TentOf(h)].owner \in seen[h].owners
                \/ Empty \in seen[h].owners
             /\ depMode'[NsOf(h)][TentOf(h)] \notin seen[h].modes =>
                  \/ By(h).provider \in {"bearer-token", "none"}
                  \/ {Empty, By(h).email} \cap seen[h].owners # {}
                  \/ Empty \in seen[h].modes
  <2> DEFINE x == call[h]
             n == NsOf(h)
             t == TentOf(h)
             a == AnnotateDeployer(By(h), ResolvedMode(x.req, x.info), x.existing,
                                   x.req.own)
  <2>0. /\ TentaclesInv /\ call \in [Callers -> Calls] /\ CallOK(x)
        /\ seen[h].alone \in BOOLEAN
        /\ deps \in [Namespaces -> [Tentacles -> DepObjects]]
        /\ depMode \in DepModes
    BY <1>1 DEF HistoryInv, TentaclesInv, TentaclesTypeOK, ClusterTypeOK, DepModes, ModeTexts
  <2>1. /\ x.pc = "write" /\ x.item = t /\ DepOf(h).exists
        /\ call'[h].pc = "manifests" /\ call'[h] # call[h]
    BY <1>1 DEF Overwrites
  <2>2. Next
    BY <1>1, <2>1 DEF vars, tentacleVars
  <2>3. CallStep(h) \/ CallFail(h)
    <3>1. ASSUME NEW g \in Callers, NEW y, call' = [call EXCEPT ![g] = y] PROVE g = h
      BY <2>0, <2>1, <3>1
    <3> QED BY <2>0, <2>1, <2>2, <3>1, OneCall DEF Busy
  <2>4. Remembered(h) /\ x.req.op = "apply" /\ n \in Namespaces /\ t \in Tentacles
    BY <1>1, <2>0, <2>1, CallRequestType DEF HistoryInv, Busy, CallOK, NsOf, TentOf
  <2>5. x.existing # Empty
    BY <1>1, <2>1, <2>4 DEF Remembered, ToWrite, TentOf
  <2>6. x.existing.owner \in seen[h].owners /\ x.existing.mode \in seen[h].modes
    BY <2>4, <2>5 DEF Remembered
  <2>7. ~Return(h)
    BY <2>0, <2>1 DEF Return, NoCall
  <2>8. WriteObject(h)
    <3>1. ~CallFail(h)
      BY <2>1, <2>7 DEF CallFail
    <3> QED BY <2>1, <2>3, <3>1 DEF CallStep, ApplyAnnotations, ApplyDeployment,
          ApplyNamespace, Lookup, Access, Managed, ReadObject, Written, ListObjects,
          DeleteObject, Done, RestartGet, RestartPatch, RunPost
  <2>9. WriteDeployment(h, t)
    <3>1. t \notin Kinds
      BY <2>4, TentaclesAssumption
    <3> QED BY <2>1, <2>7, <2>8, <3>1 DEF WriteObject
  <2>10. deps'[n][t].owner = a.owner /\ depMode'[n][t] = a.mode
    BY <2>0, <2>4, <2>9 DEF WriteDeployment, DepModes
  <2>11. /\ a.owner = x.existing.owner \/ x.existing.owner = Empty
         /\ \/ a.mode = x.existing.mode \/ x.existing.mode = Empty
            \/ By(h).provider \in {"bearer-token", "none"}
            \/ x.existing.owner \in {Empty, By(h).email}
    BY <2>5 DEF AnnotateDeployer, Carried
  <2> HIDE DEF a
  <2> QED BY <2>6, <2>10, <2>11
<1>2. HistoryInv /\ [Next]_vars =>
        [\A h \in Callers :
           (Overwrites(h) /\ (call[h].existing # Empty \/ seen[h].alone)) =>
             /\ \/ deps'[NsOf(h)][TentOf(h)].owner \in seen[h].owners
                \/ Empty \in seen[h].owners
             /\ depMode'[NsOf(h)][TentOf(h)] \notin seen[h].modes =>
                  \/ By(h).provider \in {"bearer-token", "none"}
                  \/ {Empty, By(h).email} \cap seen[h].owners # {}
                  \/ Empty \in seen[h].modes]_vars
  BY <1>1
<1> QED BY <1>2, HistoryInit, HistoryNext, PTL DEF Spec, UpdatesKeepOwnership

---------------------------------------------------------------------------
(* What a release holds *)

\* wf_apply or wf_remove is past its checks.
Writing(x) == x.pc \in {"manifests", "write", "delete"}

\* The call x has dealt with the object o and will not come back to it: it has
\* written it, or looked for it without an error to delete it.
Settled(x, o) ==
  \/ /\ x.pc \in {"manifests", "write"}
     /\ o \in x.req.manifests \ x.todo
     /\ ~(x.pc = "write" /\ o = x.item)
  \/ /\ x.pc = "delete"
     /\ \/ o \in Named(x.req)
        \/ x.whole /\ o \notin x.todo \cup x.listed

\* What a call has dealt with stays so while it meets no other.
Doing(h) ==
  seen[h].alone /\ NsExists(NsOf(h)) =>
    \A o \in Objects :
      Settled(call[h], o) =>
        ReleaseOf(NsOf(h), TentOf(h))[o] = Asked(call[h].req)[o]

\* Something is known of the object o in the release t.
Claimed(n, t, o) == good[n][t] # Empty /\ (good[n][t].whole \/ good[n][t].asked[o] # Empty)

Kept(n, t) ==
  NsExists(n) =>
    \A o \in Objects :
      Claimed(n, t, o) => ReleaseOf(n, t)[o] = good[n][t].asked[o]

\* Nothing is known of a release that is being written, and an object that is about
\* to be deleted is in no release that should hold it.
Unclaimed(h) ==
  LET x == call[h] IN
  /\ Writing(x) => good[NsOf(h)][TentOf(h)] = Empty
  /\ NsExists(NsOf(h)) =>
       \A o \in x.listed, t \in Tentacles :
         good[NsOf(h)][t] # Empty => good[NsOf(h)][t].asked[o] = Empty

ReleaseInv ==
  /\ HistoryInv
  /\ \A h \in Callers : Busy(h) => Doing(h) /\ Unclaimed(h)
  /\ \A n \in Namespaces, t \in Tentacles : Kept(n, t)

\* Nothing in this system creates a namespace.
LEMMA NsStaysGone ==
  ASSUME TentaclesInv, Next, NEW n \in Namespaces, ns'[n].phase # "Absent"
  PROVE  NsExists(n)
<1>0. ns \in [Namespaces -> NsObjects]
  BY DEF TentaclesInv, TentaclesTypeOK, ClusterTypeOK
<1>1. ASSUME NEW h \in Callers, CallStep(h) \/ CallFail(h) PROVE UNCHANGED ns
  <2>1. CASE WriteObject(h)
    BY <2>1 DEF WriteObject, WriteDeployment, WriteOther, clusterVars
  <2> QED BY <1>1, <2>1, CallEffects
          DEF Deletes, DeleteObject, RestartPatch, clusterVars
<1>2. ASSUME NEW h \in Callers, NEW r, Start(h, r) PROVE UNCHANGED ns
  BY <1>2 DEF Start, clusterVars
<1>3. ASSUME NEW m \in Namespaces, Deprovision(m) PROVE NsExists(n)
  BY <1>0, <1>3 DEF Deprovision, DeletedNs, NsExists
<1>4. ASSUME NEW m \in Namespaces, Finalize(m) PROVE NsExists(n)
  BY <1>0, <1>4 DEF Finalize, FinalizeNamespace, NsExists
<1> QED BY <1>1, <1>2, <1>3, <1>4, SyncFrame DEF Next, NsExists

\* The parts of a call in flight.
LEMMA BusyCall ==
  ASSUME TentaclesInv, NEW h \in Callers, Busy(h)
  PROVE  /\ call \in [Callers -> Calls] /\ CallOK(call[h]) /\ call[h].req \in AllRequests
         /\ NsOf(h) \in Namespaces /\ TentOf(h) \in Tentacles
         /\ call[h].req.op = "apply" => call[h].req.manifests \subseteq Objects
<1>1. call \in [Callers -> Calls] /\ CallOK(call[h]) /\ call[h].pc # "idle"
  BY DEF TentaclesInv, TentaclesTypeOK, Busy
<1>2. call[h].req \in AllRequests
  BY <1>1 DEF CallOK
<1> QED BY <1>1, <1>2, CallRequestType DEF NsOf, TentOf

\* How a wf_apply call has just written the object o of the namespace n.
Wrote(g, n, o) ==
  /\ call[g].pc = "write" /\ call[g].item = o /\ NsOf(g) = n
  /\ call' = [call EXCEPT ![g].pc = "manifests"]
  /\ obj'[n][o] = [release |-> TentOf(g), content |-> call[g].req.content]
  /\ \A t \in Tentacles :
       t # TentOf(g) /\ obj[n][o].release = t => good'[n][t] = Empty

\* How a call has just deleted it.
Deleted(g, n, o) ==
  /\ call[g].pc = "delete" /\ o \in call[g].listed /\ NsOf(g) = n
  /\ call' = [call EXCEPT ![g].listed = @ \ {o}]
  /\ obj'[n][o] = NoObject

\* What becomes of an object in a step of a call.
LEMMA CallObject ==
  ASSUME TentaclesInv, NEW g \in Callers, CallStep(g) \/ CallFail(g),
         NEW n \in Namespaces, NEW o \in Objects
  PROVE  obj'[n][o] = obj[n][o] \/ Wrote(g, n, o) \/ Deleted(g, n, o)
<1>0. /\ obj \in Objs /\ call[g].pc # "idle"
      /\ good \in [Namespaces -> [Tentacles -> Goods \cup {Empty}]]
  BY CallShape DEF TentaclesInv, TentaclesTypeOK, Objs, ObjRecords
<1>1. /\ NsOf(g) \in Namespaces /\ TentOf(g) \in Tentacles
      /\ call[g].pc = "write" => call[g].item \in Objects
  BY <1>0, BusyCall DEF Busy, CallOK
<1>2. CASE WriteObject(g)
  <2>1. CASE UNCHANGED objectVars
    BY <2>1 DEF objectVars
  <2>2. CASE ~UNCHANGED objectVars
    <3>1. /\ call[g].pc = "write" /\ Label(g, call[g].item)
          /\ call' = [call EXCEPT ![g].pc = "manifests"]
      BY <1>2, <2>2 DEF WriteObject
    <3>2. obj' = [obj EXCEPT ![NsOf(g)][call[g].item] =
                    [release |-> TentOf(g), content |-> call[g].req.content]]
      BY <3>1 DEF Label
    <3>3. CASE NsOf(g) = n /\ call[g].item = o
      <4>1. obj'[n][o] = [release |-> TentOf(g), content |-> call[g].req.content]
        BY <1>0, <3>2, <3>3 DEF Objs
      <4>2. good' = [good EXCEPT ![n] = [t \in Tentacles |->
               IF t # TentOf(g) /\ obj[n][o].release = t THEN Empty ELSE good[n][t]]]
        BY <3>1, <3>3 DEF Label
      <4>3. \A t \in Tentacles :
              t # TentOf(g) /\ obj[n][o].release = t => good'[n][t] = Empty
        BY <1>0, <4>2
      <4> QED BY <3>1, <3>3, <4>1, <4>3 DEF Wrote
    <3>4. CASE ~(NsOf(g) = n /\ call[g].item = o)
      BY <1>0, <1>1, <3>1, <3>2, <3>4 DEF Objs
    <3> QED BY <3>3, <3>4
  <2> QED BY <2>1, <2>2
<1>3. ASSUME NEW p \in Objects, DeleteObject(g, p)
      PROVE  obj'[n][o] = obj[n][o] \/ Deleted(g, n, o)
  <2>1. /\ call[g].pc = "delete" /\ p \in call[g].listed
        /\ call' = [call EXCEPT ![g].listed = @ \ {p}]
        /\ obj' = [obj EXCEPT ![NsOf(g)][p] = NoObject]
    BY <1>3 DEF DeleteObject
  <2>2. CASE NsOf(g) = n /\ p = o
    BY <1>0, <2>1, <2>2 DEF Objs, Deleted
  <2>3. CASE ~(NsOf(g) = n /\ p = o)
    BY <1>0, <1>1, <2>1, <2>3 DEF Objs
  <2> QED BY <2>2, <2>3
<1>4. CASE RestartPatch(g) \/ UNCHANGED <<clusterVars, objectVars>>
  BY <1>4 DEF RestartPatch, objectVars
<1> QED BY <1>2, <1>3, <1>4, CallEffects DEF Deletes

\* What becomes of it in any step that leaves the namespace.
LEMMA ObjectMoves ==
  ASSUME TentaclesInv, Next, NEW n \in Namespaces, NEW o \in Objects, NsExists(n)'
  PROVE  \/ obj'[n][o] = obj[n][o]
         \/ \E g \in Callers : Wrote(g, n, o) \/ Deleted(g, n, o)
<1>1. ASSUME NEW g \in Callers, CallStep(g) \/ CallFail(g)
      PROVE  obj'[n][o] = obj[n][o] \/ Wrote(g, n, o) \/ Deleted(g, n, o)
  BY <1>1, CallObject
<1>2. ASSUME NEW g \in Callers, NEW r, Start(g, r) PROVE UNCHANGED obj
  BY <1>2 DEF Start, objectVars
<1>3. CASE SyncNext /\ UNCHANGED <<tentacleVars, good>>
  BY <1>3 DEF tentacleVars, objectVars
<1>4. ASSUME NEW m \in Namespaces, Deprovision(m) PROVE UNCHANGED obj
  BY <1>4 DEF Deprovision, objectVars
<1>5. ASSUME NEW m \in Namespaces, Finalize(m) PROVE obj'[n][o] = obj[n][o]
  <2>1. /\ ns \in [Namespaces -> NsObjects] /\ obj \in Objs
    BY DEF TentaclesInv, TentaclesTypeOK, ClusterTypeOK, Objs, ObjRecords
  <2>2. ns' = [ns EXCEPT ![m] = [phase |-> "Absent", rv |-> ns[m].rv,
                                 uid |-> ns[m].uid, ann |-> Empty]]
    BY <1>5 DEF Finalize, FinalizeNamespace
  <2>3. m # n
    BY <2>1, <2>2 DEF NsExists
  <2> QED BY <1>5, <2>1, <2>3 DEF Finalize, Objs
<1> QED BY <1>1, <1>2, <1>3, <1>4, <1>5 DEF Next, AllRequests

\* What is known of a release stays, is forgotten, or is what a call has achieved
\* that met no other.
LEMMA GoodMoves ==
  ASSUME TentaclesInv, Next, NEW n \in Namespaces, NEW t \in Tentacles
  PROVE  \/ good'[n][t] = good[n][t]
         \/ good'[n][t] = Empty
         \/ \E h \in Callers :
              /\ Done(h) /\ NsOf(h) = n /\ TentOf(h) = t /\ seen[h].alone
              /\ good'[n][t] = [asked |-> Asked(call[h].req), whole |-> call[h].whole]
<1> DEFINE Achieved(h) ==
      /\ Done(h) /\ NsOf(h) = n /\ TentOf(h) = t /\ seen[h].alone
      /\ good'[n][t] = [asked |-> Asked(call[h].req), whole |-> call[h].whole]
<1>0. good \in [Namespaces -> [Tentacles -> Goods \cup {Empty}]]
  BY DEF TentaclesInv, TentaclesTypeOK
<1>1. ASSUME NEW h \in Callers, CallStep(h) \/ CallFail(h)
      PROVE  good'[n][t] = good[n][t] \/ good'[n][t] = Empty \/ Achieved(h)
  <2>1. NsOf(h) \in Namespaces /\ TentOf(h) \in Tentacles
    BY <1>1, CallShape, BusyCall DEF Busy
  <2>2. CASE good' = [good EXCEPT ![NsOf(h)][TentOf(h)] = Empty]
    BY <1>0, <2>1, <2>2
  <2>3. CASE Label(h, call[h].item)
    <3>1. good' = [good EXCEPT ![NsOf(h)] = [u \in Tentacles |->
             IF u # TentOf(h) /\ obj[NsOf(h)][call[h].item].release = u
             THEN Empty ELSE good[NsOf(h)][u]]]
      BY <2>3 DEF Label
    <3> QED BY <1>0, <2>1, <3>1
  <2>4. CASE Done(h) /\ Succeed(h)
    <3> DEFINE v == IF seen[h].alone
                    THEN [asked |-> Asked(call[h].req), whole |-> call[h].whole]
                    ELSE Empty
    <3>1. good' = [good EXCEPT ![NsOf(h)][TentOf(h)] = v]
      BY <2>4 DEF Succeed
    <3>2. CASE NsOf(h) = n /\ TentOf(h) = t
      <4>1. good'[n][t] = v
        BY <1>0, <3>1, <3>2
      <4> QED BY <2>4, <3>2, <4>1
    <3>3. CASE ~(NsOf(h) = n /\ TentOf(h) = t)
      <4> HIDE DEF v
      <4>1. good'[n][t] = good[n][t]
        BY <1>0, <2>1, <3>1, <3>3
      <4> QED BY <4>1
    <3> QED BY <3>2, <3>3
  <2> QED BY <1>1, <2>2, <2>3, <2>4, CallGood
<1>2. ASSUME NEW h \in Callers, NEW r, Start(h, r) PROVE UNCHANGED good
  BY <1>2 DEF Start
<1>3. ASSUME NEW m \in Namespaces, Deprovision(m) PROVE UNCHANGED good
  BY <1>3 DEF Deprovision
<1>4. ASSUME NEW m \in Namespaces, Finalize(m)
      PROVE  good'[n][t] = good[n][t] \/ good'[n][t] = Empty
  BY <1>0, <1>4 DEF Finalize
<1> HIDE DEF Achieved
<1>5. \/ good'[n][t] = good[n][t] \/ good'[n][t] = Empty
      \/ \E h \in Callers : Achieved(h)
  BY <1>1, <1>2, <1>3, <1>4 DEF Next, AllRequests
<1> QED BY <1>5 DEF Achieved

\* A call that is alone meets nobody who writes or deletes in its enclave.
LEMMA AloneMeets ==
  ASSUME HistoryInv, NEW h \in Callers, Busy(h), seen[h].alone,
         NEW g \in Callers \ {h}, Writing(call[g]), NsOf(g) = NsOf(h)
  PROVE  /\ TentOf(g) # TentOf(h)
         /\ Named(call[g].req) \cap Named(call[h].req) = {}
         /\ call[g].listed \cap Named(call[h].req) = {}
<1>1. Recorded(h) /\ CallOK(call[g]) /\ call[g].pc # "idle"
  BY DEF HistoryInv, TentaclesInv, Writing
<1>2. ~Meets(call[g], call[h].req)
  BY <1>1 DEF Recorded
<1>3. call[g].req.op \in {"apply", "remove"}
  BY <1>1 DEF CallOK, Writing
<1> QED BY <1>1, <1>2, <1>3 DEF Meets, NsOf, TentOf

\* What a handler's own step settles: nothing new, the object it wrote, or one that
\* it does not describe and that is not in its release.
LEMMA SettledMoves ==
  ASSUME TentaclesInv, NEW h \in Callers, CallStep(h) \/ CallFail(h),
         call'[h].pc # "idle", NEW o \in Objects, Settled(call'[h], o)
  PROVE  LET n == NsOf(h)
             t == TentOf(h) IN
         \/ Settled(call[h], o) /\ obj'[n][o] = obj[n][o]
         \/ /\ o \in Named(call[h].req)
            /\ obj'[n][o] = [release |-> t, content |-> call[h].req.content]
         \/ o \notin Named(call[h].req) /\ obj'[n][o].release # t
<1> DEFINE x == call[h]
           y == call'[h]
           n == NsOf(h)
           t == TentOf(h)
           Same == Settled(x, o) /\ obj'[n][o] = obj[n][o]
           New == /\ o \in Named(x.req)
                  /\ obj'[n][o] = [release |-> t, content |-> x.req.content]
           Not == o \notin Named(x.req) /\ obj'[n][o].release # t
<1> SUFFICES Same \/ New \/ Not
  OBVIOUS
<1>0. /\ call \in [Callers -> Calls] /\ CallOK(x) /\ x.pc # "idle" /\ NoCall.pc = "idle"
      /\ n \in Namespaces /\ t \in Tentacles /\ t # Empty /\ obj \in Objs
      /\ x.req.op = "apply" => x.req.manifests \subseteq Objects
  BY CallShape, BusyCall, TentaclesAssumption
     DEF Busy, NoCall, TentaclesInv, TentaclesTypeOK, Objs, ObjRecords
<1>1. ~Return(h) /\ ~Succeed(h)
  BY <1>0 DEF Return, Succeed
<1>2. y.pc \in {"manifests", "write", "delete"}
  BY DEF Settled
<1>3. ASSUME NEW loc, Goto(h, loc) PROVE y.pc = loc
  BY <1>0, <1>3 DEF Goto, Calls
<1>4. CASE Managed(h)
  <2>1. /\ x.pc = "managed" /\ y.req = x.req
        /\ y.todo = CASE x.req.op = "apply" -> x.req.manifests
                      [] x.req.op = "remove" -> Objects
                      [] OTHER -> {}
        /\ y.pc = CASE x.req.op = "apply" -> "manifests"
                    [] x.req.op = "remove" -> "delete"
                    [] OTHER -> x.req.op
    <3> DEFINE all == CASE x.req.op = "apply" -> x.req.manifests
                        [] x.req.op = "remove" -> Objects
                        [] OTHER -> {}
               loc == CASE x.req.op = "apply" -> "manifests"
                        [] x.req.op = "remove" -> "delete"
                        [] OTHER -> x.req.op
    <3>1. x.pc = "managed" /\ call' = [call EXCEPT ![h].todo = all, ![h].pc = loc]
      BY <1>1, <1>4 DEF Managed
    <3> HIDE DEF all, loc
    <3>2. y.req = x.req /\ y.todo = all /\ y.pc = loc
      BY <1>0, <3>1 DEF Calls
    <3> QED BY <3>1, <3>2 DEF all, loc
  <2>2. CASE x.req.op = "apply"
    BY <2>1, <2>2 DEF Settled
  <2>3. CASE x.req.op = "remove"
    BY <2>1, <2>3 DEF Settled, Named
  <2>4. CASE x.req.op \notin {"apply", "remove"}
    <3>1. x.req.op \in {"restart", "run"}
      BY <1>0, <2>4, CallRequestType DEF CallOK
    <3> QED BY <1>2, <2>1, <3>1
  <2> QED BY <2>2, <2>3, <2>4
<1>5. ASSUME NEW p \in Objects, ReadObject(h, p) PROVE Same
  <2>1. /\ x.pc = "manifests" /\ y.pc = "write" /\ y.req = x.req
        /\ y.todo = x.todo \ {p} /\ y.item = p /\ UNCHANGED obj
    BY <1>0, <1>5 DEF ReadObject, Calls, objectVars
  <2> QED BY <2>1 DEF Settled
<1>6. CASE WriteObject(h)
  <2>1. /\ x.pc = "write" /\ call' = [call EXCEPT ![h].pc = "manifests"]
        /\ obj' = [obj EXCEPT ![n][x.item] = [release |-> t, content |-> x.req.content]]
    BY <1>1, <1>6 DEF WriteObject, Label
  <2>2. /\ y.pc = "manifests" /\ y.req = x.req /\ y.todo = x.todo
        /\ x.item \in Objects /\ x.req.op = "apply"
    BY <1>0, <2>1 DEF Calls, CallOK
  <2>3. o \in x.req.manifests \ x.todo
    BY <2>2 DEF Settled
  <2>4. CASE o = x.item
    <3>1. obj'[n][o] = [release |-> t, content |-> x.req.content]
      BY <1>0, <2>1, <2>2, <2>4 DEF Objs
    <3> QED BY <2>2, <2>3, <3>1 DEF Named
  <2>5. CASE o # x.item
    <3>1. obj'[n][o] = obj[n][o]
      BY <1>0, <2>1, <2>5 DEF Objs
    <3> QED BY <2>1, <2>3, <2>5, <3>1 DEF Settled
  <2> QED BY <2>4, <2>5
<1>7. CASE Written(h)
  <2>1. /\ x.pc = "manifests" /\ x.todo = {} /\ y.pc = "delete" /\ y.req = x.req
        /\ y.todo = Objects \ x.req.manifests /\ UNCHANGED obj
    BY <1>0, <1>7 DEF Written, Calls, objectVars
  <2>2. x.req.op = "apply"
    BY <1>0, <2>1 DEF CallOK
  <2>3. o \in x.req.manifests
    BY <2>1, <2>2 DEF Settled, Named
  <2> QED BY <2>1, <2>3 DEF Settled
<1>8. ASSUME NEW kind \in Lists, ListObjects(h, kind) PROVE Same \/ Not
  <2>1. /\ x.pc = "delete" /\ y.pc = "delete" /\ y.req = x.req /\ y.whole = x.whole
        /\ y.todo = x.todo \ kind /\ x.listed = {} /\ UNCHANGED obj
        /\ y.listed = {p \in kind \cap x.todo : obj[n][p].release = t}
    BY <1>0, <1>8 DEF ListObjects, Calls, objectVars
  <2>2. CASE o \notin kind \cap x.todo
    BY <2>1, <2>2 DEF Settled
  <2>3. CASE o \in kind \cap x.todo
    <3>1. o \notin Named(x.req)
      BY <1>0, <2>1, <2>3 DEF CallOK, Named
    <3>2. o \notin y.listed
      BY <2>1, <3>1 DEF Settled
    <3> QED BY <2>1, <2>3, <3>1, <3>2
  <2> QED BY <2>2, <2>3
<1>9. ASSUME NEW p \in Objects, DeleteObject(h, p) PROVE Same \/ Not
  <2>1. /\ x.pc = "delete" /\ y.pc = "delete" /\ y.req = x.req /\ y.whole = x.whole
        /\ y.todo = x.todo /\ p \in x.listed /\ y.listed = x.listed \ {p}
        /\ obj' = [obj EXCEPT ![n][p] = NoObject]
    BY <1>0, <1>9 DEF DeleteObject, Calls
  <2>2. CASE o # p
    <3>1. obj'[n][o] = obj[n][o]
      BY <1>0, <2>1, <2>2 DEF Objs
    <3> QED BY <2>1, <2>2, <3>1 DEF Settled
  <2>3. CASE o = p
    <3>1. o \notin Named(x.req)
      BY <1>0, <2>1, <2>3 DEF CallOK, Named
    <3>2. obj'[n][o].release = Empty
      BY <1>0, <2>1, <2>3 DEF Objs, NoObject
    <3> QED BY <1>0, <3>1, <3>2
  <2> QED BY <2>2, <2>3
<1>10. CASE CallFail(h)
  <2>1. UNCHANGED obj
    BY <1>10 DEF CallFail, objectVars
  <2>2. ASSUME NEW kind,
               call' = [call EXCEPT ![h].todo = @ \ kind, ![h].whole = FALSE]
        PROVE  y.pc = x.pc /\ y.req = x.req /\ ~y.whole
    BY <1>0, <2>2 DEF Calls
  <2>3. ASSUME NEW p,
               call' = [call EXCEPT ![h].listed = @ \ {p}, ![h].whole = FALSE]
        PROVE  y.pc = x.pc /\ y.req = x.req /\ ~y.whole
    BY <1>0, <2>3 DEF Calls
  <2>4. x.pc = "delete" /\ y.pc = "delete" /\ y.req = x.req /\ ~y.whole
    BY <1>1, <1>10, <2>2, <2>3 DEF CallFail
  <2> QED BY <2>1, <2>4 DEF Settled
<1>11. ~ApplyAnnotations(h) /\ ~ApplyDeployment(h) /\ ~ApplyNamespace(h)
  <2>1. ~ApplyAnnotations(h)
    BY <1>0, <1>1, <1>2 DEF ApplyAnnotations, Calls
  <2>2. ASSUME ApplyDeployment(h) PROVE y.pc \in {"namespace", "managed"}
    BY <1>0, <1>1, <1>3, <2>2 DEF ApplyDeployment, Calls
  <2>3. ASSUME ApplyNamespace(h) PROVE y.pc = "managed"
    BY <1>1, <1>3, <2>3 DEF ApplyNamespace
  <2> QED BY <1>2, <2>1, <2>2, <2>3
<1>12. ~Lookup(h) /\ ~Access(h)
  <2>1. ASSUME Lookup(h) PROVE y.pc \in {"access", "managed"}
    BY <1>0, <1>3, <2>1 DEF Lookup, Calls
  <2>2. ASSUME Access(h) PROVE y.pc = "managed"
    BY <1>1, <1>3, <2>2 DEF Access
  <2> QED BY <1>2, <2>1, <2>2
<1>13. ~Done(h) /\ ~RestartGet(h) /\ ~RestartPatch(h) /\ ~RunPost(h)
  BY <1>1, <1>2, <1>3 DEF Done, RestartGet, RestartPatch, RunPost
<1> HIDE DEF Same, New, Not
<1> QED BY <1>4, <1>5, <1>6, <1>7, <1>8, <1>9, <1>10, <1>11, <1>12, <1>13 DEF CallStep

\* What a call has settled stays so.
LEMMA DoingNext ==
  ASSUME ReleaseInv, HistoryInv', Next, NEW h \in Callers, Busy(h)'
  PROVE  Doing(h)'
<1> SUFFICES ASSUME seen'[h].alone, NsExists(NsOf(h))', NEW o \in Objects,
                    Settled(call'[h], o)
             PROVE  ReleaseOf(NsOf(h), TentOf(h))'[o] = Asked(call'[h].req)[o]
  BY DEF Doing
<1>0. TentaclesInv /\ HistoryInv /\ Witness /\ call'[h].pc # "idle"
  BY DEF ReleaseInv, HistoryInv, Next, Busy
<1>1. Settled(call'[h], o) => call'[h].pc \notin {"annotations", "lookup"}
  BY DEF Settled
<1>2. /\ Busy(h) /\ call'[h].req = call[h].req
      /\ \/ call'[h] = call[h]
         \/ CallStep(h) \/ CallFail(h)
  <2>1. CASE call'[h] = call[h]
    BY <1>0, <2>1 DEF Busy
  <2>2. CASE call'[h] # call[h]
    <3>0. call \in [Callers -> Calls]
      BY <1>0 DEF TentaclesInv, TentaclesTypeOK
    <3>1. ASSUME NEW g \in Callers, NEW y, call' = [call EXCEPT ![g] = y]
          PROVE g = h /\ y = call'[h]
      BY <2>2, <3>0, <3>1
    <3>2. CallStep(h) \/ CallFail(h)
      <4>1. ASSUME NEW r, NEW y, y = call'[h],
                   y.pc = IF r.op = "apply" THEN "annotations" ELSE "lookup"
            PROVE  FALSE
        BY <1>1, <4>1
      <4> QED BY <1>0, <2>2, <3>1, <4>1, OneCall
    <3>3. PICK y : /\ call' = [call EXCEPT ![h] = y] /\ call[h].pc # "idle"
                   /\ Continues(call[h], y)
      BY <1>0, <3>2, CallShape
    <3>4. y = call'[h]
      BY <3>1, <3>3
    <3> QED BY <1>0, <3>2, <3>3, <3>4 DEF Continues, NoCall, Busy
  <2> QED BY <2>1, <2>2
<1>3. PICK n \in Namespaces, t \in Tentacles :
        /\ n = NsOf(h) /\ t = TentOf(h) /\ n = call'[h].req.name /\ t = call'[h].req.tentacle
  BY <1>0, <1>2, BusyCall DEF NsOf, TentOf
<1>4. NsExists(n) /\ NsExists(n)'
  <2>1. NsExists(n)'
    BY <1>3 DEF NsOf, NsExists
  <2> QED BY <1>0, <2>1, NsStaysGone DEF NsExists
<1>5. seen[h].alone /\ Recorded(h)'
  BY <1>0, HistoryGrows
<1>6. ASSUME Settled(call[h], o)
      PROVE  (IF obj[n][o].release = t THEN obj[n][o].content ELSE Empty) = Asked(call[h].req)[o]
  BY <1>2, <1>3, <1>4, <1>5, <1>6 DEF ReleaseInv, Doing, ReleaseOf
<1>7. Asked(call[h].req)[o] = IF o \in Named(call[h].req) THEN call[h].req.content ELSE Empty
  BY DEF Asked
<1>8. (IF obj'[n][o].release = t THEN obj'[n][o].content ELSE Empty) = Asked(call[h].req)[o]
  <2>1. CASE CallStep(h) \/ CallFail(h)
    <3>1. CASE Settled(call[h], o) /\ obj'[n][o] = obj[n][o]
      BY <1>6, <3>1
    <3>2. CASE /\ o \in Named(call[h].req)
               /\ obj'[n][o] = [release |-> t, content |-> call[h].req.content]
      BY <1>7, <3>2
    <3>3. CASE o \notin Named(call[h].req) /\ obj'[n][o].release # t
      BY <1>7, <3>3
    <3> QED BY <1>0, <1>3, <2>1, <3>1, <3>2, <3>3, SettledMoves
  <2>2. CASE call'[h] = call[h]
    <3>1. CASE obj'[n][o] = obj[n][o]
      BY <1>6, <2>2, <3>1
    <3>2. ASSUME NEW g \in Callers, Wrote(g, n, o) \/ Deleted(g, n, o)
          PROVE  o \notin Named(call[h].req) /\ obj'[n][o].release # t
      <4>0. /\ call \in [Callers -> Calls] /\ CallOK(call[g])
        BY <1>0 DEF TentaclesInv, TentaclesTypeOK
      <4>1. g # h
        <5>1. Wrote(g, n, o) => call'[g] # call[g]
          BY <4>0 DEF Wrote, Calls
        <5>2. Deleted(g, n, o) => call'[g] # call[g]
          BY <4>0 DEF Deleted, Calls
        <5> QED BY <2>2, <3>2, <5>1, <5>2
      <4>2. Writing(call[g]) /\ NsOf(g) = n
        BY <3>2 DEF Wrote, Deleted, Writing
      <4>3. /\ TentOf(g) # t
            /\ Named(call[g].req) \cap Named(call[h].req) = {}
            /\ call[g].listed \cap Named(call[h].req) = {}
        BY <1>0, <1>2, <1>3, <1>5, <4>1, <4>2, AloneMeets
      <4>4. CASE Wrote(g, n, o)
        <5>1. o \in Named(call[g].req)
          BY <4>0, <4>4 DEF Wrote, CallOK, Named
        <5> QED BY <4>3, <4>4, <5>1 DEF Wrote
      <4>5. CASE Deleted(g, n, o)
        <5>1. t # Empty
          BY TentaclesAssumption
        <5> QED BY <4>3, <4>5, <5>1 DEF Deleted, NoObject
      <4> QED BY <3>2, <4>4, <4>5
    <3>3. CASE o \notin Named(call[h].req) /\ obj'[n][o].release # t
      BY <1>7, <3>3
    <3> QED BY <1>0, <1>4, <3>1, <3>2, <3>3, ObjectMoves
  <2> QED BY <1>2, <2>1, <2>2
<1> QED BY <1>2, <1>3, <1>8 DEF ReleaseOf, NsOf, TentOf

\* What is known of a release that is, or is about to be, changed stays unknown.
LEMMA UnclaimedNext ==
  ASSUME ReleaseInv, HistoryInv', Next, NEW g \in Callers, Busy(g)'
  PROVE  Unclaimed(g)'
<1>0. /\ TentaclesInv /\ HistoryInv /\ call \in [Callers -> Calls]
      /\ good \in [Namespaces -> [Tentacles -> Goods \cup {Empty}]]
      /\ NoCall.pc = "idle"
  BY DEF ReleaseInv, HistoryInv, TentaclesInv, TentaclesTypeOK, NoCall
<1> DEFINE x == call[g]
           y == call'[g]
<1> SUFFICES ASSUME Writing(y) PROVE Unclaimed(g)'
  <2>1. CallOK(y)
    BY DEF HistoryInv, TentaclesInv
  <2> QED BY <2>1 DEF Unclaimed, Writing, CallOK
<1>1. y.pc \notin {"idle", "annotations", "lookup"}
  BY DEF Writing
<1>2. /\ Busy(g) /\ y.req = x.req
      /\ \/ y = x
         \/ CallStep(g) \/ CallFail(g)
  <2>1. CASE y = x
    BY <1>1, <2>1 DEF Busy
  <2>2. CASE y # x
    <3>1. ASSUME NEW h \in Callers, NEW z, call' = [call EXCEPT ![h] = z]
          PROVE h = g /\ z = y
      BY <1>0, <2>2, <3>1
    <3>2. CallStep(g) \/ CallFail(g)
      <4>1. ASSUME NEW r, NEW z, z = y,
                   z.pc = IF r.op = "apply" THEN "annotations" ELSE "lookup"
            PROVE  FALSE
        BY <1>1, <4>1
      <4> QED BY <1>0, <2>2, <3>1, <4>1, OneCall
    <3>3. PICK z : /\ call' = [call EXCEPT ![g] = z] /\ x.pc # "idle"
                   /\ Continues(x, z)
      BY <1>0, <3>2, CallShape
    <3>4. z = y
      BY <3>1, <3>3
    <3> QED BY <1>0, <1>1, <3>2, <3>3, <3>4 DEF Continues, Busy
  <2> QED BY <2>1, <2>2
<1>3. PICK n \in Namespaces, t \in Tentacles :
        /\ n = NsOf(g) /\ t = TentOf(g) /\ n = y.req.name /\ t = y.req.tentacle
  BY <1>0, <1>2, BusyCall DEF NsOf, TentOf
<1>4. Unclaimed(g)
  BY <1>2 DEF ReleaseInv
<1>5. \/ Writing(x)
      \/ Managed(g) /\ good' = [good EXCEPT ![n][t] = Empty] /\ y.listed = {}
  <2>1. CASE y = x
    BY <2>1
  <2>2. CASE CallStep(g) \/ CallFail(g)
    <3>1. ~Return(g) /\ ~Succeed(g)
      BY <1>0, <1>1 DEF Return, Succeed
    <3>2. ASSUME NEW loc, Goto(g, loc) PROVE y.pc = loc
      BY <1>0, <3>2 DEF Goto, Calls
    <3>3. CASE Managed(g)
      <4>1. /\ good' = IF x.req.op \in {"apply", "remove"}
                       THEN [good EXCEPT ![n][t] = Empty] ELSE good
            /\ y.listed = x.listed /\ x.pc = "managed"
            /\ y.pc = CASE x.req.op = "apply" -> "manifests"
                        [] x.req.op = "remove" -> "delete"
                        [] OTHER -> x.req.op
        BY <1>0, <1>3, <3>1, <3>3 DEF Managed, Calls
      <4>2. x.req.op \in {"apply", "remove", "restart", "run"} /\ CallOK(x)
        BY <1>0, <1>2, BusyCall, CallRequestType
      <4> QED BY <3>3, <4>1, <4>2 DEF Writing, CallOK
    <3>4. ~ApplyAnnotations(g) /\ ~Lookup(g) /\ ~Access(g) /\ ~RestartGet(g)
      <4>1. ~ApplyAnnotations(g)
        BY <1>0, <3>1 DEF ApplyAnnotations, Calls, Writing
      <4>2. ~Lookup(g)
        <5>1. Lookup(g) => y.pc \in {"access", "managed"}
          BY <1>0, <3>2 DEF Lookup, Calls
        <5> QED BY <5>1 DEF Writing
      <4> QED BY <3>1, <3>2, <4>1, <4>2 DEF Access, RestartGet, Writing
    <3>5. ~ApplyDeployment(g) /\ ~ApplyNamespace(g)
      <4>1. ApplyDeployment(g) => y.pc \in {"namespace", "managed"}
        BY <1>0, <3>1, <3>2 DEF ApplyDeployment, Calls
      <4> QED BY <3>1, <3>2, <4>1 DEF ApplyNamespace, Writing
    <3>6. ~RestartPatch(g) /\ ~RunPost(g)
      BY <3>1 DEF RestartPatch, RunPost
    <3>7. CASE \/ WriteObject(g) \/ Written(g) \/ Done(g)
               \/ \E o : ReadObject(g, o) \/ ListObjects(g, o) \/ DeleteObject(g, o)
      BY <3>7 DEF WriteObject, Written, DeleteObject, Done, ReadObject, ListObjects, Writing
    <3>8. CASE CallFail(g)
      BY <3>1, <3>8 DEF CallFail, Writing
    <3> QED BY <2>2, <3>3, <3>4, <3>5, <3>6, <3>7, <3>8 DEF CallStep
  <2> QED BY <1>2, <2>1, <2>2
<1>6. good'[n][t] = Empty
  <2>1. CASE Managed(g) /\ good' = [good EXCEPT ![n][t] = Empty]
    BY <1>0, <2>1
  <2>2. CASE Writing(x)
    <3>1. good[n][t] = Empty
      BY <1>3, <1>4, <2>2 DEF Unclaimed
    <3>2. ASSUME NEW h \in Callers, Done(h), NsOf(h) = n, TentOf(h) = t, seen[h].alone
          PROVE  FALSE
      <4>1. h # g
        BY <1>0, <1>1, <3>2 DEF Done, Succeed
      <4>2. Busy(h)
        BY <3>2 DEF Done, Busy
      <4> QED BY <1>0, <1>3, <2>2, <3>2, <4>1, <4>2, AloneMeets
    <3> QED BY <1>0, <3>1, <3>2, GoodMoves
  <2> QED BY <1>5, <2>1, <2>2
<1>7. ASSUME NsExists(n)', NEW o \in y.listed, NEW u \in Tentacles, good'[n][u] # Empty
      PROVE  good'[n][u].asked[o] = Empty
  <2>0. NsExists(n) /\ Writing(x) /\ o \in Objects
    <3>1. y \in Calls
      BY DEF HistoryInv, TentaclesInv, TentaclesTypeOK
    <3> QED BY <1>0, <1>5, <1>7, <3>1, NsStaysGone DEF NsExists, Calls
  <2>1. \/ o \in x.listed
        \/ \E kind \in Lists : ListObjects(g, kind) /\ obj[n][o].release = t
    <3>1. CASE y = x
      BY <1>7, <3>1
    <3>2. ASSUME NEW kind \in Lists, ListObjects(g, kind) PROVE obj[n][o].release = t
      <4>1. y.listed = {p \in kind \cap x.todo : obj[n][p].release = t}
        BY <1>0, <1>3, <3>2 DEF ListObjects, Calls
      <4> QED BY <1>7, <4>1
    <3>3. CASE ~(\E kind \in Lists : ListObjects(g, kind)) /\ (CallStep(g) \/ CallFail(g))
      <4>1. ~Return(g) /\ ~Succeed(g)
        BY <1>0, <1>1 DEF Return, Succeed
      <4>2. CASE WriteObject(g) \/ Written(g)
        BY <1>0, <1>7, <4>1, <4>2 DEF WriteObject, Written, Calls
      <4>3. ASSUME NEW p \in Objects, ReadObject(g, p) \/ DeleteObject(g, p)
            PROVE  y.listed \subseteq x.listed
        BY <1>0, <4>3 DEF DeleteObject, ReadObject, Calls
      <4>4. CASE CallFail(g)
        <5>1. ASSUME NEW kind,
                     call' = [call EXCEPT ![g].todo = @ \ kind, ![g].whole = FALSE]
              PROVE  y.listed = x.listed
          BY <1>0, <5>1 DEF Calls
        <5>2. ASSUME NEW p,
                     call' = [call EXCEPT ![g].listed = @ \ {p}, ![g].whole = FALSE]
              PROVE  y.listed \subseteq x.listed
          BY <1>0, <5>2 DEF Calls
        <5>3. y.listed \subseteq x.listed
          BY <4>1, <4>4, <5>1, <5>2 DEF CallFail
        <5> QED BY <1>7, <5>3
      <4>5. ~Done(g)
        BY <4>1 DEF Done
      <4> QED BY <1>7, <2>0, <3>3, <4>2, <4>3, <4>4, <4>5 DEF CallStep, ApplyAnnotations,
            ApplyDeployment, ApplyNamespace, Lookup, Access, Managed, RestartGet,
            RestartPatch, RunPost, Writing
    <3> QED BY <1>2, <3>1, <3>2, <3>3
  <2>2. CASE o \in x.listed
    <3>1. good[n][u] # Empty => good[n][u].asked[o] = Empty
      BY <1>3, <1>4, <2>0, <2>2 DEF Unclaimed
    <3>2. ASSUME NEW h \in Callers, Done(h), NsOf(h) = n, seen[h].alone,
                 good'[n][u] = [asked |-> Asked(call[h].req), whole |-> call[h].whole]
          PROVE  good'[n][u].asked[o] = Empty
      <4>1. h # g /\ Busy(h)
        BY <2>2, <3>2 DEF Done, Busy
      <4>2. o \notin Named(call[h].req)
        BY <1>0, <1>3, <2>0, <2>2, <3>2, <4>1, AloneMeets
      <4>3. Asked(call[h].req)[o] = Empty
        BY <2>0, <4>2 DEF Asked
      <4> QED BY <3>2, <4>3
    <3> QED BY <1>0, <1>7, <3>1, <3>2, GoodMoves
  <2>3. ASSUME NEW kind \in Lists, ListObjects(g, kind), obj[n][o].release = t
        PROVE  good'[n][u].asked[o] = Empty
    <3>1. UNCHANGED good
      BY <2>3 DEF ListObjects
    <3>2. u # t
      BY <1>6, <1>7
    <3>3. ReleaseOf(n, u)[o] = Empty
      BY <2>0, <2>3, <3>2 DEF ReleaseOf
    <3>4. Kept(n, u)
      BY DEF ReleaseInv
    <3> QED BY <1>7, <2>0, <3>1, <3>3, <3>4 DEF Kept, Claimed
  <2> QED BY <2>1, <2>2, <2>3
<1> QED BY <1>3, <1>6, <1>7 DEF Unclaimed, NsOf, TentOf, NsExists

\* A release is what it is known to be.
LEMMA KeptNext ==
  ASSUME ReleaseInv, HistoryInv', Next, NEW n \in Namespaces, NEW t \in Tentacles
  PROVE  Kept(n, t)'
<1> SUFFICES ASSUME NsExists(n)', NEW o \in Objects, Claimed(n, t, o)'
             PROVE  ReleaseOf(n, t)'[o] = good'[n][t].asked[o]
  BY DEF Kept
<1>0. TentaclesInv /\ HistoryInv /\ NsExists(n) /\ t # Empty
  <2>1. TentaclesInv /\ HistoryInv
    BY DEF ReleaseInv, HistoryInv
  <2> QED BY <2>1, NsStaysGone, TentaclesAssumption DEF NsExists
<1>1. good'[n][t] # Empty /\ (good'[n][t].whole \/ good'[n][t].asked[o] # Empty)
  BY DEF Claimed
<1>2. ASSUME NEW h \in Callers, Done(h), NsOf(h) = n, TentOf(h) = t, seen[h].alone,
             good'[n][t] = [asked |-> Asked(call[h].req), whole |-> call[h].whole]
      PROVE  ReleaseOf(n, t)'[o] = good'[n][t].asked[o]
  <2>1. UNCHANGED obj /\ call[h].pc = "delete" /\ call[h].todo = {} /\ call[h].listed = {}
    BY <1>2 DEF Done, objectVars
  <2>2. Doing(h)
    BY <2>1 DEF ReleaseInv, Busy
  <2>3. call[h].whole \/ o \in Named(call[h].req)
    BY <1>1, <1>2 DEF Asked
  <2>4. Settled(call[h], o)
    BY <2>1, <2>3 DEF Settled
  <2>5. ReleaseOf(n, t)[o] = Asked(call[h].req)[o]
    BY <1>0, <1>2, <2>2, <2>4 DEF Doing
  <2> QED BY <1>2, <2>1, <2>5 DEF ReleaseOf
<1>3. CASE good'[n][t] = good[n][t]
  <2>1. ReleaseOf(n, t)[o] = good[n][t].asked[o]
    <3>1. Kept(n, t) /\ Claimed(n, t, o)
      BY <1>1, <1>3 DEF ReleaseInv, Claimed
    <3> QED BY <1>0, <3>1 DEF Kept
  <2>2. CASE obj'[n][o] = obj[n][o]
    BY <1>3, <2>1, <2>2 DEF ReleaseOf
  <2>3. ASSUME NEW g \in Callers, Wrote(g, n, o)
        PROVE  ReleaseOf(n, t)'[o] = good'[n][t].asked[o]
    <3>1. t # TentOf(g)
      <4>1. Busy(g) /\ Writing(call[g]) /\ NsOf(g) = n
        BY <2>3 DEF Wrote, Busy, Writing
      <4>2. good[n][TentOf(g)] = Empty
        BY <4>1 DEF ReleaseInv, Unclaimed
      <4> QED BY <1>1, <1>3, <4>2
    <3>2. obj[n][o].release # t
      BY <1>1, <2>3, <3>1 DEF Wrote
    <3>3. ReleaseOf(n, t)[o] = Empty /\ ReleaseOf(n, t)'[o] = Empty
      BY <2>3, <3>1, <3>2 DEF ReleaseOf, Wrote
    <3> QED BY <1>3, <2>1, <3>3
  <2>4. ASSUME NEW g \in Callers, Deleted(g, n, o)
        PROVE  ReleaseOf(n, t)'[o] = good'[n][t].asked[o]
    <3>1. Busy(g) /\ NsOf(g) = n /\ o \in call[g].listed
      BY <2>4 DEF Deleted, Busy
    <3>2. good[n][t].asked[o] = Empty
      <4>1. Unclaimed(g)
        BY <3>1 DEF ReleaseInv
      <4> QED BY <1>0, <1>1, <1>3, <3>1, <4>1 DEF Unclaimed
    <3>3. ReleaseOf(n, t)'[o] = Empty
      BY <1>0, <2>4 DEF Deleted, NoObject, ReleaseOf
    <3> QED BY <1>3, <3>2, <3>3
  <2> QED BY <1>0, <2>2, <2>3, <2>4, ObjectMoves
<1> QED BY <1>0, <1>1, <1>2, <1>3, GoodMoves

\* At the start no call is in flight and nothing is known of any release.
LEMMA ReleaseInit == Init => ReleaseInv
<1> SUFFICES ASSUME Init PROVE ReleaseInv
  OBVIOUS
<1>1. HistoryInv
  BY HistoryInit
<1>2. \A h \in Callers : ~Busy(h)
  BY DEF Init, Busy, NoCall
<1>3. \A n \in Namespaces, t \in Tentacles : good[n][t] = Empty
  BY DEF Init
<1> QED BY <1>1, <1>2, <1>3 DEF ReleaseInv, Kept, Claimed

\* Every step keeps the releases what they are known to be.
LEMMA ReleaseNext == ReleaseInv /\ [Next]_vars => ReleaseInv'
<1> SUFFICES ASSUME ReleaseInv, [Next]_vars PROVE ReleaseInv'
  OBVIOUS
<1>1. HistoryInv'
  BY HistoryNext DEF ReleaseInv
<1>2. CASE Next
  BY <1>1, <1>2, DoingNext, UnclaimedNext, KeptNext DEF ReleaseInv
<1>3. CASE UNCHANGED vars
  <2>1. UNCHANGED <<ns, obj, call, seen, good>>
    BY <1>3 DEF vars, clusterVars, tentacleVars, objectVars, historyVars
  <2>2. \A h \in Callers : Busy(h)' => Doing(h)' /\ Unclaimed(h)'
    BY <2>1 DEF ReleaseInv, Busy, Doing, Unclaimed, Settled, Writing, ReleaseOf,
                NsExists, NsOf, TentOf
  <2>3. \A n \in Namespaces, t \in Tentacles : Kept(n, t)'
    BY <2>1 DEF ReleaseInv, Kept, Claimed, ReleaseOf, NsExists
  <2> QED BY <1>1, <2>2, <2>3 DEF ReleaseInv
<1> QED BY <1>2, <1>3

\* However calls overlap, fail or stop half-way: after a wf_apply or wf_remove that
\* succeeded and met no other call, every object it asked for is in its release as
\* asked for, and nothing else is if its collection met no error, until the next call
\* for the tentacle, or one that takes an object over.
THEOREM ReleasesAlwaysConverge == Spec => []ReleasesConverge
<1>1. ReleaseInv => ReleasesConverge
  <2> SUFFICES ASSUME ReleaseInv, NEW n \in Namespaces, NEW t \in Tentacles,
                      good[n][t] # Empty, ns[n].phase = "Active", NEW o \in Objects,
                      good[n][t].whole \/ good[n][t].asked[o] # Empty
               PROVE  ReleaseOf(n, t)[o] = good[n][t].asked[o]
    BY DEF ReleasesConverge
  <2> QED BY DEF ReleaseInv, Kept, Claimed, NsExists
<1> QED BY <1>1, ReleaseInit, ReleaseNext, PTL DEF Spec
=============================================================================
