-------------------------- MODULE EnclaveSyncProofs --------------------------
(***************************************************************************)
(* What enclave_sync does in whatever system it is part of: the operators  *)
(* of EnclaveAnnotations return lists of emails and the annotations of an  *)
(* enclave, and every step of a handler leaves its call and the cluster's  *)
(* objects well formed.  EnclavesProofs and TentaclesProofs build on it.   *)
(***************************************************************************)
EXTENDS EnclaveSync, FiniteSetTheorems, TLAPS

---------------------------------------------------------------------------
(* The annotations *)

\* SetToSeq lists every element of a finite set once.
LEMMA SetToSeqSpec ==
  ASSUME NEW S, IsFiniteSet(S)
  PROVE  /\ SetToSeq(S) \in Seq(S)
         /\ Len(SetToSeq(S)) = Cardinality(S)
         /\ IsInjective(SetToSeq(S))
<1> DEFINE n == Cardinality(S)
<1>1. n \in Nat /\ ExistsBijection(1 .. n, S)
  BY FS_CardinalityType
<1>2. \E f \in [1 .. n -> S] : IsInjective(f)
  BY <1>1 DEF ExistsBijection, Bijection, Injection
<1>3. SetToSeq(S) \in [1 .. n -> S] /\ IsInjective(SetToSeq(S))
  BY <1>2 DEF SetToSeq
<1> QED BY <1>1, <1>3

\* ParseMembers returns a list of emails of the same length.
LEMMA ParseMembersType ==
  ASSUME NEW list \in Seq(Emails)
  PROVE  /\ ParseMembers(list) \in Seq(Emails)
         /\ Len(ParseMembers(list)) = Len(list)
  BY EmailsAssumption DEF ParseMembers

\* Filtering a list of emails gives a list of emails.
LEMMA WithoutType ==
  ASSUME NEW list \in Seq(Emails), NEW out
  PROVE  Without(list, out) \in Seq(Emails)
<1> DEFINE I == {i \in DOMAIN list : list[i] \notin out}
           kept == SetToSeq(I)
<1>1. IsFiniteSet(DOMAIN list)
  BY FS_Interval
<1>2. IsFiniteSet(I)
  BY <1>1, FS_Subset, I \in SUBSET DOMAIN list
<1>3. kept \in Seq(I)
  BY <1>2, SetToSeqSpec
<1>4. \A k \in DOMAIN kept : list[kept[k]] \in Emails
  BY <1>3
<1>5. DOMAIN kept = 1 .. Len(kept) /\ Len(kept) \in Nat
  BY <1>3
<1> HIDE DEF kept
<1>6. [k \in DOMAIN kept |-> list[kept[k]]] \in Seq(Emails)
  BY <1>4, <1>5
<1> QED BY <1>6 DEF Without, kept

\* The list after additions is a list of emails.
LEMMA AddMembersType ==
  ASSUME NEW list \in Seq(Emails), NEW owner, NEW add \in SUBSET Emails
  PROVE  AddMembers(list, owner, add) \in Seq(Emails)
<1> DEFINE new == add \ (Range(list) \cup {owner})
<1>1. new \in SUBSET Emails
  OBVIOUS
<1>2. IsFiniteSet(new)
  BY <1>1, FS_Subset, EmailsAssumption
<1>3. SetToSeq(new) \in Seq(Emails)
  BY <1>1, <1>2, SetToSeqSpec
<1> QED BY <1>3 DEF AddMembers

\* Removing members leaves a list of emails.
LEMMA remainingMembersType ==
  ASSUME NEW info \in EnclaveInfo, NEW p \in SyncParams
  PROVE  remainingMembers(info, p) \in Seq(Emails)
<1>1. /\ info.members \in Seq(Emails)
      /\ p.add \in SUBSET Emails
  BY DEF EnclaveInfo, SyncParams
<1>2. addedMembers(info, p) \in Seq(Emails)
  BY <1>1, ParseMembersType, AddMembersType DEF addedMembers
<1> QED BY <1>2, WithoutType DEF remainingMembers

\* An accepted request leaves the annotations of an enclave: every string it
\* writes was validated.
LEMMA SyncedInfoType ==
  ASSUME NEW info \in EnclaveInfo, NEW p \in SyncParams, AcceptedLate(p, info)
  PROVE  SyncedInfo(p, info) \in EnclaveInfo
<1> DEFINE rest == remainingMembers(info, p)
           last == IF p.newOwner = Empty THEN rest
                   ELSE Append(Without(rest, {p.newOwner}), info.owner)
<1>1. rest \in Seq(Emails)
  BY remainingMembersType
<1>2. info.owner \in Emails
  BY DEF EnclaveInfo
<1>3. last \in Seq(Emails)
  BY <1>1, <1>2, WithoutType
<1>4. SyncedInfo(p, info).members = last
  BY DEF SyncedInfo
<1> HIDE DEF last
<1>5. /\ OrElse(p.newOwner, info.owner) \in Emails
      /\ OrElse(p.channelName, info.channelName) \in Channels \cup {Empty}
      /\ OrElse(p.status, info.status) \in Statuses
      /\ OrElse(p.mode, info.defaultMode) \in Modes \cup {Empty}
      /\ OrElse(p.mode, info.mode) \in Modes \cup {Empty}
      /\ OrElse(p.preset, info.preset) \in Presets
      /\ (IF p.newOwner = Empty THEN info.ownerSub ELSE Empty) \in Emails \cup {Empty}
  BY DEF EnclaveInfo, SyncParams, AcceptedLate, OrElse
<1> QED BY <1>3, <1>5 DEF EnclaveInfo, SyncedInfo, last

---------------------------------------------------------------------------
(* The calls *)

\* The request of a call was checked against its snapshot.
SyncOK(x) ==
  /\ x \in SyncCalls
  /\ x.pc = "idle" => x.attempt = 0
  /\ x.pc # "idle" => x.req \in Requests
  /\ x.pc \notin {"idle", "get"} =>
       /\ x.snap \in NsObjects
       /\ x.snap.ann \in EnclaveInfo /\ IsEnclave(x.snap)
       /\ AcceptedEarly(x.req.deployer, x.req.params, x.snap.ann)
  /\ x.pc \in {"quotaGet", "quotaUpdate", "update"} =>
       AcceptedLate(x.req.params, x.snap.ann)
  /\ x.pc \in {"quotaGet", "quotaUpdate"} => x.req.params.preset # Empty

SyncTypeInv ==
  /\ ClusterTypeOK
  /\ sync \in [Syncers -> SyncCalls]
  /\ \A c \in Syncers : SyncOK(sync[c])
  /\ syncCount \in Nat
  /\ dirtyQuota \in SUBSET Namespaces

\* How a step of a handler may change its call: from x to y, with the namespace
\* o before the step.
Moves(x, y) ==
  /\ x.pc \notin {"idle", "get"} /\ y.pc \notin {"idle", "get"}
  /\ y.req = x.req /\ y.snap = x.snap
  /\ y.attempt = x.attempt /\ y.startRv = x.startRv

Reads(x, y, o) ==
  /\ x.pc = "get" /\ y.pc \notin {"idle", "get"}
  /\ y.req = x.req /\ y.snap = o /\ y.attempt = x.attempt
  /\ y.startRv = IF x.attempt = 0 THEN o.rv ELSE x.startRv

Retries(x, y, o) ==
  /\ x.pc = "update" /\ y.pc = "get"
  /\ o.rv # x.snap.rv
  /\ y.req = x.req /\ y.attempt = x.attempt + 1 /\ y.startRv = x.startRv

\* A call that is not in flight is well formed.
LEMMA IdleSyncOK == SyncOK(Idle)
<1>1. 0 \in 0 .. MaxSyncRetries - 1
  BY SyncAssumption
<1> QED BY <1>1 DEF SyncOK, Idle, SyncCalls

\* The parts of an enclave_sync request.
LEMMA RequestType ==
  ASSUME NEW r \in Requests
  PROVE  r.name \in Namespaces /\ r.deployer \in Deployers /\ r.params \in SyncParams
  BY SyncAssumption

\* Where the handler goes after the transfers: it only goes on to write when
\* the late checks passed.
LEMMA AfterTransfersOK ==
  ASSUME NEW p, NEW info
  PROVE  /\ AfterTransfers(p, info) \in {"error", "quotaGet", "update"}
         /\ AfterTransfers(p, info) # "error" => AcceptedLate(p, info)
         /\ AfterTransfers(p, info) = "quotaGet" => p.preset # Empty
  BY DEF AfterTransfers

\* Every step of a handler that has started changes its own call in one of four
\* ways, and leaves it well formed.
LEMMA SyncShape ==
  ASSUME SyncTypeInv, NEW c \in Syncers, SyncStep(c) \/ SyncFail(c)
  PROVE  \E y :
           /\ sync' = [sync EXCEPT ![c] = y]
           /\ SyncOK(y)
           /\ sync[c].pc # "idle"
           /\ \/ y = Idle
              \/ Moves(sync[c], y)
              \/ Reads(sync[c], y, ns[Name(c)])
              \/ Retries(sync[c], y, ns[Name(c)])
<1> DEFINE x == sync[c]
           o == ns[Name(c)]
           Goal == \E y :
                     /\ sync' = [sync EXCEPT ![c] = y]
                     /\ SyncOK(y)
                     /\ x.pc # "idle"
                     /\ \/ y = Idle
                        \/ Moves(x, y)
                        \/ Reads(x, y, o)
                        \/ Retries(x, y, o)
<1> SUFFICES Goal
  OBVIOUS
<1>0. SyncOK(x) /\ sync \in [Syncers -> SyncCalls]
  BY DEF SyncTypeInv
<1>1. ASSUME ReturnError(c) \/ sync' = [sync EXCEPT ![c] = Idle], x.pc # "idle"
      PROVE  Goal
  BY <1>1, IdleSyncOK DEF ReturnError
<1>2. ASSUME NEW loc, loc = AfterTransfers(Params(c), Info(c)),
             NEW listed \in [Tentacles -> Nat], x.pc \in {"list", "transfer"},
             sync' = [sync EXCEPT ![c] = [x EXCEPT !.listed = listed, !.pc = loc]]
      PROVE  Goal
  <2> DEFINE y == [x EXCEPT !.listed = listed, !.pc = loc]
  <2>1. SyncOK(y) /\ Moves(x, y)
    BY ZenonT(40), <1>0, <1>2, AfterTransfersOK DEF SyncOK, SyncCalls, Moves, Params, Info
  <2> QED BY <1>2, <2>1
<1>3. CASE SyncGet(c)
  <2>1. x.pc = "get"
    BY <1>3 DEF SyncGet
  <2>2. CASE ReturnError(c)
    BY <1>1, <2>1, <2>2
  <2>3. CASE ~ReturnError(c)
    <3> DEFINE loc == IF Params(c).remove # {} THEN "list"
                      ELSE AfterTransfers(Params(c), o.ann)
               rv == IF x.attempt = 0 THEN o.rv ELSE x.startRv
               y == [x EXCEPT !.snap = o, !.startRv = rv, !.pc = loc]
    <3>1. /\ IsEnclave(o)
          /\ AcceptedEarly(x.req.deployer, x.req.params, o.ann)
          /\ sync' = [sync EXCEPT ![c] = y]
      BY <1>3, <2>3 DEF SyncGet, Params
    <3>2. o \in NsObjects /\ o.ann \in EnclaveInfo
      BY <1>0, <2>1, <3>1, RequestType
      DEF SyncTypeInv, ClusterTypeOK, NsObjects, IsEnclave, SyncOK, Name
    <3>3. /\ loc \in {"list", "error", "quotaGet", "update"}
          /\ loc \in {"quotaGet", "update"} => AcceptedLate(x.req.params, o.ann)
          /\ loc = "quotaGet" => x.req.params.preset # Empty
      BY AfterTransfersOK DEF Params
    <3>4. rv \in Nat
      BY <1>0, <3>2 DEF NsObjects, SyncOK, SyncCalls
    <3> HIDE DEF loc, rv
    <3>5. SyncOK(y)
      BY <1>0, <2>1, <3>1, <3>2, <3>3, <3>4 DEF SyncOK, SyncCalls
    <3>6. Reads(x, y, o)
      BY <1>0, <2>1, <3>3 DEF Reads, SyncOK, SyncCalls, rv
    <3> QED BY <2>1, <3>1, <3>5, <3>6
  <2> QED BY <2>2, <2>3
<1>4. CASE TransferList(c)
  <2> DEFINE found == [t \in Tentacles |->
                 IF Orphaned(Params(c), deps[Name(c)][t])
                 THEN deps[Name(c)][t].rv ELSE 0]
             y == [x EXCEPT !.listed = found, !.pc = "transfer"]
  <2>1. x.pc = "list"
    BY <1>4 DEF TransferList
  <2>2. found \in [Tentacles -> Nat]
    <3>1. deps[Name(c)] \in [Tentacles -> DepObjects]
      BY <1>0, <2>1, RequestType
      DEF SyncTypeInv, ClusterTypeOK, SyncOK, Name
    <3> QED BY <3>1 DEF DepObjects
  <2>3. \/ sync' = [sync EXCEPT ![c] = y]
        \/ sync' = [sync EXCEPT ![c] =
             [x EXCEPT !.listed = found,
                       !.pc = AfterTransfers(Params(c), Info(c))]]
    BY <1>4 DEF TransferList
  <2> HIDE DEF found
  <2>4. SyncOK(y) /\ Moves(x, y)
    BY <1>0, <2>1, <2>2 DEF SyncOK, SyncCalls, Moves
  <2> QED BY <1>2, <2>1, <2>2, <2>3, <2>4
<1>5. ASSUME NEW t \in Tentacles, TransferUpdate(c, t) PROVE Goal
  <2> DEFINE left == [x.listed EXCEPT ![t] = 0]
             y == [x EXCEPT !.listed = left, !.pc = "transfer"]
  <2>1. x.pc = "transfer"
    BY <1>5 DEF TransferUpdate
  <2>2. left \in [Tentacles -> Nat]
    BY <1>0 DEF SyncOK, SyncCalls
  <2>3. \/ sync' = [sync EXCEPT ![c] = y]
        \/ sync' = [sync EXCEPT ![c] =
             [x EXCEPT !.listed = left,
                       !.pc = AfterTransfers(Params(c), Info(c))]]
    BY <1>5 DEF TransferUpdate
  <2> HIDE DEF left
  <2>4. SyncOK(y) /\ Moves(x, y)
    BY <1>0, <2>1, <2>2 DEF SyncOK, SyncCalls, Moves
  <2> QED BY <1>2, <2>1, <2>2, <2>3, <2>4
<1>6. CASE QuotaGet(c)
  <2> DEFINE rv == quota[Name(c)].rv
             y == [x EXCEPT !.quotaRv = rv, !.pc = "quotaUpdate"]
  <2>1. x.pc = "quotaGet"
    BY <1>6 DEF QuotaGet
  <2>2. rv \in Nat
    BY <1>0, <2>1, RequestType
    DEF SyncTypeInv, ClusterTypeOK, QuotaObjects, SyncOK, Name
  <2>3. ReturnError(c) \/ sync' = [sync EXCEPT ![c] = y]
    BY <1>6 DEF QuotaGet
  <2> HIDE DEF rv
  <2>4. SyncOK(y) /\ Moves(x, y)
    BY <1>0, <2>1, <2>2 DEF SyncOK, SyncCalls, Moves
  <2> QED BY <1>1, <2>1, <2>3, <2>4
<1>7. CASE QuotaUpdate(c)
  <2> DEFINE y == [x EXCEPT !.pc = "update", !.wroteQuota = TRUE]
  <2>1. x.pc = "quotaUpdate"
    BY <1>7 DEF QuotaUpdate
  <2>2. ReturnError(c) \/ sync' = [sync EXCEPT ![c] = y]
    BY <1>7 DEF QuotaUpdate
  <2>3. SyncOK(y) /\ Moves(x, y)
    BY <1>0, <2>1 DEF SyncOK, SyncCalls, Moves
  <2> QED BY <1>1, <2>1, <2>2, <2>3
<1>8. CASE SyncRefuse(c) \/ SyncUpdate(c) \/ SyncGone(c)
  BY <1>1, <1>8 DEF SyncRefuse, SyncUpdate, SyncGone
<1>9. CASE SyncConflict(c)
  <2> DEFINE y == [x EXCEPT !.attempt = @ + 1, !.pc = "get", !.snap = Empty,
                            !.quotaRv = 0]
  <2>1. x.pc = "update" /\ o.rv # x.snap.rv
    BY <1>9 DEF SyncConflict
  <2>2. CASE ReturnError(c)
    BY <1>1, <2>1, <2>2
  <2>3. CASE ~ReturnError(c)
    <3>1. x.attempt + 1 < MaxSyncRetries /\ sync' = [sync EXCEPT ![c] = y]
      BY <1>9, <2>3 DEF SyncConflict
    <3>2. x.attempt + 1 \in 0 .. MaxSyncRetries - 1
      BY <1>0, <3>1, SyncAssumption DEF SyncOK, SyncCalls
    <3>3. SyncOK(y)
      BY <1>0, <2>1, <3>2 DEF SyncOK, SyncCalls
    <3>4. Retries(x, y, o)
      BY <1>0, <2>1 DEF Retries, SyncOK, SyncCalls
    <3> QED BY <2>1, <3>1, <3>3, <3>4
  <2> QED BY <2>2, <2>3
<1>10. CASE SyncFail(c)
  <2>1. CASE x.pc = "list"
    <3>1. sync' = [sync EXCEPT ![c] =
            [x EXCEPT !.listed = x.listed,
                      !.pc = AfterTransfers(Params(c), Info(c))]]
      BY <1>0, <1>10, <2>1 DEF SyncFail, SyncOK, SyncCalls
    <3>2. x.listed \in [Tentacles -> Nat]
      BY <1>0 DEF SyncOK, SyncCalls
    <3> QED BY <1>2, <2>1, <3>1, <3>2
  <2>2. CASE x.pc # "list"
    BY <1>1, <1>10, <2>2 DEF SyncFail
  <2> QED BY <2>1, <2>2
<1> HIDE DEF Goal
<1> QED BY <1>3, <1>4, <1>5, <1>6, <1>7, <1>8, <1>9, <1>10 DEF SyncStep

\* A namespace that is annotated or deleted is still one.
LEMMA NsWritten ==
  ASSUME NEW o \in NsObjects
  PROVE  /\ \A i \in EnclaveInfo : Annotated(o, i) \in NsObjects
         /\ DeletedNs(o) \in NsObjects
  BY DEF NsObjects, Annotated, DeletedNs

\* The step of a handler leaves the cluster's objects well typed.
LEMMA SyncCluster ==
  ASSUME SyncTypeInv, NEW c \in Syncers, SyncStep(c) \/ SyncFail(c)
  PROVE  ClusterTypeOK' /\ syncCount' \in Nat /\ dirtyQuota' \in SUBSET Namespaces
<1> DEFINE Goal == /\ ClusterTypeOK'
                   /\ syncCount' \in Nat
                   /\ dirtyQuota' \in SUBSET Namespaces
           x == sync[c]
<1> SUFFICES Goal
  OBVIOUS
<1>0. /\ SyncOK(x) /\ ClusterTypeOK
      /\ syncCount \in Nat /\ dirtyQuota \in SUBSET Namespaces
  BY DEF SyncTypeInv
<1>1. ASSUME x.pc # "idle" PROVE Name(c) \in Namespaces /\ x.req.params \in SyncParams
  BY <1>0, <1>1, RequestType DEF SyncOK, Name
<1>2. ASSUME x.pc # "idle", ReturnError(c)
      PROVE  syncCount' \in Nat /\ dirtyQuota' \in SUBSET Namespaces
  BY <1>0, <1>1, <1>2 DEF ReturnError
<1>3. ASSUME UNCHANGED clusterVars PROVE ClusterTypeOK'
  BY <1>0, <1>3 DEF clusterVars, ClusterTypeOK
<1>4. CASE SyncGet(c) \/ QuotaGet(c) \/ SyncRefuse(c) \/ SyncConflict(c) \/ SyncGone(c)
           \/ SyncFail(c) \/ TransferList(c)
  <2>1. UNCHANGED clusterVars
    BY <1>4 DEF SyncGet, QuotaGet, SyncRefuse, SyncConflict, SyncGone, SyncFail,
                TransferList, clusterVars
  <2>2. (x.pc # "idle" /\ ReturnError(c)) \/ UNCHANGED <<syncCount, dirtyQuota>>
    BY <1>4 DEF SyncGet, QuotaGet, SyncRefuse, SyncConflict, SyncGone, SyncFail,
                TransferList
  <2> QED BY <1>0, <1>2, <1>3, <2>1, <2>2
<1>5. ASSUME NEW t \in Tentacles, TransferUpdate(c, t) PROVE Goal
  <2> DEFINE d == [exists |-> TRUE, rv |-> deps[Name(c)][t].rv + 1,
                   owner |-> Info(c).owner, ownerSub |-> Empty]
  <2>1. Name(c) \in Namespaces /\ Info(c).owner \in Emails
    BY <1>0, <1>1, <1>5 DEF TransferUpdate, SyncOK, EnclaveInfo, Info
  <2>2. d \in DepObjects
    BY <1>0, <2>1 DEF ClusterTypeOK, DepObjects
  <2>3. \/ deps' = deps
        \/ deps' = [deps EXCEPT ![Name(c)] = [deps[Name(c)] EXCEPT ![t] = d]]
    BY <1>5 DEF TransferUpdate
  <2> HIDE DEF d
  <2>4. [deps[Name(c)] EXCEPT ![t] = d] \in [Tentacles -> DepObjects]
    BY <1>0, <2>1, <2>2 DEF ClusterTypeOK
  <2>5. deps' \in [Namespaces -> [Tentacles -> DepObjects]]
    BY <1>0, <2>1, <2>3, <2>4 DEF ClusterTypeOK
  <2> QED BY <1>0, <1>5, <2>5 DEF TransferUpdate, ClusterTypeOK
<1>6. CASE QuotaUpdate(c)
  <2> DEFINE q == [exists |-> TRUE, rv |-> quota[Name(c)].rv + 1, kind |-> "limits",
                   preset |-> Params(c).preset]
  <2>1. x.pc = "quotaUpdate" /\ Name(c) \in Namespaces
    BY <1>1, <1>6 DEF QuotaUpdate
  <2>2. CASE ReturnError(c) /\ UNCHANGED quota
    BY <1>0, <1>2, <1>6, <2>1, <2>2 DEF QuotaUpdate, ClusterTypeOK
  <2>3. CASE ~(ReturnError(c) /\ UNCHANGED quota)
    <3>1. /\ quota' = [quota EXCEPT ![Name(c)] = q]
          /\ UNCHANGED <<syncCount, dirtyQuota>>
          /\ Params(c).preset # Empty
      <4>1. Params(c).preset # Empty
        BY <1>0, <2>1 DEF SyncOK, Params
      <4> QED BY <1>6, <2>3, <4>1 DEF QuotaUpdate
    <3>2. q \in QuotaObjects
      BY <1>0, <1>1, <2>1, <3>1
      DEF SyncOK, AcceptedLate, SyncParams, Params, ClusterTypeOK, QuotaObjects
    <3> HIDE DEF q
    <3> QED BY <1>0, <1>6, <3>1, <3>2 DEF QuotaUpdate, ClusterTypeOK
  <2> QED BY <2>2, <2>3
<1>7. CASE SyncUpdate(c)
  <2> DEFINE q == Annotated(ns[Name(c)], SyncedInfo(Params(c), Info(c)))
  <2>1. x.pc = "update" /\ Name(c) \in Namespaces
    BY <1>1, <1>7 DEF SyncUpdate
  <2>2. SyncedInfo(Params(c), Info(c)) \in EnclaveInfo
    BY <1>0, <1>1, <2>1, SyncedInfoType DEF SyncOK, Params, Info
  <2>3. q \in NsObjects
    BY <1>0, <2>1, <2>2, NsWritten DEF ClusterTypeOK
  <2>4. ns' = [ns EXCEPT ![Name(c)] = q]
    BY <1>7 DEF SyncUpdate
  <2> HIDE DEF q
  <2> QED BY <1>0, <1>7, <2>1, <2>3, <2>4 DEF SyncUpdate, ClusterTypeOK
<1> HIDE DEF Goal
<1> QED BY <1>4, <1>5, <1>6, <1>7 DEF SyncStep

\* Every step of enclave_sync keeps the types.
LEMMA SyncTypeNext ==
  ASSUME SyncTypeInv, SyncNext
  PROVE  SyncTypeInv'
<1>1. ASSUME NEW c \in Syncers, NEW y, SyncOK(y), sync' = [sync EXCEPT ![c] = y],
             ClusterTypeOK', syncCount' \in Nat, dirtyQuota' \in SUBSET Namespaces
      PROVE  SyncTypeInv'
  <2>1. sync' \in [Syncers -> SyncCalls] /\ \A e \in Syncers : SyncOK(sync'[e])
    BY <1>1 DEF SyncTypeInv, SyncOK
  <2> QED BY <1>1, <2>1 DEF SyncTypeInv
<1>2. ASSUME NEW c \in Syncers, SyncStep(c) \/ SyncFail(c) PROVE SyncTypeInv'
  <2>1. \E y : sync' = [sync EXCEPT ![c] = y] /\ SyncOK(y)
    BY <1>2, SyncShape
  <2>2. ClusterTypeOK' /\ syncCount' \in Nat /\ dirtyQuota' \in SUBSET Namespaces
    BY <1>2, SyncCluster
  <2> QED BY <1>1, <2>1, <2>2
<1>3. ASSUME NEW c \in Syncers, NEW r \in Requests, SyncStart(c, r) PROVE SyncTypeInv'
  <2>1. SyncOK([Idle EXCEPT !.pc = "get", !.req = r])
    BY IdleSyncOK DEF SyncOK, Idle, SyncCalls
  <2>2. /\ ClusterTypeOK' /\ syncCount' \in Nat /\ dirtyQuota' \in SUBSET Namespaces
        /\ sync' = [sync EXCEPT ![c] = [Idle EXCEPT !.pc = "get", !.req = r]]
    BY <1>3 DEF SyncStart, SyncTypeInv, ClusterTypeOK, clusterVars
  <2> QED BY <1>1, <2>1, <2>2
<1> QED BY <1>2, <1>3 DEF SyncNext

---------------------------------------------------------------------------
(* The member list *)

\* Nobody is listed twice, the owner is not listed, and the list is no longer than
\* it may be.
WellFormed(info) ==
  /\ info.owner \notin Range(info.members)
  /\ IsInjective(info.members)
  /\ ValidateMembers(info.members)

\* Filtering a list keeps only entries that were there and are not filtered out,
\* lists none of them more often, and shortens the list if there was one to remove.
LEMMA WithoutSpec ==
  ASSUME NEW list \in Seq(Emails), NEW out
  PROVE  /\ Range(Without(list, out)) \subseteq Range(list) \ out
         /\ IsInjective(list) => IsInjective(Without(list, out))
         /\ Len(Without(list, out)) <= Len(list)
         /\ \A x \in out : x \in Range(list) => Len(Without(list, out)) < Len(list)
<1> DEFINE I == {i \in DOMAIN list : list[i] \notin out}
           kept == SetToSeq(I)
           rest == [k \in DOMAIN kept |-> list[kept[k]]]
<1>0. DOMAIN list = 1 .. Len(list) /\ Len(list) \in Nat
  OBVIOUS
<1>1. IsFiniteSet(1 .. Len(list)) /\ Cardinality(1 .. Len(list)) = Len(list)
  BY <1>0, FS_Interval
<1>2. /\ IsFiniteSet(I) /\ Cardinality(I) <= Len(list)
      /\ I # DOMAIN list => Cardinality(I) < Len(list)
  <2>1. /\ IsFiniteSet(I) /\ Cardinality(I) <= Len(list)
        /\ Len(list) = Cardinality(I) => DOMAIN list = I
    <3>1. I \in SUBSET (1 .. Len(list))
      BY <1>0
    <3> HIDE DEF I
    <3> QED BY <1>0, <1>1, <3>1, FS_Subset
  <2>2. Cardinality(I) \in Nat
    BY <2>1, FS_CardinalityType
  <2> QED BY <1>0, <2>1, <2>2
<1>3. kept \in Seq(I) /\ Len(kept) = Cardinality(I) /\ IsInjective(kept)
  BY <1>2, SetToSeqSpec
<1>4. Without(list, out) = rest
  BY DEF Without
<1>5. \A k \in DOMAIN kept : kept[k] \in I
  BY <1>3
<1>6. \A x \in out : x \in Range(list) => I # DOMAIN list
  BY DEF Range
<1> HIDE DEF kept, I
<1>7. Len(rest) = Cardinality(I)
  <2>1. DOMAIN kept = 1 .. Len(kept) /\ Len(kept) \in Nat
    BY <1>3
  <2> QED BY <1>3, <2>1
<1>8. Range(rest) \subseteq Range(list) \ out
  BY <1>5 DEF Range, I
<1>9. IsInjective(list) => IsInjective(rest)
  BY <1>3, <1>5 DEF IsInjective, I
<1> QED BY <1>2, <1>4, <1>6, <1>7, <1>8, <1>9

\* Putting two lists together that have no entry in common.
LEMMA ConcatSpec ==
  ASSUME NEW a \in Seq(Emails), NEW b \in Seq(Emails)
  PROVE  /\ Range(a \o b) = Range(a) \cup Range(b)
         /\ IsInjective(a) /\ IsInjective(b) /\ Range(a) \cap Range(b) = {}
              => IsInjective(a \o b)
<1>1. /\ DOMAIN (a \o b) = 1 .. Len(a) + Len(b) /\ Len(a) \in Nat /\ Len(b) \in Nat
      /\ \A i \in 1 .. Len(a) + Len(b) :
           (a \o b)[i] = IF i <= Len(a) THEN a[i] ELSE b[i - Len(a)]
      /\ DOMAIN a = 1 .. Len(a) /\ DOMAIN b = 1 .. Len(b)
  OBVIOUS
<1> DEFINE ab == a \o b
<1> HIDE DEF ab
<1>2. Range(ab) \subseteq Range(a) \cup Range(b)
  <2> SUFFICES ASSUME NEW i \in 1 .. Len(a) + Len(b) PROVE ab[i] \in Range(a) \cup Range(b)
    BY <1>1 DEF Range, ab
  <2>1. CASE i <= Len(a)
    BY <1>1, <2>1 DEF Range, ab
  <2>2. CASE i > Len(a)
    <3>1. i - Len(a) \in 1 .. Len(b) /\ ab[i] = b[i - Len(a)]
      BY <1>1, <2>2 DEF ab
    <3> QED BY <1>1, <3>1 DEF Range
  <2> QED BY <1>1, <2>1, <2>2
<1>3. Range(a) \subseteq Range(ab)
  <2> SUFFICES ASSUME NEW i \in 1 .. Len(a) PROVE a[i] \in Range(ab)
    BY <1>1 DEF Range
  <2>1. i \in DOMAIN ab /\ ab[i] = a[i]
    BY <1>1 DEF ab
  <2> QED BY <2>1 DEF Range
<1>4. Range(b) \subseteq Range(ab)
  <2> SUFFICES ASSUME NEW i \in 1 .. Len(b) PROVE b[i] \in Range(ab)
    BY <1>1 DEF Range
  <2>1. i + Len(a) \in DOMAIN ab /\ ab[i + Len(a)] = b[i]
    BY <1>1 DEF ab
  <2> QED BY <2>1 DEF Range
<1>5. ASSUME IsInjective(a), IsInjective(b), Range(a) \cap Range(b) = {}
      PROVE  IsInjective(ab)
  <2> SUFFICES ASSUME NEW i \in 1 .. Len(a) + Len(b), NEW j \in 1 .. Len(a) + Len(b),
                      ab[i] = ab[j]
               PROVE  i = j
    BY <1>1 DEF IsInjective, ab
  <2>0. \A k \in 1 .. Len(a) + Len(b) :
          \/ k <= Len(a) /\ k \in DOMAIN a /\ ab[k] = a[k]
          \/ k > Len(a) /\ k - Len(a) \in DOMAIN b /\ ab[k] = b[k - Len(a)]
    BY <1>1 DEF ab
  <2>1. CASE i <= Len(a) /\ j <= Len(a)
    BY <1>1, <1>5, <2>0, <2>1 DEF IsInjective
  <2>2. CASE i > Len(a) /\ j > Len(a)
    <3>1. /\ i - Len(a) \in DOMAIN b /\ ab[i] = b[i - Len(a)]
          /\ j - Len(a) \in DOMAIN b /\ ab[j] = b[j - Len(a)]
      BY <1>1, <2>0, <2>2
    <3>2. i - Len(a) = j - Len(a)
      BY <1>5, <3>1 DEF IsInjective
    <3> QED BY <1>1, <3>2
  <2>3. CASE i <= Len(a) /\ j > Len(a)
    <3>1. i \in DOMAIN a /\ ab[i] = a[i] /\ j - Len(a) \in DOMAIN b
          /\ ab[j] = b[j - Len(a)]
      BY <1>1, <2>0, <2>3
    <3>2. ab[i] \in Range(a) /\ ab[j] \in Range(b)
      BY <3>1 DEF Range
    <3> QED BY <1>5, <3>2
  <2>4. CASE i > Len(a) /\ j <= Len(a)
    <3>1. j \in DOMAIN a /\ ab[j] = a[j] /\ i - Len(a) \in DOMAIN b
          /\ ab[i] = b[i - Len(a)]
      BY <1>1, <2>0, <2>4
    <3>2. ab[j] \in Range(a) /\ ab[i] \in Range(b)
      BY <3>1 DEF Range
    <3> QED BY <1>5, <3>2
  <2> QED BY <1>1, <2>1, <2>2, <2>3, <2>4
<1> QED BY <1>2, <1>3, <1>4, <1>5 DEF ab

\* What the add_members and remove_members of an accepted request leave of a well
\* formed list of lowercased emails is well formed, with the owner it had.
LEMMA RemainingWellFormed ==
  ASSUME \A e \in Emails : ToLower[e] = e,
         NEW info \in EnclaveInfo, NEW p \in SyncParams, NEW d,
         WellFormed(info), AcceptedEarly(d, p, info)
  PROVE  /\ info.owner \notin Range(remainingMembers(info, p))
         /\ IsInjective(remainingMembers(info, p))
         /\ ValidateMembers(remainingMembers(info, p))
<1> DEFINE list == info.members
           all == addedMembers(info, p)
<1>1. /\ list \in Seq(Emails) /\ info.owner \in Emails /\ p.add \in SUBSET Emails
  BY DEF EnclaveInfo, SyncParams
<1>2. ParseMembers(list) = list
  <2>1. \A i \in DOMAIN list : ToLower[list[i]] = list[i]
    BY <1>1
  <2>2. list = [i \in DOMAIN list |-> list[i]]
    BY <1>1
  <2> QED BY <2>1, <2>2 DEF ParseMembers
<1>3. /\ all \in Seq(Emails)
      /\ info.owner \notin Range(all) /\ IsInjective(all) /\ ValidateMembers(all)
  <2>1. CASE p.add = {}
    BY <1>1, <1>2, <2>1 DEF addedMembers, WellFormed
  <2>2. CASE p.add # {}
    <3> DEFINE new == p.add \ (Range(list) \cup {info.owner})
               more == SetToSeq(new)
    <3>1. all = list \o more
      BY <1>2, <2>2 DEF addedMembers, AddMembers
    <3>2. IsFiniteSet(new)
      BY <1>1, FS_Subset, EmailsAssumption
    <3>3. more \in Seq(new) /\ IsInjective(more)
      BY <3>2, SetToSeqSpec
    <3>4. more \in Seq(Emails) /\ Range(more) \subseteq new
      BY <1>1, <3>3 DEF Range
    <3> HIDE DEF more
    <3>5. Range(all) = Range(list) \cup Range(more)
      BY <1>1, <3>1, <3>4, ConcatSpec
    <3>6. IsInjective(all)
      BY <1>1, <3>1, <3>3, <3>4, ConcatSpec DEF WellFormed
    <3>7. ValidateMembers(all)
      BY <2>2 DEF AcceptedEarly
    <3>8. all \in Seq(Emails)
      BY <1>1, <3>1, <3>4
    <3> QED BY <3>4, <3>5, <3>6, <3>7, <3>8 DEF WellFormed
  <2> QED BY <2>1, <2>2
<1>4. CASE p.remove = {}
  BY <1>3, <1>4 DEF remainingMembers
<1>5. CASE p.remove # {}
  <2> HIDE DEF all
  <2>1. remainingMembers(info, p) = Without(all, p.remove)
    BY <1>5 DEF remainingMembers, all
  <2>2. Without(all, p.remove) \in Seq(Emails)
    BY <1>3, WithoutType
  <2>3. Len(Without(all, p.remove)) <= Len(all)
    BY <1>3, WithoutSpec
  <2>4. Len(all) \in Nat /\ Len(Without(all, p.remove)) \in Nat
    BY <1>3, <2>2
  <2>5. ValidateMembers(Without(all, p.remove))
    BY <1>3, <2>3, <2>4, EmptyAssumption DEF ValidateMembers
  <2> QED BY <1>3, <2>1, <2>5, WithoutSpec
<1> QED BY <1>4, <1>5

\* The annotations an accepted request writes are well formed: an ownership
\* transfer takes the new owner from the list and puts the old one on it.
LEMMA SyncedWellFormed ==
  ASSUME \A e \in Emails : ToLower[e] = e,
         NEW info \in EnclaveInfo, NEW p \in SyncParams, NEW d,
         WellFormed(info), AcceptedEarly(d, p, info), AcceptedLate(p, info)
  PROVE  WellFormed(SyncedInfo(p, info))
<1> DEFINE rest == remainingMembers(info, p)
           new == Without(rest, {p.newOwner})
<1>1. /\ rest \in Seq(Emails) /\ new \in Seq(Emails) /\ info.owner \in Emails
      /\ p.newOwner \in Emails \cup {Empty}
  BY remainingMembersType, WithoutType DEF EnclaveInfo, SyncParams
<1>2. info.owner \notin Range(rest) /\ IsInjective(rest) /\ ValidateMembers(rest)
  BY RemainingWellFormed
<1>3. CASE p.newOwner = Empty
  BY <1>2, <1>3 DEF WellFormed, SyncedInfo, OrElse
<1>4. CASE p.newOwner # Empty
  <2>1. /\ SyncedInfo(p, info).owner = p.newOwner
        /\ SyncedInfo(p, info).members = Append(new, info.owner)
    BY <1>4 DEF SyncedInfo, OrElse
  <2>2. p.newOwner \in Range(rest) /\ p.newOwner # info.owner
    BY <1>1, <1>4 DEF AcceptedLate, isEnclaveParticipant
  <2>3. /\ Range(new) \subseteq Range(rest) \ {p.newOwner}
        /\ IsInjective(new)
        /\ Len(new) < Len(rest)
    BY <1>1, <1>2, <2>2, WithoutSpec
  <2> HIDE DEF new, rest
  <2>4. Append(new, info.owner) = new \o <<info.owner>>
    BY <1>1
  <2>5. <<info.owner>> \in Seq(Emails) /\ IsInjective(<<info.owner>>)
        /\ Range(<<info.owner>>) = {info.owner}
    BY <1>1 DEF IsInjective, Range
  <2>6. Range(Append(new, info.owner)) = Range(new) \cup {info.owner}
    BY <1>1, <2>4, <2>5, ConcatSpec
  <2>7. IsInjective(Append(new, info.owner))
    <3>1. Range(new) \cap {info.owner} = {}
      BY <1>2, <2>3
    <3> DEFINE last == <<info.owner>>
    <3>2. /\ last \in Seq(Emails) /\ IsInjective(last) /\ Range(new) \cap Range(last) = {}
          /\ Append(new, info.owner) = new \o last
      BY <2>4, <2>5, <3>1
    <3> HIDE DEF last
    <3>3. IsInjective(new \o last)
      BY <1>1, <2>3, <3>2, ConcatSpec
    <3> QED BY <3>2, <3>3
  <2>8. ValidateMembers(Append(new, info.owner))
    <3>1. Len(Append(new, info.owner)) = Len(new) + 1 /\ Len(new) \in Nat
          /\ Len(rest) \in Nat
      BY <1>1
    <3> QED BY <1>2, <2>3, <3>1, EmptyAssumption DEF ValidateMembers
  <2> QED BY <2>1, <2>2, <2>3, <2>6, <2>7, <2>8 DEF WellFormed
<1> QED BY <1>3, <1>4
=============================================================================
