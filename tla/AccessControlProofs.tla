------------------------ MODULE AccessControlProofs ------------------------
(***************************************************************************)
(* Proofs that the decisions of the separate authorization checks fit      *)
(* together, for any annotations, callers and tentacles: AccessControl's   *)
(* invariants.  What a decision depends on is its caller's address in      *)
(* lower case; the checks of the tentacle's tools contain those of the     *)
(* enclave's.                                                              *)
(***************************************************************************)
EXTENDS AccessControl, FiniteSetTheorems, TLAPS

\* What the handlers work with.
AccessInv ==
  /\ request # Empty => request \in [caller : Callers, action : Actions]
  /\ enclaves \in Clusters
  /\ tentacle \in [owner : TentacleOwners, mode : TentacleModes]

\* Requests come from callers of the right form, and annotations stay.
LEMMA AccessInvariant == Spec => []AccessInv
<1>1. Init => AccessInv
  BY DEF Init, AccessInv
<1>2. AccessInv /\ [Next]_vars => AccessInv'
  <2> SUFFICES ASSUME AccessInv, [Next]_vars PROVE AccessInv'
    OBVIOUS
  <2>1. ASSUME NEW d \in Callers, NEW a \in Actions, Ask(d, a)
        PROVE  AccessInv'
    BY <2>1 DEF Ask, AccessInv
  <2>2. CASE Answer
    BY <2>2 DEF Answer, AccessInv
  <2>3. CASE UNCHANGED vars
    BY <2>3 DEF vars, AccessInv
  <2> QED BY <2>1, <2>2, <2>3 DEF Next
<1> QED BY <1>1, <1>2, PTL DEF Spec

---------------------------------------------------------------------------
(* Addresses *)

\* Two callers that differ in the capitalisation of their address alone.
LEMMA SamePerson ==
  ASSUME NEW d \in Deployers, NEW e \in Emails, Lower(d.email) = Lower(e)
  PROVE  LET other == [d EXCEPT !.email = e] IN
         /\ other.provider = d.provider /\ other.email = e
         /\ d.email # Empty /\ e # Empty /\ ToLower[d.email] = ToLower[e]
  BY EmailsAssumption, EmptyAssumption DEF Deployers, Lower

\* They are the same to the evaluator.
LEMMA SameAccess ==
  ASSUME NEW d, NEW other, other.provider = d.provider,
         Lower(d.email) = Lower(other.email),
         NEW on, NEW info, NEW t, NEW action
  PROVE  /\ CheckEnclave(on, d, info, action)
              <=> CheckEnclave(on, other, info, action)
         /\ CheckTentacle(on, d, info, t, action)
              <=> CheckTentacle(on, other, info, t, action)
<1>1. IsMember(d, info) <=> IsMember(other, info)
  BY DEF IsMember
<1>2. IsEnclaveOwner(d, info) <=> IsEnclaveOwner(other, info)
  BY DEF IsEnclaveOwner
<1>3. CheckEnclave(on, d, info, action) <=> CheckEnclave(on, other, info, action)
  BY <1>1, <1>2 DEF CheckEnclave
<1>4. TentacleClass(d, info, t) = TentacleClass(other, info, t)
  BY <1>1 DEF TentacleClass
<1>5. CheckTentacle(on, d, info, t, action)
        <=> CheckTentacle(on, other, info, t, action)
  BY <1>2, <1>3, <1>4 DEF CheckTentacle
<1> QED BY <1>3, <1>5

\* An address is the same person in every capitalisation.
THEOREM AlwaysCaseBlind == Spec => []CaseBlind
<1>1. AccessInv => CaseBlind
  <2> SUFFICES ASSUME AccessInv, request # Empty, NEW e \in Emails,
                      Lower(request.caller.email) = Lower(e)
               PROVE  LET d == request.caller
                          other == [d EXCEPT !.email = e] IN
        /\ CheckEnclave(enabled, d, Enclave, request.action)
             = CheckEnclave(enabled, other, Enclave, request.action)
        /\ CheckTentacle(enabled, d, Enclave, tentacle, request.action)
             = CheckTentacle(enabled, other, Enclave, tentacle, request.action)
        /\ IsParticipant(d, Enclave) = IsParticipant(other, Enclave)
    BY DEF CaseBlind
  <2> PICK d : d = request.caller
    OBVIOUS
  <2> PICK other : other = [d EXCEPT !.email = e]
    OBVIOUS
  <2>1. d \in Deployers
    BY AccessAssumption DEF AccessInv
  <2>2. /\ other.provider = d.provider /\ other.email = e
        /\ d.email # Empty /\ e # Empty /\ ToLower[d.email] = ToLower[e]
    BY <2>1, SamePerson
  <2>3. /\ CheckEnclave(enabled, d, Enclave, request.action)
             <=> CheckEnclave(enabled, other, Enclave, request.action)
        /\ CheckTentacle(enabled, d, Enclave, tentacle, request.action)
             <=> CheckTentacle(enabled, other, Enclave, tentacle, request.action)
    BY <2>2, SameAccess
  <2>4. IsParticipant(d, Enclave) <=> IsParticipant(other, Enclave)
    BY <2>2 DEF IsParticipant, isEnclaveParticipant
  <2>5. /\ CheckEnclave(enabled, d, Enclave, request.action) \in BOOLEAN
        /\ CheckEnclave(enabled, other, Enclave, request.action) \in BOOLEAN
        /\ CheckTentacle(enabled, d, Enclave, tentacle, request.action) \in BOOLEAN
        /\ CheckTentacle(enabled, other, Enclave, tentacle, request.action) \in BOOLEAN
        /\ IsParticipant(d, Enclave) \in BOOLEAN
        /\ IsParticipant(other, Enclave) \in BOOLEAN
    BY DEF CheckEnclave, CheckTentacle, IsParticipant
  <2> QED BY <2>3, <2>4, <2>5
<1> QED BY <1>1, AccessInvariant, PTL

---------------------------------------------------------------------------
(* Lists and descriptions *)

\* wf_list, which checks the enclave and then every tentacle, shows exactly the
\* tentacles wf_describe, wf_status and wf_health answer for: the tentacle's
\* check admits nobody the enclave's refuses.
THEOREM AlwaysListedIffDescribed == Spec => []ListedIffDescribed
<1>1. ListedIffDescribed
  <2>1. ASSUME NEW on, NEW d, NEW info, NEW t, NEW action,
               CheckTentacle(on, d, info, t, action)
        PROVE  CheckEnclave(on, d, info, action)
    BY <2>1 DEF CheckTentacle, CheckEnclave
  <2> QED BY <2>1 DEF ListedIffDescribed, WfListed, MayDescribe
<1> QED BY <1>1, PTL

\* Who may read an enclave according to the evaluator takes part in it, or its
\* mode lets others read.
LEMMA ReadersListed ==
  ASSUME NEW email \in Emails, NEW info,
         CheckEnclave(TRUE, Person(email), info, "read")
  PROVE  /\ info # Empty
         /\ IsParticipant(Person(email), info) \/ OtherMayRead(info)
<1> DEFINE d == Person(email)
<1>1. d.provider = "oidc" /\ d.email = email /\ email # Empty
  BY EmptyAssumption DEF Person
<1>2. /\ info # Empty
      /\ \/ IsEnclaveOwner(d, info)
         \/ checkBits(ModeOr(info.mode, DefaultEnclaveMode), "read",
                      IF IsMember(d, info) THEN "group" ELSE "other")
  BY <1>1 DEF CheckEnclave
<1>3. CASE IsEnclaveOwner(d, info)
  <2>1. Lower(email) = ToLower[email] /\ Lower(info.owner) = ToLower[email]
    BY <1>1, <1>3 DEF IsEnclaveOwner, Lower
  <2>2. info.owner # Empty
    BY <2>1, EmptyAssumption, EmailsAssumption DEF Lower
  <2> QED BY <1>1, <1>2, <2>1, <2>2 DEF Lower, IsParticipant, isEnclaveParticipant
<1>4. CASE IsMember(d, info)
  BY <1>1, <1>2, <1>4 DEF IsMember, Lower, IsParticipant, isEnclaveParticipant
<1>5. CASE ~IsEnclaveOwner(d, info) /\ ~IsMember(d, info)
  BY <1>2, <1>5 DEF checkBits, OtherMayRead
<1> QED BY <1>3, <1>4, <1>5

\* enclave_list with an address shows exactly the enclaves enclave_info shows its
\* bearer, all he may read and the one inserted for him included; without one it
\* shows them all.
THEOREM ListAlwaysAgreesWithInfo == Spec => []ListAgreesWithInfo
<1>1. AccessInv => ListAgreesWithInfo
  <2> SUFFICES ASSUME AccessInv, request # Empty, NEW asked \in Emails \cup {Empty},
                      NEW filter, filter = CallerFilter(request.caller, asked)
               PROVE  LET d == Person(filter)
                          listed == ListedEnclaves(filter, enclaves, terminating)
                          inserted == resolveNamespace(d, enclaves) IN
        /\ \A n \in DOMAIN enclaves \ terminating :
             /\ n \in listed <=> IF filter = Empty THEN enclaves[n] # Empty
                                 ELSE MaySeeInfo(d, enclaves[n])
             /\ CheckEnclave(TRUE, d, enclaves[n], "read") => n \in listed
        /\ inserted # Empty => inserted \in listed \cup terminating
    BY DEF ListAgreesWithInfo
  <2> DEFINE d == Person(filter)
             listed == ListedEnclaves(filter, enclaves, terminating)
  <2>1. filter \in Emails \cup {Empty}
    BY AccessAssumption DEF CallerFilter, AccessInv, Deployers
  <2>2. d.provider = "oidc" /\ d.email = filter
    BY DEF Person
  <2>3. ASSUME NEW n \in DOMAIN enclaves \ terminating
        PROVE  /\ n \in listed <=> IF filter = Empty THEN enclaves[n] # Empty
                                   ELSE MaySeeInfo(d, enclaves[n])
               /\ CheckEnclave(TRUE, d, enclaves[n], "read") => n \in listed
    <3>1. CASE filter = Empty
      <4>1. CheckEnclave(TRUE, d, enclaves[n], "read") => enclaves[n] # Empty
        BY <2>2 DEF CheckEnclave
      <4> QED BY <3>1, <4>1 DEF ListedEnclaves
    <3>2. CASE filter # Empty
      <4>1. CheckEnclave(TRUE, d, enclaves[n], "read") => n \in listed
        BY <2>1, <3>2, ReadersListed DEF ListedEnclaves
      <4>2. n \in listed <=> MaySeeInfo(d, enclaves[n])
        BY <2>2, <3>2 DEF ListedEnclaves, MaySeeInfo
      <4> QED BY <3>2, <4>1, <4>2
    <3> QED BY <3>1, <3>2
  <2> DEFINE matches == {n \in DOMAIN enclaves : IsParticipant(d, enclaves[n])}
             inserted == resolveNamespace(d, enclaves)
  <2>4. inserted # Empty => inserted \in listed \cup terminating
    <3> SUFFICES ASSUME inserted # Empty
                 PROVE  inserted \in matches
      BY DEF ListedEnclaves, IsParticipant
    <3>1. Cardinality(matches) = 1 /\ inserted = CHOOSE n \in matches : TRUE
      BY DEF resolveNamespace
    <3>2. IsFiniteSet(DOMAIN enclaves)
      BY AccessAssumption DEF AccessInv
    <3>3. IsFiniteSet(matches)
      BY <3>2, FS_Subset
    <3>4. matches # {}
      BY <3>1, <3>3, FS_EmptySet
    <3> QED BY <3>1, <3>4
  <2> QED BY <2>3, <2>4
<1> QED BY <1>1, AccessInvariant, PTL

---------------------------------------------------------------------------
(* Modes *)

\* No two positions of a mode's text stand for the same permission, and a dash
\* is no letter.
LEMMA BitsApart ==
  /\ \A i, j \in 1..9 : Bits[i] = Bits[j] => i = j
  /\ \A i \in 1..9 : Letters[i] # "-"
<1>1. \A i, j \in 1..9 : Bits[i] = Bits[j] => i = j
  BY DEF Bits
<1>2. \A i \in 1..9 : Letters[i] # "-"
  BY DEF Letters
<1> QED BY <1>1, <1>2

\* What ParseMode reads, ModeString writes.
LEMMA ModeTextBack ==
  ASSUME NEW text \in Seq(STRING), IsModeText(text)
  PROVE  ModeString(ParseMode(text)) = text
<1>1. ASSUME NEW i \in 1..9
      PROVE  Bits[i] \in ParseMode(text) <=> text[i] = Letters[i]
  BY <1>1, BitsApart DEF ParseMode
<1>2. ASSUME NEW i \in 1..9
      PROVE  ModeString(ParseMode(text))[i] = text[i]
  BY <1>1, <1>2, BitsApart DEF ModeString, IsModeText
<1>3. DOMAIN text = 1..9 /\ text = [i \in 1..9 |-> text[i]]
  BY DEF IsModeText
<1>4. ModeString(ParseMode(text)) = [i \in 1..9 |-> ModeString(ParseMode(text))[i]]
  BY DEF ModeString
<1> QED BY <1>2, <1>3, <1>4

\* A set of positions in presetPriority that is not empty has a first one.
LEMMA FirstIs ==
  ASSUME NEW S \in SUBSET (1..9), S # {}
  PROVE  Min(S) \in S
<1>1. \E k \in S : \A y \in S : k =< y
  <2> SUFFICES ASSUME \A k \in S : \E y \in S : y < k
               PROVE  FALSE
    OBVIOUS
  <2>1. 1 \notin S
    OBVIOUS
  <2>2. 2 \notin S
    BY <2>1
  <2>3. 3 \notin S
    BY <2>1, <2>2
  <2>4. 4 \notin S
    BY <2>1, <2>2, <2>3
  <2>5. 5 \notin S
    BY <2>1, <2>2, <2>3, <2>4
  <2>6. 6 \notin S
    BY <2>1, <2>2, <2>3, <2>4, <2>5
  <2>7. 7 \notin S
    BY <2>1, <2>2, <2>3, <2>4, <2>5, <2>6
  <2>8. 8 \notin S
    BY <2>1, <2>2, <2>3, <2>4, <2>5, <2>6, <2>7
  <2>9. 9 \notin S
    BY <2>1, <2>2, <2>3, <2>4, <2>5, <2>6, <2>7, <2>8
  <2>10. PICK k \in S : k \in 1..9
    OBVIOUS
  <2>11. k = 1 \/ k = 2 \/ k = 3 \/ k = 4 \/ k = 5 \/ k = 6 \/ k = 7 \/ k = 8 \/ k = 9
    BY <2>10
  <2> QED BY <2>1, <2>2, <2>3, <2>4, <2>5, <2>6, <2>7, <2>8, <2>9, <2>10, <2>11
<1> DEFINE P(x) == x \in S /\ \A y \in S : x =< y
<1>2. PICK k : P(k)
  BY <1>1
<1> HIDE DEF P
<1>3. P(CHOOSE x : P(x))
  BY <1>2
<1>4. Min(S) = CHOOSE x : P(x)
  BY DEF Min, P
<1> QED BY <1>3, <1>4 DEF P

\* The name of a preset stands for its mode.
LEMMA PresetNameBack ==
  ASSUME NEW m, PresetName(m) # Empty
  PROVE  presets[PresetName(m)] = m
<1> DEFINE hits == {i \in DOMAIN presetPriority : presets[presetPriority[i]] = m}
<1>1. hits \in SUBSET (1..9)
  BY DEF presetPriority
<1>2. hits # {} /\ PresetName(m) = presetPriority[Min(hits)]
  BY DEF PresetName
<1>3. Min(hits) \in hits
  BY <1>1, <1>2, FirstIs
<1> QED BY <1>2, <1>3

\* A mode survives being written to the annotation and read back, and a preset's
\* name stands for its mode.
THEOREM ModesAlwaysRoundTrip == Spec => []ModesRoundTrip
<1>1. AccessInv => ModesRoundTrip
  <2> SUFFICES ASSUME AccessInv, tentacle.mode # Empty, IsModeText(tentacle.mode)
               PROVE  LET m == ParseMode(tentacle.mode) IN
                      /\ ModeString(m) = tentacle.mode
                      /\ PresetName(m) # Empty => presets[PresetName(m)] = m
    BY DEF ModesRoundTrip
  <2>1. tentacle.mode \in Seq(STRING)
    BY AccessAssumption DEF AccessInv
  <2> QED BY <2>1, ModeTextBack, PresetNameBack
<1> QED BY <1>1, AccessInvariant, PTL
=============================================================================
