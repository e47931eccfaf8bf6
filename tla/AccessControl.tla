--------------------------- MODULE AccessControl ---------------------------
(***************************************************************************)
(* Callers with and without an identity ask for access to the enclaves of  *)
(* a cluster and to a tentacle in one of them, whatever the annotations    *)
(* say: the decisions of the separate checks of Authz must fit together.   *)
(***************************************************************************)
EXTENDS Authz

CONSTANTS
  Home,            \* the namespace of the tentacle
  Clusters,        \* possible annotations: functions from namespaces
  TentacleOwners,  \* values of the tentacle's owner annotation
  TentacleModes,   \* values of its mode annotation, unreadable ones included
  Callers

ASSUME AccessAssumption ==
  /\ Callers \subseteq Deployers
  /\ \A c \in Clusters : Home \in DOMAIN c /\ IsFiniteSet(DOMAIN c)
  /\ TentacleModes \subseteq Seq(STRING) \cup {Empty}

VARIABLES
  enabled,       \* Evaluator.Enabled
  enclaves,      \* the annotations of the managed namespaces
  terminating,   \* the namespaces that are being deleted
  tentacle,      \* the owner and mode annotations of the Deployment
  request        \* the request being authorized, Empty when there is none

vars == <<enabled, enclaves, terminating, tentacle, request>>

Init ==
  /\ enabled \in BOOLEAN
  /\ enclaves \in Clusters
  /\ terminating \in SUBSET {Home}
  /\ tentacle \in [owner : TentacleOwners, mode : TentacleModes]
  /\ request = Empty

\* The middleware has attached the caller's identity; requireDeployer lets the
\* call in.
Ask(d, a) ==
  /\ request = Empty
  /\ requireDeployer(enabled, d)
  /\ request' = [caller |-> d, action |-> a]
  /\ UNCHANGED <<enabled, enclaves, terminating, tentacle>>

\* The call returns.
Answer ==
  /\ request # Empty
  /\ request' = Empty
  /\ UNCHANGED <<enabled, enclaves, terminating, tentacle>>

Next ==
  \/ \E d \in Callers, a \in Actions : Ask(d, a)
  \/ Answer

Spec == Init /\ [][Next]_vars

---------------------------------------------------------------------------
(* Properties *)

Enclave == enclaves[Home]

\* An address is the same person in every capitalisation, for the enclave's
\* check, the tentacle's, and for who takes part in the enclave: some of the
\* comparisons lowercase both sides, some rely on a list lowercased earlier.
CaseBlind ==
  request # Empty =>
    \A e \in Emails :
      LET d == request.caller
          other == [d EXCEPT !.email = e] IN
      Lower(d.email) = Lower(e) =>
        /\ CheckEnclave(enabled, d, Enclave, request.action)
             = CheckEnclave(enabled, other, Enclave, request.action)
        /\ CheckTentacle(enabled, d, Enclave, tentacle, request.action)
             = CheckTentacle(enabled, other, Enclave, tentacle, request.action)
        /\ IsParticipant(d, Enclave) = IsParticipant(other, Enclave)

\* wf_list shows a tentacle to exactly the callers wf_describe, wf_status and
\* wf_health answer, although it makes the two checks itself, at other places.
ListedIffDescribed ==
  request # Empty =>
    (WfListed(enabled, request.caller, Enclave, tentacle)
       <=> MayDescribe(enabled, request.caller, Enclave, tentacle))

\* enclave_list, given an address by an operator or forced to the caller's own,
\* lists exactly the enclaves (terminating ones aside) that enclave_info shows the
\* person with this address, and among them all he may read according to the
\* evaluator, which neither tool consults, and the one that is inserted when he
\* names none.  Without an address every enclave is listed: so it is for a token
\* without an email claim, whose bearer enclave_info refuses.
ListAgreesWithInfo ==
  request # Empty =>
    \A asked \in Emails \cup {Empty} :
      LET filter == CallerFilter(request.caller, asked)
          d == Person(filter)
          listed == ListedEnclaves(filter, enclaves, terminating)
          inserted == resolveNamespace(d, enclaves) IN
      /\ \A n \in DOMAIN enclaves \ terminating :
           /\ n \in listed <=> IF filter = Empty THEN enclaves[n] # Empty
                               ELSE MaySeeInfo(d, enclaves[n])
           /\ CheckEnclave(TRUE, d, enclaves[n], "read") => n \in listed
      /\ inserted # Empty => inserted \in listed \cup terminating

\* A mode survives being written to the annotation and read back, and a preset's
\* name stands for its mode.
ModesRoundTrip ==
  (tentacle.mode # Empty /\ IsModeText(tentacle.mode)) =>
    LET m == ParseMode(tentacle.mode) IN
    /\ ModeString(m) = tentacle.mode
    /\ PresetName(m) # Empty => presets[PresetName(m)] = m
=============================================================================
