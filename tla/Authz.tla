------------------------------- MODULE Authz -------------------------------
(***************************************************************************)
(* The authorization evaluator (pkg/authz) and the checks the tool         *)
(* handlers build from it (pkg/tools/authz_helpers.go).  Pure operators: a *)
(* caller, the annotations of an enclave's namespace and those of a        *)
(* tentacle's Deployment go in, a decision comes out.                      *)
(*                                                                         *)
(* A mode is the set of its permissions; its text is a sequence of nine    *)
(* characters, as the tentacular.io/mode annotation keeps it.              *)
(***************************************************************************)
EXTENDS EnclaveAnnotations

Actions == {"read", "write", "execute"}

Permissions == {"owner", "group", "other"} \X Actions

\* The permission and the letter of each position of a mode's text.
Bits ==
  <<<<"owner", "read">>, <<"owner", "write">>, <<"owner", "execute">>,
    <<"group", "read">>, <<"group", "write">>, <<"group", "execute">>,
    <<"other", "read">>, <<"other", "write">>, <<"other", "execute">>>>

Letters == <<"r", "w", "x", "r", "w", "x", "r", "w", "x">>

ModeString(m) == [i \in 1..9 |-> IF Bits[i] \in m THEN Letters[i] ELSE "-"]

\* ParseMode succeeds on these texts ...
IsModeText(text) ==
  /\ Len(text) = 9
  /\ \A i \in 1..9 : text[i] \in {Letters[i], "-"}

\* Mutant: the last position is not read.
ParseModeShort(text) == {Bits[i] : i \in {j \in 1..8 : text[j] = Letters[j]}}

\* ... and returns this mode.
ParseMode(text) == {Bits[i] : i \in {j \in 1..9 : text[j] = Letters[j]}}

Full(class) == {class} \X Actions

\* The named modes; the owner has full access in all of them.
presets ==
  [name \in {"private", "group-read", "group-run", "group-edit", "public-read",
             "member-read", "member-edit", "open-read", "open-run"} |->
    Full("owner") \cup
    CASE name = "private" -> {}
      [] name \in {"group-read", "member-read"} ->
           {<<"group", "read">>, <<"group", "execute">>}
      [] name = "group-run" -> {<<"group", "execute">>}
      [] name \in {"group-edit", "member-edit"} -> Full("group")
      [] name = "public-read" -> {<<"group", "read">>, <<"other", "read">>}
      [] name = "open-read" -> Full("group") \cup {<<"other", "read">>}
      [] name = "open-run" ->
           Full("group") \cup {<<"other", "read">>, <<"other", "execute">>}]

DefaultMode == presets["group-read"]
DefaultEnclaveMode == presets["member-edit"]

presetPriority ==
  <<"private", "member-edit", "member-read", "group-run", "open-read",
    "open-run", "public-read", "group-edit", "group-read">>

\* The first name in presetPriority with this mode.
PresetName(m) ==
  LET hits == {i \in DOMAIN presetPriority : presets[presetPriority[i]] = m}
  IN  IF hits = {} THEN Empty ELSE presetPriority[Min(hits)]

\* The mode an annotation stands for, default when it is absent or unreadable.
ModeOr(text, default) ==
  IF text # Empty /\ IsModeText(text) THEN ParseMode(text) ELSE default

---------------------------------------------------------------------------
(* The evaluator.  info is the EnclaveInfo of the namespace, Empty when it   *)
(* is not an enclave; t has the owner and mode annotations of a Deployment.  *)

Lower(e) == IF e = Empty THEN Empty ELSE ToLower[e]

checkBits(mode, action, class) == <<class, action>> \in mode

IsMember(d, info) == Lower(d.email) \in Range(ParseMembers(info.members))

IsEnclaveOwner(d, info) == Lower(d.email) = Lower(info.owner)

\* requireDeployer: an anonymous call passes only when authorization is off.
requireDeployer(enabled, d) == d.provider # "none" \/ ~enabled

\* Mutant: the caller's email is compared as it is.
CheckEnclaveExact(enabled, d, info, action) ==
  \/ ~enabled
  \/ d.provider = "bearer-token"
  \/ /\ d.provider = "oidc"
     /\ info # Empty
     /\ \/ d.email = Lower(info.owner)
        \/ checkBits(ModeOr(info.mode, DefaultEnclaveMode), action,
                     IF IsMember(d, info) THEN "group" ELSE "other")

\* CheckEnclave: the enclave's owner may do anything, a member what the group
\* bits of the enclave's mode say, anybody else what the other bits say.
CheckEnclave(enabled, d, info, action) ==
  \/ ~enabled
  \/ d.provider = "bearer-token"
  \/ /\ d.provider = "oidc"
     /\ info # Empty
     /\ \/ IsEnclaveOwner(d, info)
        \/ checkBits(ModeOr(info.mode, DefaultEnclaveMode), action,
                     IF IsMember(d, info) THEN "group" ELSE "other")

\* The tentacle layer: its owner, then the enclave's members, then the others.
TentacleClass(d, info, t) ==
  CASE t.owner # Empty /\ Lower(d.email) = Lower(t.owner) -> "owner"
    [] IsMember(d, info) -> "group"
    [] OTHER -> "other"

\* CheckTentacle (and checkAuthz): the enclave's owner may do anything, everyone
\* else must pass the enclave's mode and the tentacle's.
CheckTentacle(enabled, d, info, t, action) ==
  \/ ~enabled
  \/ d.provider = "bearer-token"
  \/ /\ d.provider = "oidc"
     /\ info # Empty
     /\ \/ IsEnclaveOwner(d, info)
        \/ /\ CheckEnclave(enabled, d, info, action)
           /\ checkBits(ModeOr(t.mode, DefaultEnclaveMode), action,
                        TentacleClass(d, info, t))

\* checkNamespaceAuthz: a namespace that is not there (any more) is let through.
checkNamespaceAuthz(enabled, d, exists, info, action) ==
  ~exists \/ CheckEnclave(enabled, d, info, action)

---------------------------------------------------------------------------
(* What the handlers make of it.  enclaves maps each managed namespace to    *)
(* its EnclaveInfo.                                                          *)

IsParticipant(d, info) ==
  /\ info # Empty
  /\ d.email # Empty
  /\ isEnclaveParticipant(info.owner, ParseMembers(info.members), d.email)

\* resolveNamespace without a namespace: the caller's only enclave, or none.
resolveNamespace(d, enclaves) ==
  LET matches == {n \in DOMAIN enclaves : IsParticipant(d, enclaves[n])}
  IN  IF Cardinality(matches) = 1 THEN CHOOSE n \in matches : TRUE ELSE Empty

OtherMayRead(info) ==
  <<"other", "read">> \in ModeOr(info.mode, DefaultEnclaveMode)

\* handleEnclaveInfo answers the caller.
MaySeeInfo(d, info) ==
  /\ info # Empty
  /\ \/ d.provider # "oidc"
     \/ IsParticipant(d, info)
     \/ OtherMayRead(info)

\* enclave_list's filter: the caller's own address, even if he has none; an
\* operator, and an anonymous caller, choose.
CallerFilter(d, asked) == IF d.provider = "oidc" THEN d.email ELSE asked

Person(email) == [provider |-> "oidc", email |-> email]

\* Mutant: only the enclaves the address takes part in.
ListedEnclavesOwn(filter, enclaves, terminating) ==
  {n \in DOMAIN enclaves \ terminating :
     /\ enclaves[n] # Empty
     /\ filter = Empty \/ IsParticipant(Person(filter), enclaves[n])}

\* handleEnclaveList: without a filter every enclave is listed.
ListedEnclaves(filter, enclaves, terminating) ==
  {n \in DOMAIN enclaves \ terminating :
     /\ enclaves[n] # Empty
     /\ \/ filter = Empty
        \/ IsParticipant(Person(filter), enclaves[n])
        \/ OtherMayRead(enclaves[n])}

\* Mutant: the tentacle's own mode is forgotten.
WfListedLoosely(enabled, d, info, t) == CheckEnclave(enabled, d, info, "read")

\* handleWfList and handleWfHealthNs show t: the enclave is checked first, then
\* every tentacle.  What they filter out for everybody (Deployments that are not
\* labelled as managed, system namespaces) is not t.
WfListed(enabled, d, info, t) ==
  /\ CheckEnclave(enabled, d, info, "read")
  /\ CheckTentacle(enabled, d, info, t, "read")

\* handleWfDescribe, handleWfHealth and wf_status answer the caller.
MayDescribe(enabled, d, info, t) == CheckTentacle(enabled, d, info, t, "read")
=============================================================================
