-------------------------- MODULE MCAccessControl --------------------------
(***************************************************************************)
(* A small instance of AccessControl for TLC: Ann's enclave e1 with Bob as *)
(* its member, in various capitalisations, beside Bob's enclave or a       *)
(* namespace that is no enclave.                                           *)
(***************************************************************************)
EXTENDS AccessControl

MCLower ==
  [e \in Emails |-> CASE e = "Ann" -> "ann" [] e = "Bob" -> "bob" [] OTHER -> e]

enclave(o, m, mode) ==
  [owner |-> o, ownerSub |-> Empty, members |-> m, channelName |-> Empty,
   status |-> "active", defaultMode |-> Empty, mode |-> mode, preset |-> "small"]

\* Modes that differ in what the enclave's members and others may do.
EnclaveModes ==
  {ModeString(presets[p]) : p \in {"private", "group-run", "open-run"}}

MCClusters ==
  {[n \in {"e1", "e2"} |-> IF n = "e1" THEN a ELSE b] :
     a \in {enclave("Ann", m, mode) :
              m \in {<<"Bob">>, <<"bob", "ann">>}, mode \in EnclaveModes \cup {Empty}},
     b \in {Empty, enclave("bob", <<"ann">>, Empty)}}

\* Half of all modes, no mode, and a text that is none.
MCTentacleModes ==
  {ModeString(o \cup g \cup x) :
     o \in {Full("owner"), {<<"owner", "read">>}},
     g \in SUBSET Full("group"), x \in SUBSET Full("other")}
    \cup {Empty, <<"r">>}

MCCallers ==
  {[provider |-> "none", email |-> Empty],
   [provider |-> "bearer-token", email |-> Empty]}
    \cup [provider : {"oidc"}, email : Emails \cup {Empty}]
=============================================================================
