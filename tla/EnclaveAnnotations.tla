------------------------ MODULE EnclaveAnnotations ------------------------
(***************************************************************************)
(* What enclave_sync computes from the annotations of an enclave's         *)
(* namespace: who may change them, which requests are refused, and what    *)
(* the annotations become.  No state here: the operators are shared by     *)
(* the abstract specification (AtomicEnclave) and by the handler's model   *)
(* (EnclaveSync).                                                          *)
(*                                                                         *)
(* Emails are abstract values and ToLower is the function strings.ToLower  *)
(* on them.  The member list keeps its multiplicities (its length is what  *)
(* ValidateMembers limits) but not its order, which nothing reads.         *)
(***************************************************************************)
EXTENDS Naturals, Sequences, FiniteSets, SequencesExt

CONSTANTS
  Emails,             \* email addresses, in every capitalisation in use
  ToLower,            \* [Emails -> Emails], strings.ToLower
  Channels,           \* channel names
  Modes,              \* valid 9-character rwx strings
  Empty,              \* the empty string, an absent annotation, a nil pointer
  Invalid,            \* a string that is no mode, no preset and no status
  MaxEnclaveMembers   \* authz.MaxEnclaveMembers (100 unless configured)

ASSUME EmailsAssumption ==
  /\ IsFiniteSet(Emails)
  /\ ToLower \in [Emails -> Emails]
  /\ \A e \in Emails : ToLower[ToLower[e]] = ToLower[e]

ASSUME EmptyAssumption ==
  /\ Empty \notin Emails
  /\ Empty \notin Channels
  /\ Empty \notin Modes
  /\ MaxEnclaveMembers \in Nat

Presets == {"small", "medium", "large"}

Statuses == {"active", "frozen"}

ASSUME InvalidAssumption ==
  /\ Invalid # Empty
  /\ Invalid \notin Modes
  /\ Invalid \notin Presets
  /\ Invalid \notin Statuses

EnclaveInfo ==
  [owner       : Emails,
   ownerSub    : Emails \cup {Empty},   \* the OIDC subject, named by its email
   members     : Seq(Emails),
   channelName : Channels \cup {Empty},
   status      : Statuses,
   defaultMode : Modes \cup {Empty},
   mode        : Modes \cup {Empty},    \* tentacular.io/mode of the namespace
   preset      : Presets]

ASSUME NoInfoAssumption == Empty \notin EnclaveInfo

\* The caller: a nil deployer (authz disabled), the bearer token, or an OIDC
\* identity with or without an email claim.
Deployers ==
  [provider : {"none", "bearer-token", "oidc"}, email : Emails \cup {Empty}]

\* EnclaveSyncParams.  The two member lists are read as sets by the handler.
SyncParams ==
  [add         : SUBSET Emails,
   remove      : SUBSET Emails,
   newOwner    : Emails \cup {Empty},
   channelName : Channels \cup {Empty},
   status      : Statuses \cup {Empty, Invalid},
   mode        : Modes \cup {Empty, Invalid},
   preset      : Presets \cup {Empty, Invalid}]

---------------------------------------------------------------------------
(* Member lists *)

\* ParseMembers: every entry of the stored list, lowercased.
ParseMembers(stored) == [i \in DOMAIN stored |-> ToLower[stored[i]]]

\* The entries of a list that are not in the set out (exact comparison).
Without(list, out) ==
  LET kept == SetToSeq({i \in DOMAIN list : list[i] \notin out})
  IN  [k \in DOMAIN kept |-> list[kept[k]]]

\* Mutant: the owner can be added.
AddMembersOwnerToo(list, owner, add) == list \o SetToSeq(add \ Range(list))

\* The list after the add_members loop: each new entry once, never the owner;
\* all comparisons are exact, so another capitalisation is a new entry.
AddMembers(list, owner, add) ==
  list \o SetToSeq(add \ (Range(list) \cup {owner}))

ValidateMembers(list) == Len(list) <= MaxEnclaveMembers

\* isEnclaveParticipant: the stored entries are compared as they are, the
\* owner and the email lowercased.
isEnclaveParticipant(owner, list, email) ==
  \/ ToLower[owner] = ToLower[email]
  \/ ToLower[email] \in Range(list)

---------------------------------------------------------------------------
(* The stages of attemptEnclaveSync *)

isOwnerOp(p) ==
  \/ p.newOwner # Empty
  \/ p.add # {}
  \/ p.remove # {}
  \/ p.status # Empty
  \/ p.mode # Empty
  \/ p.preset # Empty

\* Only the owner passes; the comparison is exact.  Operators and calls made
\* with authorization disabled are not checked.
ownerCheck(d, info) ==
  d.provider = "oidc" => (d.email # Empty /\ d.email = info.owner)

\* The members once additions are applied, and once removals are.
addedMembers(info, p) ==
  IF p.add = {} THEN ParseMembers(info.members)
                ELSE AddMembers(ParseMembers(info.members), info.owner, p.add)

remainingMembers(info, p) ==
  IF p.remove = {} THEN addedMembers(info, p)
                   ELSE Without(addedMembers(info, p), p.remove)

\* The checks made before the handler touches anything.
AcceptedEarly(d, p, info) ==
  /\ isOwnerOp(p) => ownerCheck(d, info)
  /\ p.add # {} => ValidateMembers(addedMembers(info, p))

\* Mutant: the mode is not parsed.
AcceptedLateAnyMode(p, info) ==
  /\ p.newOwner # Empty =>
       /\ p.newOwner # info.owner
       /\ isEnclaveParticipant(info.owner, remainingMembers(info, p), p.newOwner)
  /\ p.status # Invalid
  /\ p.preset # Invalid
  /\ isOwnerOp(p) \/ p.channelName # Empty

\* The checks made after the tentacles of removed members are transferred.
AcceptedLate(p, info) ==
  /\ p.newOwner # Empty =>
       /\ p.newOwner # info.owner
       /\ isEnclaveParticipant(info.owner, remainingMembers(info, p), p.newOwner)
  /\ p.status # Invalid
  /\ p.mode # Invalid
  /\ p.preset # Invalid
  /\ isOwnerOp(p) \/ p.channelName # Empty

OrElse(new, old) == IF new = Empty THEN old ELSE new

\* The annotations an accepted request writes.
SyncedInfo(p, info) ==
  [owner       |-> OrElse(p.newOwner, info.owner),
   ownerSub    |-> IF p.newOwner = Empty THEN info.ownerSub ELSE Empty,
   members     |-> IF p.newOwner = Empty THEN remainingMembers(info, p)
                   ELSE Append(Without(remainingMembers(info, p), {p.newOwner}),
                               info.owner),
   channelName |-> OrElse(p.channelName, info.channelName),
   status      |-> OrElse(p.status, info.status),
   defaultMode |-> OrElse(p.mode, info.defaultMode),
   mode        |-> OrElse(p.mode, info.mode),
   preset      |-> OrElse(p.preset, info.preset)]
=============================================================================
