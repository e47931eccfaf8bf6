------------------------------ MODULE Identity ------------------------------
(***************************************************************************)
(* The identity compiler (pkg/exoskeleton/identity.go): the names a        *)
(* tentacle and its enclave are given in the backing services, computed    *)
(* from the name of the namespace and of the workflow.  Names are          *)
(* sequences of characters, because what matters is which names collide;   *)
(* fixed parts ("tn_", "tentacular.") are single characters.               *)
(***************************************************************************)
EXTENDS Naturals, Sequences, SequencesExt

CONSTANTS
  MaxIdentLen,        \* maxPgIdentLen and maxS3BucketLen (63)
  SuffixLen           \* separator and hash (9)

ASSUME IdentityAssumption ==
  /\ MaxIdentLen \in Nat /\ SuffixLen \in Nat
  /\ SuffixLen < MaxIdentLen

\* What strings.ToLower makes of upper-case letters.
Lower ==
  [A |-> "a", B |-> "b", C |-> "c", D |-> "d", E |-> "e", F |-> "f", G |-> "g",
   H |-> "h", I |-> "i", J |-> "j", K |-> "k", L |-> "l", M |-> "m", N |-> "n",
   O |-> "o", P |-> "p", Q |-> "q", R |-> "r", S |-> "s", T |-> "t", U |-> "u",
   V |-> "v", W |-> "w", X |-> "x", Y |-> "y", Z |-> "z"]

pgChar(c) == IF c = "-" THEN "_" ELSE IF c \in DOMAIN Lower THEN Lower[c] ELSE c

\* Other characters are dropped: of the names that CheckName lets through, dots.
replacePg(name) ==
  LET s == [i \in DOMAIN name |-> pgChar(name[i])] IN
  IF "." \in Range(s) THEN SelectSeq(s, LAMBDA c : c # ".") ELSE s

\* Mutant: a name that is too long is cut, without the hash of what it was.
CutShort(raw) ==
  [text |-> SubSeq(raw, 1, IF Len(raw) <= MaxIdentLen THEN Len(raw)
                           ELSE MaxIdentLen - SuffixLen),
   hash |-> <<>>]

\* truncatePg and truncateS3Bucket; the hash stands for what is hashed, that is,
\* the 32 bits are taken to be enough.
Truncated(raw) ==
  IF Len(raw) <= MaxIdentLen
  THEN [text |-> raw, hash |-> <<>>]
  ELSE [text |-> SubSeq(raw, 1, MaxIdentLen - SuffixLen), hash |-> raw]

sanitizePg(namespace, workflow) ==
  Truncated(<<"tn_">> \o replacePg(namespace) \o <<"_">> \o replacePg(workflow))

\* Names with an empty part are refused before anything is compiled.
ValidTentacle(t) == t.namespace # <<>> /\ t.workflow # <<>>

CompileIdentity(t) ==
  LET pgBase == sanitizePg(t.namespace, t.workflow) IN
  [Principal |-> <<"spiffe://tentacular/ns/">> \o t.namespace \o <<"/tentacles/">>
                   \o t.workflow,
   PgRole |-> pgBase, PgSchema |-> pgBase, S3User |-> pgBase,
   NATSUser |-> <<"tentacle.">> \o t.namespace \o <<".">> \o t.workflow,
   NATSPrefix |-> <<"tentacular.">> \o t.namespace \o <<".">> \o t.workflow \o <<".">>,
   S3Prefix |-> <<"ns/">> \o t.namespace \o <<"/tentacles/">> \o t.workflow \o <<"/">>,
   S3Policy |-> Truncated(<<"tn_">> \o replacePg(t.namespace) \o <<"_">>
                            \o replacePg(t.workflow) \o <<"_policy">>)]

CompileEnclaveIdentity(enclave) ==
  [PgDB |-> Truncated(<<"tn_">> \o replacePg(enclave)),
   S3Bucket |-> Truncated(<<"tentacular-">> \o enclave),
   NATSAcct |-> <<"tentacular.">> \o enclave]

---------------------------------------------------------------------------
(* What the names are for *)

\* The names of Kubernetes objects such as Services: neither dots nor underscores
\* nor upper case.  Namespaces have such names, workflows need not.
IsDnsLabel(name) == Range(name) \cap ({".", "_"} \cup DOMAIN Lower) = {}

\* No object of one tentacle is under the prefix of the other, and they are
\* different users of NATS and different principals.
Disjoint(s, t) ==
  LET a == CompileIdentity(s)  b == CompileIdentity(t) IN
  /\ ~IsPrefix(a.S3Prefix, b.S3Prefix)
  /\ a.NATSUser # b.NATSUser
  /\ a.Principal # b.Principal

\* s may not use the subjects of t.
SubjectsApart(s, t) ==
  ~IsPrefix(CompileIdentity(s).NATSPrefix, CompileIdentity(t).NATSPrefix)

\* Two tentacles have no database object and no storage account in common.
DifferentAccounts(s, t) ==
  LET a == CompileIdentity(s)  b == CompileIdentity(t) IN
  a.PgRole # b.PgRole /\ a.S3User # b.S3User /\ a.S3Policy # b.S3Policy

\* Two enclaves share neither database nor bucket nor account.
DifferentEnclaves(d, e) ==
  LET a == CompileEnclaveIdentity(d)  b == CompileEnclaveIdentity(e) IN
  a.PgDB # b.PgDB /\ a.S3Bucket # b.S3Bucket /\ a.NATSAcct # b.NATSAcct
=============================================================================
