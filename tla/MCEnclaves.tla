----------------------------- MODULE MCEnclaves -----------------------------
(***************************************************************************)
(* Small instances of Enclaves for TLC.  Ann owns the enclave, Bob is a    *)
(* member of it, Cat is not (yet); "Bob" is Bob's address as his identity  *)
(* provider capitalises it.                                                *)
(***************************************************************************)
EXTENDS Enclaves

MCLower == [e \in Emails |-> IF e = "Bob" THEN "bob" ELSE e]

oidc(e) == [provider |-> "oidc", email |-> e]
operator == [provider |-> "bearer-token", email |-> Empty]

nothing ==
  [add |-> {}, remove |-> {}, newOwner |-> Empty, channelName |-> Empty,
   status |-> Empty, mode |-> Empty, preset |-> Empty]

request(d, p) == [name |-> "e1", deployer |-> d, params |-> p]

AnnsEnclave ==
  [owner |-> "ann", ownerSub |-> "ann", members |-> <<"bob">>,
   channelName |-> Empty, status |-> "active", defaultMode |-> Empty,
   mode |-> Empty, preset |-> "medium"]

OneEnclave == {[n \in Namespaces |-> AnnsEnclave]}
NoEnclave == {[n \in Namespaces |-> Empty]}
BobsTentacle == {[n \in Namespaces |-> [t \in Tentacles |-> "bob"]]}
NoTentacle == {[n \in Namespaces |-> [t \in Tentacles |-> Empty]]}

---------------------------------------------------------------------------
(* Requests *)

\* Every kind of change, by owners, operators and others, and refused ones.
MixedRequests ==
  {request(oidc("ann"), [nothing EXCEPT !.newOwner = "bob"]),
   request(oidc("ann"), [nothing EXCEPT !.remove = {"bob"}]),
   request(oidc("bob"), [nothing EXCEPT !.remove = {"ann"}, !.preset = "small"]),
   request(operator, [nothing EXCEPT !.preset = "large"]),
   request(operator, [nothing EXCEPT !.add = {"ann", "cat"}, !.newOwner = "cat"]),
   request(operator, [nothing EXCEPT !.add = {"bob", "ann"}, !.remove = {"cat"}]),
   request(oidc("cat"), [nothing EXCEPT !.channelName = "c1"]),
   request(oidc("ann"), [nothing EXCEPT !.add = {"cat"}, !.status = "frozen",
                                        !.mode = Invalid])}

provision(n, e, m) ==
  [name |-> n, deployer |-> oidc(e), owner |-> e, ownerSub |-> Empty,
   members |-> <<"cat">>, channelName |-> "c1", mode |-> m, preset |-> Empty]

\* Ann and Bob ask for the same names; some requests fail validation late.
MCProvisions ==
  {provision(n, e, Empty) : n \in Namespaces, e \in {"ann", "bob"}}
    \cup {provision("e1", "bob", Invalid)}

\* Bob provisions and deprovisions under two capitalisations of his address, and
\* an operator provisions for him.
BobsProvisions ==
  {provision(n, e, Empty) : n \in Namespaces, e \in {"bob", "Bob"}}
    \cup {[provision(n, "bob", Empty) EXCEPT !.deployer = operator] : n \in Namespaces}

BobsDeprovisions == {[name |-> n, deployer |-> oidc("bob")] : n \in Namespaces}

LimitSymmetry == Permutations(Namespaces) \cup Permutations(Provisioners)

MCDeprovisions ==
  {[name |-> n, deployer |-> d] : n \in Namespaces, d \in {oidc("ann"), operator}}

\* Ann hands an enclave that was just provisioned over to its member.
AnnHandsOver == {request(oidc("ann"), [nothing EXCEPT !.newOwner = "cat"])}
=============================================================================
