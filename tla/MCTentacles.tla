---------------------------- MODULE MCTentacles ----------------------------
(***************************************************************************)
(* A small instance of Tentacles for TLC: Ann's enclave e1, whose members  *)
(* Bob and Cat deploy the tentacle t1 while Ann removes Bob and freezes    *)
(* the enclave; and Cat deploys and removes t2, with t1's Deployment in    *)
(* the manifests.                                                          *)
(***************************************************************************)
EXTENDS Tentacles

MCLower == [e \in Emails |-> e]

MCModes ==
  {ModeString(presets[p]) : p \in {"private", "group-read", "group-edit", "open-read"}}

oidc(e) == [provider |-> "oidc", email |-> e]
operator == [provider |-> "bearer-token", email |-> Empty]
anonymous == [provider |-> "none", email |-> Empty]

annotations(e, mode) == [owner |-> e, ownerSub |-> e, mode |-> mode]

apply(t, d, mode, manifests, own, content) ==
  [op |-> "apply", name |-> "e1", tentacle |-> t, deployer |-> d, mode |-> mode,
   manifests |-> manifests, own |-> own, content |-> content]

other(op, t, d) == [op |-> op, name |-> "e1", tentacle |-> t, deployer |-> d]

MCApply ==
  LET none == annotations(Empty, Empty) IN
  {apply("t1", oidc("bob"), Empty, {"t1", "configmap"}, none, "v1"),
   apply("t1", oidc("cat"), ModeString(presets["open-read"]), {"t1"},
         annotations("cat", Unreadable), "v2"),
   apply("t1", operator, Unreadable, {"configmap"}, none, "v2"),
   apply("t2", oidc("cat"), Empty, {"t1", "t2"}, none, "v2")}

MCOther ==
  {other("remove", "t1", oidc("bob")), other("remove", "t2", oidc("cat")),
   other("restart", "t1", oidc("bob")), other("run", "t1", oidc("cat")),
   other("run", "t1", anonymous)}

nothing ==
  [add |-> {}, remove |-> {}, newOwner |-> Empty, channelName |-> Empty,
   status |-> Empty, mode |-> Empty, preset |-> Empty]

ask(p) == [name |-> "e1", deployer |-> oidc("ann"), params |-> p]

\* Ann removes Bob and freezes the enclave.
MCSyncs == {ask([nothing EXCEPT !.remove = {"bob"}, !.status = "frozen"])}

MCEnclave ==
  [owner |-> "ann", ownerSub |-> "ann", members |-> <<"bob", "cat">>,
   channelName |-> Empty, status |-> "active", defaultMode |-> Empty,
   mode |-> Empty, preset |-> "medium"]

\* t1 is Bob's, not there yet, nobody's, or Ann's and without a mode.
MCInitial ==
  {[enclaves |-> [n \in Namespaces |-> MCEnclave],
    tentacles |-> [t \in Tentacles |-> IF t = "t1" THEN a ELSE Empty]] :
     a \in {annotations("bob", ModeString(presets["private"])), Empty,
            annotations(Empty, Empty), annotations("ann", Empty)}}

\* The callers are alike.
CallerSymmetry == Permutations(Callers)
=============================================================================
