--------------------------- MODULE MCExoskeleton ---------------------------
(***************************************************************************)
(* A small instance of Exoskeleton for TLC: two tentacles with roles of    *)
(* their own, deployed with all dependencies, with one or with none.       *)
(***************************************************************************)
EXTENDS Exoskeleton, TLC

OwnRole == [w \in Flows |-> w]

MCContracts == {{}, {"postgres"}, {"nats", "postgres", "rustfs"}}

\* Everything is configured, or NATS with a token and Postgres, and no cleanup.
MCConfigs ==
  {[services |-> AllServices, spiffe |-> TRUE, spire |-> TRUE, cleanup |-> TRUE],
   [services |-> {"nats", "postgres"}, spiffe |-> FALSE, spire |-> FALSE,
    cleanup |-> FALSE]}

\* The callers are alike.
CallerSymmetry == Permutations(Callers)
=============================================================================
