---------------------- MODULE MCScheduledWorkflows ----------------------
(***************************************************************************)
(* Small instances of ScheduledWorkflows for TLC.                          *)
(***************************************************************************)
EXTENDS ScheduledWorkflows

\* All workflows are in one namespace.
OneNamespace == [w \in Workflows |-> "n1"]

\* Deployments labelled with their own name, or all with the first one's.
OwnLabel == [w \in Workflows |-> w]
SharedLabel == [w \in Workflows |-> "w1"]
=============================================================================
