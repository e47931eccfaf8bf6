--------------------------- MODULE AtomicRegistry ---------------------------
(***************************************************************************)
(* What the NATS authorization file is meant to be: a set of principals to *)
(* which each registration adds its own and from which each removal takes  *)
(* its own, and nothing else.                                              *)
(***************************************************************************)
CONSTANT Flows

VARIABLE entries

Init == entries = {}

Add(w) == entries' = entries \cup {w}

Drop(w) == entries' = entries \ {w}

Next == \E w \in Flows : Add(w) \/ Drop(w)

Spec == Init /\ [][Next]_entries
=============================================================================
