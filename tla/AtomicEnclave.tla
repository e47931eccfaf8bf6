--------------------------- MODULE AtomicEnclave ---------------------------
(***************************************************************************)
(* What the enclave tools promise about an enclave's annotations: they     *)
(* change only as if each successful enclave_sync ran alone, at one        *)
(* instant, allowed by the annotations of that instant.  Besides,          *)
(* enclave_provision writes the annotations of a new enclave, and they     *)
(* disappear with the namespace.                                           *)
(***************************************************************************)
EXTENDS EnclaveAnnotations

CONSTANTS
  Namespaces,
  Requests,     \* the enclave_sync requests that callers may make
  NewEnclaves   \* the annotations enclave_provision may write

VARIABLE enclave   \* [Namespaces -> EnclaveInfo \cup {Empty}]

Init == enclave \in [Namespaces -> EnclaveInfo \cup {Empty}]

Sync(r) ==
  /\ enclave[r.name] # Empty
  /\ AcceptedEarly(r.deployer, r.params, enclave[r.name])
  /\ AcceptedLate(r.params, enclave[r.name])
  /\ enclave' = [enclave EXCEPT ![r.name] = SyncedInfo(r.params, enclave[r.name])]

Provision(n) ==
  \E info \in NewEnclaves : enclave' = [enclave EXCEPT ![n] = info]

Disappear(n) ==
  /\ enclave[n] # Empty
  /\ enclave' = [enclave EXCEPT ![n] = Empty]

Next ==
  \/ \E r \in Requests : Sync(r)
  \/ \E n \in Namespaces : Provision(n) \/ Disappear(n)

Spec == Init /\ [][Next]_enclave
=============================================================================
