---------------------------- MODULE Exoskeleton ----------------------------
(***************************************************************************)
(* The exoskeleton (pkg/exoskeleton): wf_apply registers a tentacle with   *)
(* the backing services its contract names, each registration making new   *)
(* credentials, and writes them to the tentacle's Secret with the other    *)
(* manifests; wf_remove deletes the Secret and unregisters.  Every call to *)
(* a service or to Kubernetes is a step, and may fail with or without      *)
(* having had its effect; the server may crash between any two.            *)
(*                                                                         *)
(* The services are external.  A credential is a number that is never used *)
(* twice, 0 stands for none.                                               *)
(***************************************************************************)
EXTENDS Naturals, FiniteSets, FiniteSetsExt

CONSTANTS
  Flows,              \* tentacles (namespace and workflow)
  PgRole,             \* CompileIdentity: the Postgres role of each
  Contracts,          \* dependency sets the manifests may declare
  Configs,            \* configurations of the server
  Callers,            \* wf_apply and wf_remove calls that may be in flight
  MaxCalls,           \* bound: calls in a behaviour
  MaxCrashes,         \* bound: crashes of the server
  Faults,             \* BOOLEAN: may calls to the services fail?
  None

AllServices == {"nats", "postgres", "rustfs"}

ASSUME ExoAssumption ==
  /\ Configs \subseteq
       [services : SUBSET AllServices, spiffe : BOOLEAN, spire : BOOLEAN,
        cleanup : BOOLEAN]
  /\ Contracts \subseteq SUBSET AllServices
  /\ DOMAIN PgRole = Flows
  /\ Faults \in BOOLEAN
  /\ MaxCalls \in Nat /\ MaxCrashes \in Nat
  /\ None \notin Flows

Roles == {PgRole[w] : w \in Flows}

VARIABLES
  config,     \* the registrars that are initialised, SPIFFEEnabled of NATS, and
              \* CleanupOnUndeploy
  pg,         \* the password of each role, 0 when it does not exist
  authz,      \* the ConfigMap with the NATS authorization entries
  s3,         \* the RustFS user, its canned policy and whether it is attached
  spire,      \* tentacles with a ClusterSPIFFEID
  secret,     \* the credentials in the Secret of each tentacle
  call,
  fresh,      \* the next credential
  callCount, crashes,
  settled     \* history: the last call of each tentacle, if it succeeded alone;
              \* "plain" is a wf_apply without dependencies

vars == <<config, pg, authz, s3, spire, secret, call, fresh, callCount, crashes,
          settled>>

NoCreds == [d \in AllServices |-> 0]

\* deps are the services still to be registered with (or unregistered from);
\* creds what Register returned so far; seen the
\* ConfigMap that was read; failed whether a service could not be cleaned up;
\* alone (history) whether no other call for the tentacle overlapped it.
NoCall ==
  [pc |-> "idle", op |-> None, flow |-> None, contract |-> {}, deps |-> {},
   creds |-> NoCreds, seen |-> None, failed |-> FALSE, alone |-> TRUE]

Init ==
  /\ config \in Configs
  /\ pg = [r \in Roles |-> 0]
  /\ authz = [exists |-> FALSE, rv |-> 0, entries |-> {}]
  /\ s3 = [w \in Flows |-> [key |-> 0, policy |-> FALSE, attached |-> FALSE]]
  /\ spire = {}
  /\ secret = [w \in Flows |-> NoCreds]
  /\ call = [h \in Callers |-> NoCall]
  /\ fresh = 1
  /\ callCount = 0 /\ crashes = 0
  /\ settled = [w \in Flows |-> "remove"]

serviceVars == <<pg, authz, s3, spire, secret, fresh>>

---------------------------------------------------------------------------
(* Calls *)

Busy(h) == call[h].pc # "idle"
Flow(h) == call[h].flow

\* The order in which a call goes through the services.
Order(op) ==
  IF op = "apply" THEN <<"nats", "postgres", "rustfs">>
                  ELSE <<"postgres", "nats", "rustfs">>

\* The call goes on to the first of the services that are left, then to SPIRE.
Turn(c, rest) ==
  LET left == {i \in 1..3 : Order(c.op)[i] \in rest}
      service == Order(c.op)[Min(left)] IN
  [c EXCEPT !.deps = rest, !.seen = None,
            !.pc = CASE rest = {} -> "spire"
                     [] rest # {} /\ service = "nats" -> "natsGet"
                     [] rest # {} /\ service = "postgres" -> "postgres"
                     [] rest # {} /\ service = "rustfs" ->
                          IF c.op = "apply" THEN "addUser" ELSE "removeUser"]

Continue(h, c) ==
  /\ call' = [call EXCEPT ![h] = c]
  /\ UNCHANGED settled

\* The handler returns.
Return(h, ok) ==
  /\ call' = [call EXCEPT ![h] = NoCall]
  /\ settled' = [settled EXCEPT ![Flow(h)] =
       IF ~ok \/ ~call[h].alone THEN "unknown"
       ELSE IF call[h].op = "apply" /\ call[h].contract = {} THEN "plain"
       ELSE call[h].op]

\* A call starts; calls for the same tentacle that are in flight overlap it.
Begin(h, c) ==
  LET rivals == {g \in Callers : Busy(g) /\ Flow(g) = c.flow} IN
  /\ ~Busy(h)
  /\ callCount < MaxCalls
  /\ callCount' = callCount + 1
  /\ call' = [g \in Callers |->
       IF g = h THEN [c EXCEPT !.alone = (rivals = {})]
       ELSE IF g \in rivals THEN [call[g] EXCEPT !.alone = FALSE]
       ELSE call[g]]
  /\ UNCHANGED <<serviceVars, crashes, config, settled>>

\* wf_apply reaches ProcessManifests.  Without dependencies there is nothing to
\* register; a service that is not configured is an error before its turn comes.
Apply(h, w, deps) ==
  Begin(h, LET c == [NoCall EXCEPT !.op = "apply", !.flow = w, !.contract = deps]
           IN  IF deps = {} THEN [c EXCEPT !.pc = "secret"] ELSE Turn(c, deps))

\* wf_remove: the Secret goes first, with the other objects of the release.
RemoveFlow(h, w) ==
  Begin(h, [NoCall EXCEPT !.op = "remove", !.flow = w, !.pc = "secret"])

\* The service each step of a call deals with.
ServiceOf ==
  [natsGet |-> "nats", natsPut |-> "nats", postgres |-> "postgres",
   addUser |-> "rustfs", addPolicy |-> "rustfs", setPolicy |-> "rustfs",
   removePolicy |-> "rustfs"]

\* Mutant: the error is noted, but the call does not go on.
GivenStuck(h, d) == Continue(h, [call[h] EXCEPT !.pc = "failed"])

\* What becomes of a call whose service call failed: a registration is given up,
\* a cleanup notes the error and goes on with the rest.
Given(h, d) ==
  \/ /\ call[h].op = "apply"
     /\ Return(h, FALSE)
  \/ /\ call[h].op = "remove"
     /\ Continue(h, [Turn(call[h], call[h].deps \ {d}) EXCEPT !.failed = TRUE])

\* The answer to a call that took place: it comes, or it is lost.
Answered(h, c, d) == Continue(h, c) \/ (Faults /\ Given(h, d))

\* A required registrar is nil.
Unavailable(h) ==
  /\ call[h].op = "apply"
  /\ call[h].pc \in {"natsGet", "postgres", "addUser"}
  /\ ServiceOf[call[h].pc] \notin config.services
  /\ Return(h, FALSE)
  /\ UNCHANGED <<serviceVars, callCount, crashes, config>>

---------------------------------------------------------------------------
(* NATS: a shared token, or in SPIFFE mode a read-modify-write of a ConfigMap *)
(* that all tentacles share                                                   *)

\* Token mode: nothing to be done.
NatsToken(h) ==
  /\ call[h].pc = "natsGet"
  /\ "nats" \in config.services
  /\ ~config.spiffe
  /\ Continue(h, Turn([call[h] EXCEPT !.creds["nats"] = 1],
                      call[h].deps \ {"nats"}))
  /\ UNCHANGED <<serviceVars, callCount, crashes, config>>

\* The ConfigMap is read; an entry that is not there need not be removed.
NatsGet(h) ==
  /\ call[h].pc = "natsGet"
  /\ "nats" \in config.services
  /\ config.spiffe
  /\ Continue(h,
       IF call[h].op = "remove" /\ Flow(h) \notin authz.entries
       THEN Turn(call[h], call[h].deps \ {"nats"})
       ELSE [call[h] EXCEPT !.seen = authz, !.pc = "natsPut"])
  /\ UNCHANGED <<serviceVars, callCount, crashes, config>>

\* The entries after the call's own change.
Rendered(h) ==
  IF call[h].op = "apply" THEN call[h].seen.entries \cup {Flow(h)}
                          ELSE call[h].seen.entries \ {Flow(h)}

\* Mutant: the update does not carry the version that was read.
NatsPutBlind(h) ==
  /\ call[h].pc = "natsPut"
  /\ authz' = [exists |-> TRUE, rv |-> authz.rv + 1, entries |-> Rendered(h)]
  /\ Continue(h, Turn([call[h] EXCEPT !.creds["nats"] = 1],
                      call[h].deps \ {"nats"}))
  /\ UNCHANGED <<pg, s3, spire, secret, fresh, callCount, crashes, config>>

\* It is created or updated; a Conflict, or a ConfigMap somebody created
\* meanwhile, is an error that nobody retries.
NatsPut(h) ==
  /\ call[h].pc = "natsPut"
  /\ \/ /\ authz.exists = call[h].seen.exists
        /\ authz.rv = call[h].seen.rv
        /\ authz' = [exists |-> TRUE, rv |-> authz.rv + 1, entries |-> Rendered(h)]
        /\ Answered(h, Turn([call[h] EXCEPT !.creds["nats"] = 1],
                            call[h].deps \ {"nats"}), "nats")
     \/ /\ authz.exists # call[h].seen.exists \/ authz.rv # call[h].seen.rv
        /\ Given(h, "nats")
        /\ UNCHANGED authz
  /\ UNCHANGED <<pg, s3, spire, secret, fresh, callCount, crashes, config>>

---------------------------------------------------------------------------
(* Postgres: one transaction *)

\* Register creates the role and its schema or rotates its password; Unregister
\* drops both, but fails when they are not there, since the REVOKE that fails
\* first aborts the transaction.
Postgres(h) ==
  LET role == PgRole[Flow(h)] IN
  /\ call[h].pc = "postgres"
  /\ "postgres" \in config.services
  /\ \/ /\ call[h].op = "apply"
        /\ pg' = [pg EXCEPT ![role] = fresh]
        /\ fresh' = fresh + 1
        /\ Answered(h, Turn([call[h] EXCEPT !.creds["postgres"] = fresh],
                            call[h].deps \ {"postgres"}), "postgres")
     \/ /\ call[h].op = "remove" /\ pg[role] # 0
        /\ pg' = [pg EXCEPT ![role] = 0]
        /\ UNCHANGED fresh
        /\ Answered(h, Turn(call[h], call[h].deps \ {"postgres"}), "postgres")
     \/ /\ call[h].op = "remove" /\ pg[role] = 0
        /\ Given(h, "postgres")
        /\ UNCHANGED <<pg, fresh>>
  /\ UNCHANGED <<authz, s3, spire, secret, callCount, crashes, config>>

---------------------------------------------------------------------------
(* RustFS: one request after the other *)

\* AddUser creates the user or replaces its secret key ...
AddUser(h) ==
  /\ call[h].pc = "addUser"
  /\ "rustfs" \in config.services
  /\ s3' = [s3 EXCEPT ![Flow(h)].key = fresh]
  /\ fresh' = fresh + 1
  /\ Answered(h, [call[h] EXCEPT !.creds["rustfs"] = fresh, !.pc = "addPolicy"],
              "rustfs")
  /\ UNCHANGED <<pg, authz, spire, secret, callCount, crashes, config>>

\* ... then the policy is written ...
AddPolicy(h) ==
  /\ call[h].pc = "addPolicy"
  /\ s3' = [s3 EXCEPT ![Flow(h)].policy = TRUE]
  /\ Answered(h, [call[h] EXCEPT !.pc = "setPolicy"], "rustfs")
  /\ UNCHANGED <<pg, authz, spire, secret, fresh, callCount, crashes, config>>

\* ... and attached, if user and policy are (still) there.
SetPolicy(h) ==
  LET u == s3[Flow(h)] IN
  /\ call[h].pc = "setPolicy"
  /\ \/ /\ u.key # 0 /\ u.policy
        /\ s3' = [s3 EXCEPT ![Flow(h)].attached = TRUE]
        /\ Answered(h, Turn(call[h], {}), "rustfs")
     \/ /\ u.key = 0 \/ ~u.policy
        /\ Given(h, "rustfs")
        /\ UNCHANGED s3
  /\ UNCHANGED <<pg, authz, spire, secret, fresh, callCount, crashes, config>>

\* Unregister removes the user, which detaches the policy ...
RemoveUser(h) ==
  /\ call[h].pc = "removeUser"
  /\ \/ /\ s3' = [s3 EXCEPT ![Flow(h)].key = 0, ![Flow(h)].attached = FALSE]
        /\ UNCHANGED settled
        /\ \E lost \in {FALSE} \cup {Faults} :
             call' = [call EXCEPT ![h].pc = "removePolicy",
                                  ![h].failed = @ \/ lost]
     \/ /\ Faults
        /\ Continue(h, [call[h] EXCEPT !.pc = "removePolicy", !.failed = TRUE])
        /\ UNCHANGED s3
  /\ UNCHANGED <<pg, authz, spire, secret, fresh, callCount, crashes, config>>

\* ... and then the policy, which is refused while it is attached.
RemovePolicy(h) ==
  /\ call[h].pc = "removePolicy"
  /\ \/ /\ ~s3[Flow(h)].attached
        /\ s3' = [s3 EXCEPT ![Flow(h)].policy = FALSE]
        /\ Answered(h, Turn(call[h], {}), "rustfs")
     \/ /\ s3[Flow(h)].attached
        /\ Given(h, "rustfs")
        /\ UNCHANGED s3
  /\ UNCHANGED <<pg, authz, spire, secret, fresh, callCount, crashes, config>>

---------------------------------------------------------------------------
(* SPIRE and the Secret *)

\* The last registration, which may fail: the pods then have no SVID.  A cleanup
\* is over with it.
Spire(h) ==
  /\ call[h].pc = "spire"
  /\ \E ok \in {TRUE} \cup {~Faults} :
       /\ spire' = IF ~config.spire \/ ~ok THEN spire
                   ELSE IF call[h].op = "apply" THEN spire \cup {Flow(h)}
                   ELSE spire \ {Flow(h)}
       /\ \/ /\ call[h].op = "apply"
             /\ Continue(h, [call[h] EXCEPT !.pc = "secret"])
          \/ /\ call[h].op = "remove"
             /\ Return(h, ~call[h].failed /\ (ok \/ ~config.spire))
  /\ UNCHANGED <<pg, authz, s3, secret, fresh, callCount, crashes, config>>

\* Mutant: a Secret that is there is left as it is.
ApplySecretOnce(h) ==
  /\ call[h].pc = "secret"
  /\ call[h].op = "apply"
  /\ secret' = [secret EXCEPT ![Flow(h)] = IF @ = NoCreds THEN call[h].creds ELSE @]
  /\ Return(h, TRUE)
  /\ UNCHANGED <<pg, authz, s3, spire, fresh, callCount, crashes, config>>

\* handleWorkflowApply writes the Secret with the other manifests, and may fail
\* before or after.  When there are no dependencies any more, the Secret goes with
\* the garbage, if its deletion does not fail, which is passed over.
ApplySecret(h) ==
  /\ call[h].pc = "secret"
  /\ call[h].op = "apply"
  /\ \E ok \in {TRUE} \cup {~Faults} :
       /\ Return(h, ok)
       /\ \/ secret' = [secret EXCEPT ![Flow(h)] = call[h].creds]
          \/ /\ ~ok \/ (Faults /\ call[h].contract = {})
             /\ UNCHANGED secret
  /\ UNCHANGED <<pg, authz, s3, spire, fresh, callCount, crashes, config>>

\* Mutant: only what the Secret shows is unregistered.
RemoveSecretShown(h) ==
  /\ call[h].pc = "secret"
  /\ call[h].op = "remove"
  /\ secret' = [secret EXCEPT ![Flow(h)] = NoCreds]
  /\ Continue(h, Turn(call[h], {d \in config.services : secret[Flow(h)][d] # 0}))
  /\ UNCHANGED <<pg, authz, s3, spire, fresh, callCount, crashes, config>>

\* handleWorkflowRemove deletes the Secret, passing over failures (of which only
\* the history in failed takes note), and then CleanupWithReport unregisters from
\* every service there is, if configured to.
RemoveSecret(h) ==
  /\ call[h].pc = "secret"
  /\ call[h].op = "remove"
  /\ \E ok \in {TRUE} \cup {~Faults} :
       /\ secret' = IF ok THEN [secret EXCEPT ![Flow(h)] = NoCreds] ELSE secret
       /\ \/ /\ config.cleanup
             /\ Continue(h, [Turn(call[h], config.services) EXCEPT !.failed = ~ok])
          \/ /\ ~config.cleanup
             /\ Return(h, FALSE)
  /\ UNCHANGED <<pg, authz, s3, spire, fresh, callCount, crashes, config>>

---------------------------------------------------------------------------
(* Failures *)

\* A call to a service has no effect but an error.
ServiceFail(h) ==
  /\ Faults
  /\ call[h].pc \in DOMAIN ServiceOf
  /\ Given(h, ServiceOf[call[h].pc])
  /\ UNCHANGED <<serviceVars, callCount, crashes, config>>

\* The server dies with all its calls.
Crash ==
  /\ crashes < MaxCrashes
  /\ crashes' = crashes + 1
  /\ call' = [h \in Callers |-> NoCall]
  /\ settled' = [w \in Flows |->
       IF \E h \in Callers : Busy(h) /\ Flow(h) = w THEN "unknown" ELSE settled[w]]
  /\ UNCHANGED <<serviceVars, callCount, config>>

Next ==
  \/ \E h \in Callers :
       \/ \E w \in Flows : (\E deps \in Contracts : Apply(h, w, deps))
                             \/ RemoveFlow(h, w)
       \/ Unavailable(h)
       \/ NatsToken(h) \/ NatsGet(h) \/ NatsPut(h)
       \/ Postgres(h)
       \/ AddUser(h) \/ AddPolicy(h) \/ SetPolicy(h)
       \/ RemoveUser(h) \/ RemovePolicy(h)
       \/ Spire(h)
       \/ ApplySecret(h) \/ RemoveSecret(h)
       \/ ServiceFail(h)
  \/ Crash

Spec == Init /\ [][Next]_vars

---------------------------------------------------------------------------
(* Properties *)

Registries == [exists : BOOLEAN, rv : Nat, entries : SUBSET Flows]

Calls ==
  [pc       : {"idle", "natsGet", "natsPut", "postgres", "addUser", "addPolicy",
               "setPolicy", "removeUser", "removePolicy", "spire", "secret"},
   op       : {"apply", "remove", None},
   flow     : Flows \cup {None},
   contract : SUBSET AllServices,
   deps     : SUBSET AllServices,
   creds    : [AllServices -> Nat],
   seen     : Registries \cup {None},
   failed   : BOOLEAN,
   alone    : BOOLEAN]

\* Every variable has the type its declaration says.
TypeOK ==
  /\ config \in Configs
  /\ pg \in [Roles -> Nat]
  /\ authz \in Registries
  /\ s3 \in [Flows -> [key : Nat, policy : BOOLEAN, attached : BOOLEAN]]
  /\ spire \subseteq Flows
  /\ secret \in [Flows -> [AllServices -> Nat]]
  /\ call \in [Callers -> Calls]
  /\ fresh \in Nat /\ callCount \in Nat /\ crashes \in Nat
  /\ settled \in [Flows -> {"apply", "plain", "remove", "unknown"}]

AtRest(w) == \A h \in Callers : Busy(h) => Flow(h) # w

\* "the next deploy will re-register idempotently": once a wf_apply of a tentacle
\* with dependencies has succeeded and no other call for it interfered, every
\* credential in its Secret is one its service accepts, whatever failed calls and
\* crashes rotated before and whatever calls for other tentacles do at the same
\* time.  A wf_apply without dependencies makes no such promise: a Secret whose
\* deletion failed may be left with credentials that were rotated since.
SecretsWork ==
  \A w \in Flows :
    (AtRest(w) /\ settled[w] = "apply") =>
      /\ secret[w]["postgres"] \in {0, pg[PgRole[w]]}
      /\ secret[w]["rustfs"] # 0 =>
           s3[w] = [key |-> secret[w]["rustfs"], policy |-> TRUE, attached |-> TRUE]
      /\ (config.spiffe /\ secret[w]["nats"] # 0) => w \in authz.entries

\* A wf_remove all of whose steps went through, those whose errors it passes over
\* included, leaves nothing of the tentacle behind, of what earlier deployments
\* registered and later ones no longer declared, or registered and then failed.
RemovalLeavesNothing ==
  \A w \in Flows :
    (AtRest(w) /\ settled[w] = "remove") =>
      /\ pg[PgRole[w]] = 0
      /\ s3[w] = [key |-> 0, policy |-> FALSE, attached |-> FALSE]
      /\ w \notin authz.entries \cup spire
      /\ secret[w] = NoCreds

\* "Uses optimistic concurrency via resourceVersion": registrations that race
\* each other for the shared ConfigMap never lose or revive an entry of another
\* tentacle.
Registry == INSTANCE AtomicRegistry WITH entries <- authz.entries

RegistrationsAreAtomic == Registry!Spec
=============================================================================
