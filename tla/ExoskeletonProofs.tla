------------------------- MODULE ExoskeletonProofs -------------------------
(***************************************************************************)
(* Proofs about Exoskeleton, for any number of tentacles, calls, crashes,  *)
(* contracts and configurations: type correctness, that registrations in   *)
(* the shared NATS ConfigMap are atomic, that credentials in a Secret work *)
(* and that a removal leaves nothing.                                      *)
(*                                                                         *)
(* The argument: a call that nobody overlapped is the only one that        *)
(* touches what its tentacle has in the services, so what it has achieved  *)
(* so far stays; and a ConfigMap that still has the version a call read    *)
(* has the entries it read.                                                *)
(***************************************************************************)
EXTENDS Exoskeleton, TLAPS

\* No two tentacles share a Postgres role (Manifests!NamesKeepApart: those of one
\* enclave never do).
OwnRoles == \A v, w \in Flows : PgRole[v] = PgRole[w] => v = w

---------------------------------------------------------------------------
(* The inductive invariant *)

\* Where a call may be with what is left to do.
CallOK(c) ==
  /\ c \in Calls
  /\ c.pc # "idle" =>
       /\ c.flow \in Flows
       /\ c.op \in {"apply", "remove"}
       /\ c.pc \in {"natsGet", "natsPut"} => "nats" \in c.deps
       /\ c.pc = "natsPut" =>
            c.seen \in Registries /\ "nats" \in config.services /\ config.spiffe
       /\ c.pc = "postgres" => "postgres" \in c.deps
       /\ c.pc \in {"addUser", "addPolicy", "setPolicy"} =>
            c.op = "apply" /\ c.deps = {"rustfs"}
       /\ c.pc \in {"removeUser", "removePolicy"} =>
            c.op = "remove" /\ c.deps = {"rustfs"}
       /\ c.pc \in {"addPolicy", "setPolicy"} => "rustfs" \in config.services
       /\ c.pc = "spire" => c.deps = {}
       /\ c.op = "remove" => c.deps \subseteq config.services

TypeInv ==
  /\ TypeOK
  /\ \A h \in Callers : CallOK(call[h])

\* What the call read is what is there, until somebody writes.
Fresh(c) ==
  c.pc = "natsPut" =>
    /\ authz.rv >= c.seen.rv
    /\ authz.rv = c.seen.rv => authz.entries = c.seen.entries

ReadsCurrent == \A h \in Callers : Fresh(call[h])

\* A call that counts as alone has no rival.
AloneIsAlone ==
  \A g, h \in Callers :
    (g # h /\ Busy(g) /\ Busy(h) /\ Flow(g) = Flow(h)) =>
      ~call[g].alone /\ ~call[h].alone

CleanUser == [key |-> 0, policy |-> FALSE, attached |-> FALSE]

\* There is nothing in a service the server is not configured for.
UnusedIsEmpty ==
  /\ "postgres" \notin config.services => \A r \in Roles : pg[r] = 0
  /\ "rustfs" \notin config.services => \A w \in Flows : s3[w] = CleanUser
  /\ ("nats" \notin config.services \/ ~config.spiffe) => authz.entries = {}
  /\ ~config.spire => spire = {}

\* The credentials a registration was given so far are in force.
Registered(c) ==
  /\ c.creds["postgres"] \in {0, pg[PgRole[c.flow]]}
  /\ (config.spiffe /\ c.creds["nats"] # 0) => c.flow \in authz.entries
  /\ c.creds["rustfs"] # 0 =>
       /\ c.pc \in {"addPolicy", "setPolicy", "spire", "secret"}
       /\ s3[c.flow].key = c.creds["rustfs"]
       /\ c.pc # "addPolicy" => s3[c.flow].policy
       /\ c.pc \in {"spire", "secret"} => s3[c.flow].attached

\* The services a removal has dealt with have nothing of the tentacle left.
Unregistered(c) ==
  c.pc # "secret" =>
    /\ secret[c.flow] = NoCreds
    /\ "postgres" \notin c.deps => pg[PgRole[c.flow]] = 0
    /\ "nats" \notin c.deps => c.flow \notin authz.entries
    /\ "rustfs" \notin c.deps => s3[c.flow] = CleanUser
    /\ c.pc = "removePolicy" => s3[c.flow].key = 0 /\ ~s3[c.flow].attached

Progress(c) ==
  c.pc # "idle" /\ c.alone =>
    /\ c.op = "apply" => Registered(c)
    /\ c.op = "remove" /\ ~c.failed => Unregistered(c)

ProgressInv == \A h \in Callers : Progress(call[h])

\* The part that holds whatever the roles are, and the rest.
BaseInv ==
  /\ TypeInv
  /\ ReadsCurrent
  /\ UnusedIsEmpty

ServiceParts ==
  /\ AloneIsAlone
  /\ ProgressInv
  /\ SecretsWork
  /\ RemovalLeavesNothing

---------------------------------------------------------------------------
(* The steps of a call *)

\* The least element of a set of numbers, once it is known.
LEMMA MinIs ==
  ASSUME NEW S \in SUBSET Nat, NEW k \in S, \A y \in S : k <= y
  PROVE  Min(S) = k
<1> DEFINE P(x) == x \in S /\ \A y \in S : x =< y
<1>1. P(k)
  OBVIOUS
<1>2. \A x : P(x) => x = k
  OBVIOUS
<1> QED BY <1>1, <1>2 DEF Min

\* t is c going on with the services in rest: to one of them, the object store
\* last, and to SPIRE when there is none.
Turned(c, rest, t) ==
  /\ t \in Calls
  /\ t.deps = rest
  /\ t.op = c.op /\ t.flow = c.flow /\ t.creds = c.creds /\ t.alone = c.alone
  /\ t.pc \in {"natsGet", "postgres", "addUser", "removeUser", "spire"}
  /\ t.pc = "natsGet" => "nats" \in rest
  /\ t.pc = "postgres" => "postgres" \in rest
  /\ t.pc = "addUser" => c.op = "apply" /\ rest = {"rustfs"}
  /\ t.pc = "removeUser" => c.op = "remove" /\ rest = {"rustfs"}
  /\ t.pc = "spire" <=> rest = {}

\* Where the controller's order of the services takes a call next.
LEMMA TurnSpec ==
  ASSUME NEW c \in Calls, c.op \in {"apply", "remove"},
         NEW rest \in SUBSET AllServices
  PROVE  Turned(c, rest, Turn(c, rest)) /\ Turn(c, rest).failed = c.failed
<1> DEFINE t == Turn(c, rest)
           order == Order(c.op)
           left == {i \in 1..3 : order[i] \in rest}
           service == order[Min(left)]
           loc == CASE rest = {} -> "spire"
                    [] rest # {} /\ service = "nats" -> "natsGet"
                    [] rest # {} /\ service = "postgres" -> "postgres"
                    [] rest # {} /\ service = "rustfs" ->
                         IF c.op = "apply" THEN "addUser" ELSE "removeUser"
<1>1. t = [c EXCEPT !.deps = rest, !.seen = None, !.pc = loc]
  BY DEF Turn
<1>2. ASSUME rest # {}
      PROVE  /\ service \in rest
             /\ service = "rustfs" => rest = {"rustfs"}
  <2>1. CASE order[1] \in rest
    <3>1. Min(left) = 1
      BY <2>1, MinIs
    <3> QED BY <2>1, <3>1 DEF Order
  <2>2. CASE order[1] \notin rest /\ order[2] \in rest
    <3>1. 2 \in left /\ \A y \in left : 2 <= y
      BY <2>2
    <3>2. Min(left) = 2
      BY <3>1, MinIs
    <3> QED BY <2>2, <3>2 DEF Order
  <2>3. CASE order[1] \notin rest /\ order[2] \notin rest
    <3>1. rest = {"rustfs"}
      BY <1>2, <2>3 DEF Order, AllServices
    <3>2. left = {3}
      BY <2>3, <3>1 DEF Order
    <3>3. Min(left) = 3
      BY <3>2, MinIs
    <3> QED BY <3>1, <3>3 DEF Order
  <2> QED BY <2>1, <2>2, <2>3
<1>3. /\ loc \in {"natsGet", "postgres", "addUser", "removeUser", "spire"}
      /\ loc = "natsGet" => "nats" \in rest
      /\ loc = "postgres" => "postgres" \in rest
      /\ loc = "addUser" => c.op = "apply" /\ rest = {"rustfs"}
      /\ loc = "removeUser" => c.op = "remove" /\ rest = {"rustfs"}
      /\ loc = "spire" <=> rest = {}
  <2> HIDE DEF service
  <2> QED BY <1>2 DEF AllServices
<1> HIDE DEF loc
<1>4. t \in Calls
  BY <1>1, <1>3 DEF Calls
<1> QED BY <1>1, <1>3, <1>4 DEF Calls, Turned

\* A call that is not in flight is well formed.
LEMMA NoCallOK == CallOK(NoCall)
  BY ExoAssumption DEF CallOK, NoCall, NoCreds, Calls, AllServices

---------------------------------------------------------------------------
(* What a step of a call does *)

\* x is the call of h, in flight for the tentacle w.
Working(h, w, x) ==
  /\ x = call[h] /\ x \in Calls /\ CallOK(x)
  /\ x.pc # "idle" /\ x.op \in {"apply", "remove"}
  /\ x.flow = w /\ w \in Flows

\* The credentials in the Secret of w work; nothing of w is left.
Works(w) ==
  /\ secret[w]["postgres"] \in {0, pg[PgRole[w]]}
  /\ secret[w]["rustfs"] # 0 =>
       s3[w] = [key |-> secret[w]["rustfs"], policy |-> TRUE, attached |-> TRUE]
  /\ (config.spiffe /\ secret[w]["nats"] # 0) => w \in authz.entries

Clean(w) ==
  /\ pg[PgRole[w]] = 0
  /\ s3[w] = CleanUser
  /\ w \notin authz.entries \cup spire
  /\ secret[w] = NoCreds

\* The call goes on as c, and keeps what it has achieved.
Moves(x, c) ==
  /\ c.pc # "idle"
  /\ c.flow = x.flow /\ c.op = x.op /\ c.alone = x.alone
  /\ settled' = settled
  /\ Progress(x) => Progress(c)'

Ends(w, c, how) ==
  /\ c = NoCall
  /\ settled' = [settled EXCEPT ![w] = how]

\* A step of h leaves its call well formed, and it ends as "apply" or "remove"
\* only when that is true.
Outcome(h, w, x, c) ==
  /\ call' = [call EXCEPT ![h] = c]
  /\ CallOK(c)
  /\ c.pc = "natsPut" => c.seen = authz /\ authz' = authz
  /\ \/ Moves(x, c)
     \/ Ends(w, c, "unknown") \/ Ends(w, c, "plain")
     \/ Ends(w, c, "apply") /\ (Progress(x) => Works(w)')
     \/ Ends(w, c, "remove") /\ (Progress(x) => Clean(w)')

StoresOK ==
  /\ config \in Configs
  /\ pg \in [Roles -> Nat]
  /\ authz \in Registries
  /\ s3 \in [Flows -> [key : Nat, policy : BOOLEAN, attached : BOOLEAN]]
  /\ spire \subseteq Flows
  /\ secret \in [Flows -> [AllServices -> Nat]]
  /\ fresh \in Nat /\ callCount \in Nat /\ crashes \in Nat

\* The ConfigMap stays, or it is written, with a new version and no entry but
\* that of w changed.
Registers(w) ==
  \/ authz' = authz
  \/ /\ authz'.rv > authz.rv
     /\ authz'.entries \in {authz.entries \cup {w}, authz.entries \ {w}}

\* A step for w touches nothing of another tentacle.
Effect(w) ==
  /\ config' = config
  /\ StoresOK'
  /\ Registers(w)
  /\ \A r \in Roles : r # PgRole[w] => pg'[r] = pg[r]
  /\ \A v \in Flows \ {w} :
       s3'[v] = s3[v] /\ secret'[v] = secret[v] /\ (v \in spire' <=> v \in spire)
  /\ UnusedIsEmpty'

\* A call that is in flight is a registration or a removal of some tentacle.
LEMMA BusyWorks ==
  ASSUME TypeInv, NEW h \in Callers, Busy(h)
  PROVE  \E w \in Flows : \E x : Working(h, w, x)
  BY DEF TypeInv, CallOK, Busy, Working

\* A step that changes no service changes nothing of another tentacle.
LEMMA NoEffect ==
  ASSUME BaseInv, NEW w \in Flows, config' = config,
         UNCHANGED <<serviceVars, callCount, crashes>>
  PROVE  Effect(w)
  BY DEF BaseInv, TypeInv, TypeOK, StoresOK, serviceVars, Effect, Registers,
         UnusedIsEmpty

\* A call that goes on to what is left is well formed.
LEMMA TurnedOK ==
  ASSUME NEW x, NEW rest, NEW t, Turned(x, rest, t),
         x.flow \in Flows, x.op \in {"apply", "remove"},
         x.op = "remove" => rest \subseteq config.services
  PROVE  CallOK(t) /\ t.pc # "idle" /\ t.pc # "natsPut"
  BY DEF Turned, CallOK

\* A call that returns has settled the tentacle if it succeeded alone.
LEMMA ReturnOutcome ==
  ASSUME NEW h \in Callers, NEW w, NEW x, Working(h, w, x),
         NEW ok \in BOOLEAN, Return(h, ok),
         ok /\ x.alone /\ x.op = "apply" /\ x.contract # {} /\ Progress(x)
           => Works(w)',
         ok /\ x.alone /\ x.op = "remove" /\ Progress(x) => Clean(w)'
  PROVE  \E c : Outcome(h, w, x, c)
<1>1. /\ call' = [call EXCEPT ![h] = NoCall]
      /\ settled' = [settled EXCEPT ![w] =
           IF ~ok \/ ~x.alone THEN "unknown"
           ELSE IF x.op = "apply" /\ x.contract = {} THEN "plain"
           ELSE x.op]
  BY DEF Return, Working, Flow
<1>2. NoCall.pc # "natsPut"
  BY DEF NoCall
<1>3. CASE ok /\ x.alone /\ x.op = "apply" /\ x.contract # {}
  BY <1>1, <1>2, <1>3, NoCallOK DEF Outcome, Ends
<1>6. CASE ok /\ x.alone /\ x.op = "apply" /\ x.contract = {}
  BY <1>1, <1>2, <1>6, NoCallOK DEF Outcome, Ends
<1>4. CASE ok /\ x.alone /\ x.op = "remove"
  BY <1>1, <1>2, <1>4, NoCallOK DEF Outcome, Ends
<1>5. CASE ~(ok /\ x.alone)
  BY <1>1, <1>2, <1>5, NoCallOK DEF Outcome, Ends
<1> QED BY <1>3, <1>4, <1>5, <1>6 DEF Working

\* A call whose service call failed is over, or notes it and goes on.
LEMMA GivenOutcome ==
  ASSUME NEW h \in Callers, NEW w, NEW x, Working(h, w, x), NEW d, Given(h, d)
  PROVE  \E c : Outcome(h, w, x, c)
<1>1. CASE x.op = "apply" /\ Return(h, FALSE)
  BY <1>1, ReturnOutcome
<1>2. CASE /\ x.op = "remove"
           /\ Continue(h, [Turn(x, x.deps \ {d}) EXCEPT !.failed = TRUE])
  <2> PICK t : t = Turn(x, x.deps \ {d})
    OBVIOUS
  <2> PICK c : c = [t EXCEPT !.failed = TRUE]
    OBVIOUS
  <2>1. x.deps \ {d} \in SUBSET AllServices
    BY DEF Working, Calls
  <2>2. Turned(x, x.deps \ {d}, t)
    BY <2>1, TurnSpec DEF Working
  <2>3. Turned(x, x.deps \ {d}, c) /\ c.failed = TRUE
    BY <2>2 DEF Turned, Calls
  <2>4. CallOK(c) /\ c.pc # "idle" /\ c.pc # "natsPut"
    <3>1. x.op = "remove" => x.deps \ {d} \subseteq config.services
      BY DEF Working, CallOK
    <3> QED BY <2>3, <3>1, TurnedOK DEF Working
  <2>5. c.flow = x.flow /\ c.op = "remove" /\ c.alone = x.alone
    BY <1>2, <2>3 DEF Turned
  <2>6. settled' = settled /\ call' = [call EXCEPT ![h] = c]
    BY <1>2 DEF Continue
  <2>7. Moves(x, c)
    BY <1>2, <2>3, <2>4, <2>5, <2>6 DEF Moves, Progress
  <2> QED BY <2>4, <2>6, <2>7 DEF Outcome
<1> QED BY <1>1, <1>2 DEF Given, Working

\* A call that goes on to the next service keeps what it has achieved, or its
\* answer is lost.
LEMMA TurnOutcome ==
  ASSUME NEW h \in Callers, NEW w, NEW x, Working(h, w, x),
         NEW y \in Calls, y.op = x.op, y.flow = x.flow, y.alone = x.alone,
         NEW rest \in SUBSET AllServices,
         x.op = "remove" => rest \subseteq config.services,
         Continue(h, Turn(y, rest)),
         \A t : Turned(y, rest, t) /\ t.failed = y.failed /\ Progress(x)
                  => Progress(t)'
  PROVE  \E c : Outcome(h, w, x, c)
<1> PICK t : t = Turn(y, rest)
  OBVIOUS
<1>1. Turned(y, rest, t) /\ t.failed = y.failed
  BY TurnSpec DEF Working
<1>2. CallOK(t) /\ t.pc # "idle" /\ t.pc # "natsPut"
  BY <1>1, TurnedOK DEF Working
<1>3. t.flow = x.flow /\ t.op = x.op /\ t.alone = x.alone
  BY <1>1 DEF Turned
<1>4. settled' = settled /\ call' = [call EXCEPT ![h] = t]
  BY DEF Continue
<1>5. Moves(x, t)
  BY <1>1, <1>2, <1>3, <1>4 DEF Moves
<1> QED BY <1>2, <1>4, <1>5 DEF Outcome

\* The same for a call to a service whose answer may be lost.
LEMMA AnsweredOutcome ==
  ASSUME NEW h \in Callers, NEW w, NEW x, Working(h, w, x),
         NEW y \in Calls, y.op = x.op, y.flow = x.flow, y.alone = x.alone,
         NEW rest \in SUBSET AllServices,
         x.op = "remove" => rest \subseteq config.services,
         NEW d, Answered(h, Turn(y, rest), d),
         \A t : Turned(y, rest, t) /\ t.failed = y.failed /\ Progress(x)
                  => Progress(t)'
  PROVE  \E c : Outcome(h, w, x, c)
<1>1. CASE Continue(h, Turn(y, rest))
  BY <1>1, TurnOutcome
<1>2. CASE Given(h, d)
  BY <1>2, GivenOutcome
<1> QED BY <1>1, <1>2 DEF Answered

\* The same without going on to another service.
LEMMA StayOutcome ==
  ASSUME NEW h \in Callers, NEW w, NEW x, Working(h, w, x),
         NEW c, Continue(h, c), CallOK(c),
         c.pc # "idle", c.op = x.op, c.flow = x.flow, c.alone = x.alone,
         c.pc = "natsPut" => c.seen = authz /\ authz' = authz,
         Progress(x) => Progress(c)'
  PROVE  Outcome(h, w, x, c)
  BY DEF Outcome, Moves, Continue

---------------------------------------------------------------------------
(* The steps, one by one *)

\* A registrar that is nil ends the call.
LEMMA UnavailableStep ==
  ASSUME BaseInv, NEW h \in Callers, NEW w, NEW x, Working(h, w, x),
         Unavailable(h)
  PROVE  Effect(w) /\ \E c : Outcome(h, w, x, c)
<1>1. Effect(w)
  BY NoEffect DEF Unavailable, Working
<1>2. \E c : Outcome(h, w, x, c)
  BY ReturnOutcome DEF Unavailable
<1> QED BY <1>1, <1>2

\* So does a service call that fails, for a registration.
LEMMA ServiceFailStep ==
  ASSUME BaseInv, NEW h \in Callers, NEW w, NEW x, Working(h, w, x),
         ServiceFail(h)
  PROVE  Effect(w) /\ \E c : Outcome(h, w, x, c)
<1>1. Effect(w)
  BY NoEffect DEF ServiceFail, Working
<1>2. \E c : Outcome(h, w, x, c)
  BY GivenOutcome DEF ServiceFail
<1> QED BY <1>1, <1>2

\* With a shared token nobody has an entry.
LEMMA NatsTokenStep ==
  ASSUME BaseInv, NEW h \in Callers, NEW w, NEW x, Working(h, w, x),
         NatsToken(h)
  PROVE  Effect(w) /\ \E c : Outcome(h, w, x, c)
<1> PICK y : y = [x EXCEPT !.creds["nats"] = 1]
  OBVIOUS
<1> DEFINE rest == x.deps \ {"nats"}
<1>1. Effect(w)
  BY NoEffect DEF NatsToken, Working
<1>2. /\ y \in Calls
      /\ y.op = x.op /\ y.flow = x.flow /\ y.alone = x.alone
      /\ y.creds["postgres"] = x.creds["postgres"]
      /\ y.creds["rustfs"] = x.creds["rustfs"]
      /\ y.failed = x.failed
  BY DEF Working, Calls, AllServices
<1>3. /\ rest \in SUBSET AllServices
      /\ x.op = "remove" => rest \subseteq config.services
  BY DEF Working, Calls, CallOK
<1>4. Continue(h, Turn(y, rest))
  BY DEF NatsToken, Working
<1>5. /\ x.pc = "natsGet" /\ ~config.spiffe /\ authz.entries = {}
      /\ config' = config /\ pg' = pg /\ authz' = authz /\ s3' = s3 /\ secret' = secret
  BY DEF NatsToken, Working, BaseInv, UnusedIsEmpty, serviceVars
<1>6. ASSUME NEW t, Turned(y, rest, t), t.failed = y.failed, Progress(x)
      PROVE  Progress(t)'
  BY <1>2, <1>5, <1>6 DEF Turned, Progress, Registered, Unregistered
<1>7. \E c : Outcome(h, w, x, c)
  <2> HIDE DEF rest
  <2> QED BY <1>2, <1>3, <1>4, <1>6, TurnOutcome
<1> QED BY <1>1, <1>7

\* What a call read from the ConfigMap is current when it has read it.
LEMMA NatsGetStep ==
  ASSUME BaseInv, NEW h \in Callers, NEW w, NEW x, Working(h, w, x),
         NatsGet(h)
  PROVE  Effect(w) /\ \E c : Outcome(h, w, x, c)
<1> DEFINE rest == x.deps \ {"nats"}
<1>1. Effect(w)
  BY NoEffect DEF NatsGet, Working
<1>2. /\ rest \in SUBSET AllServices
      /\ x.op = "remove" => rest \subseteq config.services
  BY DEF Working, Calls, CallOK
<1>3. /\ x.pc = "natsGet" /\ config.spiffe /\ "nats" \in config.services
      /\ config' = config /\ pg' = pg /\ authz' = authz /\ s3' = s3 /\ secret' = secret
  BY DEF NatsGet, Working, serviceVars
<1>4. CASE x.op = "remove" /\ w \notin authz.entries /\ Continue(h, Turn(x, rest))
  <2>1. ASSUME NEW t, Turned(x, rest, t), t.failed = x.failed, Progress(x)
        PROVE  Progress(t)'
    BY <1>3, <1>4, <2>1 DEF Turned, Progress, Unregistered, Working
  <2> HIDE DEF rest
  <2> QED BY <1>1, <1>2, <1>4, <2>1, TurnOutcome DEF Working
<1>5. CASE Continue(h, [x EXCEPT !.seen = authz, !.pc = "natsPut"])
  <2> PICK c : c = [x EXCEPT !.seen = authz, !.pc = "natsPut"]
    OBVIOUS
  <2>1. authz \in Registries
    BY DEF BaseInv, TypeInv, TypeOK
  <2>2. /\ c \in Calls
        /\ c.pc = "natsPut" /\ c.op = x.op /\ c.flow = x.flow /\ c.alone = x.alone
        /\ c.deps = x.deps /\ c.creds = x.creds /\ c.failed = x.failed
        /\ c.seen = authz
    BY <2>1 DEF Working, Calls
  <2>3. CallOK(c)
    BY <1>3, <2>1, <2>2 DEF CallOK, Working
  <2>4. Progress(x) => Progress(c)'
    BY <1>3, <2>2 DEF Progress, Registered, Unregistered
  <2> QED BY <1>1, <1>3, <1>5, <2>2, <2>3, <2>4, StayOutcome
<1> QED BY <1>4, <1>5 DEF NatsGet, Working, Flow

\* The ConfigMap is written only over the entries that were read.
LEMMA NatsPutStep ==
  ASSUME BaseInv, NEW h \in Callers, NEW w, NEW x, Working(h, w, x),
         NatsPut(h)
  PROVE  Effect(w) /\ \E c : Outcome(h, w, x, c)
<1> PICK y : y = [x EXCEPT !.creds["nats"] = 1]
  OBVIOUS
<1> DEFINE rest == x.deps \ {"nats"}
<1>1. /\ y \in Calls
      /\ y.op = x.op /\ y.flow = x.flow /\ y.alone = x.alone
      /\ y.creds["postgres"] = x.creds["postgres"]
      /\ y.creds["rustfs"] = x.creds["rustfs"]
      /\ y.failed = x.failed
  BY DEF Working, Calls, AllServices
<1>2. /\ rest \in SUBSET AllServices
      /\ x.op = "remove" => rest \subseteq config.services
  BY DEF Working, Calls, CallOK
<1>3. /\ x.pc = "natsPut" /\ config.spiffe /\ "nats" \in config.services
      /\ x.seen \in Registries /\ authz \in Registries
      /\ authz.rv = x.seen.rv => authz.entries = x.seen.entries
      /\ config' = config /\ pg' = pg /\ s3' = s3 /\ secret' = secret
      /\ spire' = spire /\ fresh' = fresh
      /\ callCount' = callCount /\ crashes' = crashes
  <2>1. Fresh(x)
    BY DEF BaseInv, ReadsCurrent, Working
  <2>2. x.pc = "natsPut"
    BY DEF NatsPut, Working
  <2>3. authz \in Registries
    BY DEF BaseInv, TypeInv, TypeOK
  <2> QED BY <2>1, <2>2, <2>3 DEF NatsPut, Working, CallOK, Fresh
<1>4. CASE /\ authz.rv = x.seen.rv
           /\ authz' = [exists |-> TRUE, rv |-> authz.rv + 1, entries |-> Rendered(h)]
           /\ Answered(h, Turn(y, rest), "nats")
  <2>1. Rendered(h) = IF x.op = "apply" THEN authz.entries \cup {w}
                                        ELSE authz.entries \ {w}
    BY <1>3, <1>4 DEF Rendered, Working, Flow
  <2>2. /\ authz' \in Registries /\ authz'.rv > authz.rv
        /\ authz'.entries = IF x.op = "apply" THEN authz.entries \cup {w}
                                              ELSE authz.entries \ {w}
    BY <1>3, <1>4, <2>1 DEF Registries, Working
  <2>3. Effect(w)
    BY <1>3, <2>2 DEF BaseInv, TypeInv, TypeOK, Effect, StoresOK, Registers,
                      UnusedIsEmpty
  <2>4. ASSUME NEW t, Turned(y, rest, t), t.failed = y.failed, Progress(x)
        PROVE  Progress(t)'
    BY <1>1, <1>3, <2>2, <2>4
       DEF Turned, Progress, Registered, Unregistered, Working
  <2> HIDE DEF rest
  <2>5. \E c : Outcome(h, w, x, c)
    BY <1>1, <1>2, <1>4, <2>4, AnsweredOutcome
  <2> QED BY <2>3, <2>5
<1>5. CASE Given(h, "nats") /\ UNCHANGED authz
  <2>1. Effect(w)
    BY <1>3, <1>5, NoEffect DEF serviceVars, Working
  <2> QED BY <1>5, <2>1, GivenOutcome
<1> QED BY <1>4, <1>5 DEF NatsPut, Working

\* The role of the tentacle gets a password or goes.
LEMMA PostgresStep ==
  ASSUME BaseInv, NEW h \in Callers, NEW w, NEW x, Working(h, w, x),
         Postgres(h)
  PROVE  Effect(w) /\ \E c : Outcome(h, w, x, c)
<1> DEFINE rest == x.deps \ {"postgres"}
<1>1. /\ rest \in SUBSET AllServices
      /\ x.op = "remove" => rest \subseteq config.services
  BY DEF Working, Calls, CallOK
<1>2. /\ x.pc = "postgres" /\ "postgres" \in config.services
      /\ config' = config /\ authz' = authz /\ s3' = s3 /\ secret' = secret
      /\ spire' = spire /\ callCount' = callCount /\ crashes' = crashes
      /\ pg \in [Roles -> Nat] /\ fresh \in Nat /\ PgRole[w] \in Roles
  BY DEF Postgres, Working, BaseInv, TypeInv, TypeOK, Roles
<1>3. ASSUME NEW p \in Nat, pg' = [pg EXCEPT ![PgRole[w]] = p], fresh' \in Nat
      PROVE  Effect(w) /\ pg'[PgRole[w]] = p
  BY <1>2, <1>3 DEF BaseInv, TypeInv, TypeOK, Effect, StoresOK, Registers,
                    UnusedIsEmpty
<1>4. CASE /\ x.op = "apply"
           /\ pg' = [pg EXCEPT ![PgRole[w]] = fresh]
           /\ fresh' = fresh + 1
           /\ Answered(h, Turn([x EXCEPT !.creds["postgres"] = fresh], rest),
                       "postgres")
  <2> PICK y : y = [x EXCEPT !.creds["postgres"] = fresh]
    OBVIOUS
  <2>1. /\ y \in Calls
        /\ y.op = x.op /\ y.flow = x.flow /\ y.alone = x.alone
        /\ y.creds["postgres"] = fresh
        /\ y.creds["rustfs"] = x.creds["rustfs"]
        /\ y.creds["nats"] = x.creds["nats"]
        /\ y.failed = x.failed
    BY <1>2 DEF Working, Calls, AllServices
  <2>2. Effect(w) /\ pg'[PgRole[w]] = fresh
    <3>1. fresh' \in Nat
      BY <1>2, <1>4
    <3> QED BY <1>2, <1>3, <1>4, <3>1
  <2>3. ASSUME NEW t, Turned(y, rest, t), t.failed = y.failed, Progress(x)
        PROVE  Progress(t)'
    BY <1>2, <1>4, <2>1, <2>2, <2>3 DEF Turned, Progress, Registered, Working
  <2> HIDE DEF rest
  <2>4. \E c : Outcome(h, w, x, c)
    BY <1>1, <1>4, <2>1, <2>3, AnsweredOutcome
  <2> QED BY <2>2, <2>4
<1>5. CASE /\ x.op = "remove"
           /\ pg' = [pg EXCEPT ![PgRole[w]] = 0]
           /\ fresh' = fresh
           /\ Answered(h, Turn(x, rest), "postgres")
  <2>1. Effect(w) /\ pg'[PgRole[w]] = 0
    BY <1>2, <1>3, <1>5
  <2>2. ASSUME NEW t, Turned(x, rest, t), t.failed = x.failed, Progress(x)
        PROVE  Progress(t)'
    BY <1>2, <1>5, <2>1, <2>2 DEF Turned, Progress, Unregistered, Working
  <2> HIDE DEF rest
  <2>3. \E c : Outcome(h, w, x, c)
    BY <1>1, <1>5, <2>2, AnsweredOutcome DEF Working
  <2> QED BY <2>1, <2>3
<1>6. CASE Given(h, "postgres") /\ UNCHANGED <<pg, fresh>>
  <2>1. Effect(w)
    BY <1>2, <1>6, NoEffect DEF serviceVars, Working
  <2> QED BY <1>6, <2>1, GivenOutcome
<1> QED BY <1>4, <1>5, <1>6 DEF Postgres, Working, Flow

Users == [key : Nat, policy : BOOLEAN, attached : BOOLEAN]

\* A change of the tentacle's user in the object store is its own.
LEMMA UserEffect ==
  ASSUME BaseInv, NEW w \in Flows, NEW u \in Users,
         "rustfs" \in config.services, s3' = [s3 EXCEPT ![w] = u], fresh' \in Nat,
         UNCHANGED <<pg, authz, spire, secret, callCount, crashes, config>>
  PROVE  Effect(w) /\ s3'[w] = u
  BY DEF BaseInv, TypeInv, TypeOK, Effect, StoresOK, Registers, UnusedIsEmpty,
         Users

\* The user of the tentacle gets a key.
LEMMA AddUserStep ==
  ASSUME BaseInv, NEW h \in Callers, NEW w, NEW x, Working(h, w, x),
         AddUser(h)
  PROVE  Effect(w) /\ \E c : Outcome(h, w, x, c)
<1> PICK u : u = [s3[w] EXCEPT !.key = fresh]
  OBVIOUS
<1> PICK c : c = [x EXCEPT !.creds["rustfs"] = fresh, !.pc = "addPolicy"]
  OBVIOUS
<1>1. /\ s3[w] \in Users /\ s3 \in [Flows -> Users] /\ w \in Flows /\ fresh \in Nat
      /\ x.pc = "addUser" /\ "rustfs" \in config.services
  BY DEF AddUser, Working, BaseInv, TypeInv, TypeOK, Users
<1>2. u \in Users /\ u.key = fresh
  BY <1>1 DEF Users
<1>3. /\ s3' = [s3 EXCEPT ![w] = u] /\ fresh' = fresh + 1
      /\ UNCHANGED <<pg, authz, spire, secret, callCount, crashes, config>>
  BY DEF AddUser, Working, Flow
<1>4. Effect(w) /\ s3'[w] = u
  <2>1. fresh' \in Nat
    BY <1>1, <1>3
  <2> QED BY <1>1, <1>2, <1>3, <2>1, UserEffect
<1>5. /\ c \in Calls /\ c.pc = "addPolicy"
      /\ c.op = x.op /\ c.flow = x.flow /\ c.alone = x.alone /\ c.deps = x.deps
      /\ c.creds["rustfs"] = fresh
      /\ c.creds["postgres"] = x.creds["postgres"]
      /\ c.creds["nats"] = x.creds["nats"]
  BY <1>1 DEF Working, Calls, AllServices
<1>6. CallOK(c)
  BY <1>1, <1>5 DEF CallOK, Working
<1>7. Progress(x) => Progress(c)'
  BY <1>1, <1>2, <1>3, <1>4, <1>5
     DEF Progress, Registered, Working, CallOK
<1>8. CASE Continue(h, c)
  BY <1>4, <1>5, <1>6, <1>7, <1>8, StayOutcome
<1>9. CASE Given(h, "rustfs")
  BY <1>4, <1>9, GivenOutcome
<1> QED BY <1>8, <1>9 DEF AddUser, Answered, Working

\* The policy of the tentacle is written.
LEMMA AddPolicyStep ==
  ASSUME BaseInv, NEW h \in Callers, NEW w, NEW x, Working(h, w, x),
         AddPolicy(h)
  PROVE  Effect(w) /\ \E c : Outcome(h, w, x, c)
<1> PICK u : u = [s3[w] EXCEPT !.policy = TRUE]
  OBVIOUS
<1> PICK c : c = [x EXCEPT !.pc = "setPolicy"]
  OBVIOUS
<1>1. /\ s3[w] \in Users /\ s3 \in [Flows -> Users] /\ w \in Flows /\ fresh \in Nat
      /\ x.pc = "addPolicy" /\ "rustfs" \in config.services
  BY DEF AddPolicy, Working, CallOK, BaseInv, TypeInv, TypeOK, Users
<1>2. u \in Users /\ u.key = s3[w].key /\ u.policy
  BY <1>1 DEF Users
<1>3. /\ s3' = [s3 EXCEPT ![w] = u] /\ fresh' = fresh
      /\ UNCHANGED <<pg, authz, spire, secret, callCount, crashes, config>>
  BY DEF AddPolicy, Working, Flow
<1>4. Effect(w) /\ s3'[w] = u
  BY <1>1, <1>2, <1>3, UserEffect
<1>5. /\ c \in Calls /\ c.pc = "setPolicy"
      /\ c.op = x.op /\ c.flow = x.flow /\ c.alone = x.alone /\ c.deps = x.deps
      /\ c.creds = x.creds
  BY <1>1 DEF Working, Calls
<1>6. CallOK(c)
  BY <1>1, <1>5 DEF CallOK, Working
<1>7. Progress(x) => Progress(c)'
  BY <1>1, <1>2, <1>3, <1>4, <1>5
     DEF Progress, Registered, Working, CallOK
<1>8. CASE Continue(h, c)
  BY <1>4, <1>5, <1>6, <1>7, <1>8, StayOutcome
<1>9. CASE Given(h, "rustfs")
  BY <1>4, <1>9, GivenOutcome
<1> QED BY <1>8, <1>9 DEF AddPolicy, Answered, Working

\* The policy is attached to the user.
LEMMA SetPolicyStep ==
  ASSUME BaseInv, NEW h \in Callers, NEW w, NEW x, Working(h, w, x),
         SetPolicy(h)
  PROVE  Effect(w) /\ \E c : Outcome(h, w, x, c)
<1> PICK u : u = [s3[w] EXCEPT !.attached = TRUE]
  OBVIOUS
<1>1. /\ s3[w] \in Users /\ s3 \in [Flows -> Users] /\ w \in Flows /\ fresh \in Nat
      /\ x.pc = "setPolicy" /\ x.op = "apply" /\ "rustfs" \in config.services
  BY DEF SetPolicy, Working, CallOK, BaseInv, TypeInv, TypeOK, Users
<1>2. u \in Users /\ u.key = s3[w].key /\ u.policy = s3[w].policy /\ u.attached
  BY <1>1 DEF Users
<1>3. UNCHANGED <<pg, authz, spire, secret, fresh, callCount, crashes, config>>
  BY DEF SetPolicy
<1>4. CASE s3' = [s3 EXCEPT ![w] = u] /\ Answered(h, Turn(x, {}), "rustfs")
  <2>1. Effect(w) /\ s3'[w] = u
    BY <1>1, <1>2, <1>3, <1>4, UserEffect
  <2>2. ASSUME NEW t, Turned(x, {}, t), t.failed = x.failed, Progress(x)
        PROVE  Progress(t)'
    <3>1. /\ t.pc = "spire" /\ t.op = "apply" /\ t.flow = w
          /\ t.creds = x.creds /\ t.alone = x.alone
      BY <1>1, <2>2 DEF Turned, Working
    <3>2. x.alone => Registered(x)
      BY <1>1, <2>2 DEF Progress
    <3>3. x.alone /\ x.creds["rustfs"] # 0 =>
            s3'[w].key = x.creds["rustfs"] /\ s3'[w].policy /\ s3'[w].attached
      <4>1. x.alone /\ x.creds["rustfs"] # 0 =>
              s3[w].key = x.creds["rustfs"] /\ s3[w].policy
        BY <1>1, <3>2 DEF Registered, Working
      <4> QED BY <1>2, <2>1, <4>1
    <3>4. x.alone => Registered(t)'
      BY <1>1, <1>3, <3>1, <3>2, <3>3 DEF Registered, Working
    <3> QED BY <3>1, <3>4 DEF Progress
  <2>3. \E c : Outcome(h, w, x, c)
    BY <1>4, <2>2, AnsweredOutcome DEF Working
  <2> QED BY <2>1, <2>3
<1>5. CASE s3' = s3 /\ Given(h, "rustfs")
  <2>1. Effect(w)
    BY <1>1, <1>3, <1>5, NoEffect DEF serviceVars
  <2> QED BY <1>5, <2>1, GivenOutcome
<1> QED BY <1>4, <1>5 DEF SetPolicy, Working, Flow

\* The user of the tentacle goes, unless the request fails, which is noted.
LEMMA RemoveUserStep ==
  ASSUME BaseInv, NEW h \in Callers, NEW w, NEW x, Working(h, w, x),
         RemoveUser(h)
  PROVE  Effect(w) /\ \E c : Outcome(h, w, x, c)
<1> PICK u : u = [s3[w] EXCEPT !.key = 0, !.attached = FALSE]
  OBVIOUS
<1>1. /\ s3[w] \in Users /\ s3 \in [Flows -> Users] /\ w \in Flows /\ fresh \in Nat
      /\ x.pc = "removeUser" /\ x.op = "remove" /\ x.deps = {"rustfs"}
      /\ "rustfs" \in config.services
  BY DEF RemoveUser, Working, CallOK, BaseInv, TypeInv, TypeOK, Users
<1>2. u \in Users /\ u.key = 0 /\ u.attached = FALSE
  BY <1>1 DEF Users
<1>3. UNCHANGED <<pg, authz, spire, secret, fresh, callCount, crashes, config>>
  BY DEF RemoveUser
<1>4. ASSUME NEW b \in BOOLEAN, NEW c, c = [x EXCEPT !.pc = "removePolicy", !.failed = b]
      PROVE  /\ CallOK(c) /\ c.pc = "removePolicy" /\ c.failed = b
             /\ c.op = x.op /\ c.flow = x.flow /\ c.alone = x.alone
             /\ c.deps = x.deps
  <2>1. /\ c \in Calls /\ c.pc = "removePolicy" /\ c.failed = b
        /\ c.op = x.op /\ c.flow = x.flow /\ c.alone = x.alone
        /\ c.deps = x.deps
    BY <1>4 DEF Working, Calls
  <2> QED BY <1>1, <2>1 DEF CallOK, Working
<1>5. ASSUME NEW b \in BOOLEAN, s3' = [s3 EXCEPT ![w] = u], x.failed => b,
             Continue(h, [x EXCEPT !.pc = "removePolicy", !.failed = b])
      PROVE  Effect(w) /\ \E c : Outcome(h, w, x, c)
  <2> PICK c : c = [x EXCEPT !.pc = "removePolicy", !.failed = b]
    OBVIOUS
  <2>1. /\ CallOK(c) /\ c.pc = "removePolicy" /\ c.failed = b
        /\ c.op = x.op /\ c.flow = x.flow /\ c.alone = x.alone
        /\ c.deps = x.deps
    BY <1>4
  <2>2. Effect(w) /\ s3'[w] = u
    BY <1>1, <1>2, <1>3, <1>5, UserEffect
  <2>3. Progress(x) => Progress(c)'
    BY <1>1, <1>2, <1>3, <1>5, <2>1, <2>2
       DEF Progress, Unregistered, Working
  <2> QED BY <1>5, <2>1, <2>2, <2>3, StayOutcome
<1>6. CASE s3' = s3 /\ Continue(h, [x EXCEPT !.pc = "removePolicy", !.failed = TRUE])
  <2> PICK c : c = [x EXCEPT !.pc = "removePolicy", !.failed = TRUE]
    OBVIOUS
  <2>1. /\ CallOK(c) /\ c.pc = "removePolicy" /\ c.failed = TRUE
        /\ c.op = x.op /\ c.flow = x.flow /\ c.alone = x.alone
        /\ c.deps = x.deps
    BY <1>4
  <2>2. Effect(w)
    BY <1>1, <1>3, <1>6, NoEffect DEF serviceVars
  <2>3. Progress(x) => Progress(c)'
    BY <1>1, <2>1 DEF Progress
  <2> QED BY <1>6, <2>1, <2>2, <2>3, StayOutcome
<1>7. CASE /\ s3' = [s3 EXCEPT ![w].key = 0, ![w].attached = FALSE]
           /\ UNCHANGED settled
           /\ \E lost \in {FALSE} \cup {Faults} :
                call' = [call EXCEPT ![h].pc = "removePolicy",
                                     ![h].failed = @ \/ lost]
  <2>1. s3' = [s3 EXCEPT ![w] = u]
    BY <1>1, <1>7
  <2>2. PICK lost \in BOOLEAN :
          call' = [call EXCEPT ![h].pc = "removePolicy",
                               ![h].failed = @ \/ lost]
    BY <1>7, ExoAssumption
  <2> DEFINE b == x.failed \/ lost
  <2>3. call \in [Callers -> Calls] /\ x \in Calls /\ x = call[h]
    BY DEF BaseInv, TypeInv, TypeOK, Working
  <2>4. call' = [call EXCEPT ![h] = [x EXCEPT !.pc = "removePolicy", !.failed = b]]
    BY <2>2, <2>3 DEF Calls
  <2>5. b \in BOOLEAN /\ (x.failed => b)
    OBVIOUS
  <2>6. Continue(h, [x EXCEPT !.pc = "removePolicy", !.failed = b])
    BY <1>7, <2>4 DEF Continue
  <2> HIDE DEF b
  <2> QED BY <1>5, <2>1, <2>5, <2>6
<1> QED BY <1>6, <1>7 DEF RemoveUser, Working, Flow

\* Without user and policy nothing of the tentacle is left in the object store.
LEMMA RemovePolicyStep ==
  ASSUME BaseInv, NEW h \in Callers, NEW w, NEW x, Working(h, w, x),
         RemovePolicy(h)
  PROVE  Effect(w) /\ \E c : Outcome(h, w, x, c)
<1> PICK u : u = [s3[w] EXCEPT !.policy = FALSE]
  OBVIOUS
<1>1. /\ s3[w] \in Users /\ s3 \in [Flows -> Users] /\ w \in Flows /\ fresh \in Nat
      /\ x.pc = "removePolicy" /\ x.op = "remove" /\ x.deps = {"rustfs"}
      /\ "rustfs" \in config.services
  BY DEF RemovePolicy, Working, CallOK, BaseInv, TypeInv, TypeOK, Users
<1>2. /\ u \in Users
      /\ s3[w].key = 0 /\ ~s3[w].attached => u = CleanUser
  BY <1>1 DEF Users, CleanUser
<1>3. UNCHANGED <<pg, authz, spire, secret, fresh, callCount, crashes, config>>
  BY DEF RemovePolicy
<1>4. CASE s3' = [s3 EXCEPT ![w] = u] /\ Answered(h, Turn(x, {}), "rustfs")
  <2>1. Effect(w) /\ s3'[w] = u
    BY <1>1, <1>2, <1>3, <1>4, UserEffect
  <2>2. ASSUME NEW t, Turned(x, {}, t), t.failed = x.failed, Progress(x)
        PROVE  Progress(t)'
    <3>1. /\ t.pc = "spire" /\ t.op = "remove" /\ t.flow = w /\ t.deps = {}
          /\ t.alone = x.alone /\ x.flow = w
      BY <1>1, <2>2 DEF Turned, Working
    <3>2. x.alone /\ ~x.failed => Unregistered(x)
      BY <1>1, <2>2 DEF Progress
    <3>3. x.alone /\ ~x.failed => Unregistered(t)'
      BY <1>1, <1>2, <1>3, <2>1, <3>1, <3>2 DEF Unregistered
    <3> QED BY <2>2, <3>1, <3>3 DEF Progress
  <2>3. \E c : Outcome(h, w, x, c)
    BY <1>4, <2>2, AnsweredOutcome DEF Working
  <2> QED BY <2>1, <2>3
<1>5. CASE s3' = s3 /\ Given(h, "rustfs")
  <2>1. Effect(w)
    BY <1>1, <1>3, <1>5, NoEffect DEF serviceVars
  <2> QED BY <1>5, <2>1, GivenOutcome
<1> QED BY <1>4, <1>5 DEF RemovePolicy, Working, Flow

\* A removal that gets this far without an error has left nothing.
LEMMA SpireStep ==
  ASSUME BaseInv, NEW h \in Callers, NEW w, NEW x, Working(h, w, x),
         Spire(h)
  PROVE  Effect(w) /\ \E c : Outcome(h, w, x, c)
<1>1. /\ x.pc = "spire" /\ x.deps = {} /\ x.flow = w /\ w \in Flows
      /\ UNCHANGED <<pg, authz, s3, secret, fresh, callCount, crashes, config>>
  BY DEF Spire, Working, CallOK
<1>2. PICK ok \in BOOLEAN :
        /\ spire' = IF ~config.spire \/ ~ok THEN spire
                    ELSE IF x.op = "apply" THEN spire \cup {w} ELSE spire \ {w}
        /\ \/ /\ x.op = "apply"
              /\ Continue(h, [x EXCEPT !.pc = "secret"])
           \/ /\ x.op = "remove"
              /\ Return(h, ~x.failed /\ (ok \/ ~config.spire))
  <2>1. {TRUE} \cup {~Faults} \subseteq BOOLEAN
    OBVIOUS
  <2> QED BY <2>1 DEF Spire, Working, Flow
<1>3. config.spire \in BOOLEAN /\ x.failed \in BOOLEAN
  BY ExoAssumption DEF BaseInv, TypeInv, TypeOK, Working, Calls
<1>4. Effect(w)
  BY <1>1, <1>2 DEF BaseInv, TypeInv, TypeOK, Effect, StoresOK, Registers,
                    UnusedIsEmpty
<1>5. CASE x.op = "apply" /\ Continue(h, [x EXCEPT !.pc = "secret"])
  <2> PICK c : c = [x EXCEPT !.pc = "secret"]
    OBVIOUS
  <2>1. /\ c \in Calls /\ c.pc = "secret" /\ c.op = "apply" /\ c.flow = w
        /\ c.alone = x.alone /\ c.creds = x.creds
    BY <1>1, <1>5 DEF Working, Calls
  <2>2. CallOK(c)
    BY <1>1, <2>1 DEF CallOK
  <2>3. Progress(x) => Progress(c)'
    BY <1>1, <1>5, <2>1 DEF Progress, Registered
  <2> QED BY <1>1, <1>4, <1>5, <2>1, <2>2, <2>3, StayOutcome
<1>6. CASE x.op = "remove" /\ Return(h, ~x.failed /\ (ok \/ ~config.spire))
  <2> DEFINE good == ~x.failed /\ (ok \/ ~config.spire)
  <2>1. good \in BOOLEAN
    BY <1>3
  <2>2. ASSUME good, x.alone, Progress(x)
        PROVE  Clean(w)'
    <3>1. Unregistered(x)
      BY <1>1, <1>6, <2>2 DEF Progress
    <3>2. w \notin spire'
      BY <1>2, <1>6, <2>2 DEF BaseInv, UnusedIsEmpty
    <3> QED BY <1>1, <3>1, <3>2 DEF Unregistered, Clean
  <2>3. Return(h, good)
    BY <1>6
  <2> HIDE DEF good
  <2>4. \E c : Outcome(h, w, x, c)
    BY <1>6, <2>1, <2>2, <2>3, ReturnOutcome
  <2> QED BY <1>4, <2>4
<1> QED BY <1>2, <1>5, <1>6

\* A change of the tentacle's Secret is its own.
LEMMA SecretEffect ==
  ASSUME BaseInv, NEW w \in Flows, NEW creds \in [AllServices -> Nat],
         secret' \in {secret, [secret EXCEPT ![w] = creds]},
         UNCHANGED <<pg, authz, s3, spire, fresh, callCount, crashes, config>>
  PROVE  Effect(w)
  BY DEF BaseInv, TypeInv, TypeOK, Effect, StoresOK, Registers, UnusedIsEmpty

\* The Secret gets the credentials that were made for it.
LEMMA ApplySecretStep ==
  ASSUME BaseInv, NEW h \in Callers, NEW w, NEW x, Working(h, w, x),
         ApplySecret(h)
  PROVE  Effect(w) /\ \E c : Outcome(h, w, x, c)
<1>1. /\ x.pc = "secret" /\ x.op = "apply" /\ x.flow = w /\ w \in Flows
      /\ x.creds \in [AllServices -> Nat]
      /\ UNCHANGED <<pg, authz, s3, spire, fresh, callCount, crashes, config>>
  BY DEF ApplySecret, Working, Calls
<1>2. PICK ok \in BOOLEAN :
        /\ Return(h, ok)
        /\ \/ secret' = [secret EXCEPT ![w] = x.creds]
           \/ /\ ~ok \/ x.contract = {}
              /\ UNCHANGED secret
  <2>1. {TRUE} \cup {~Faults} \subseteq BOOLEAN
    OBVIOUS
  <2> QED BY <2>1 DEF ApplySecret, Working, Flow
<1>3. Effect(w)
  BY <1>1, <1>2, SecretEffect
<1>4. ASSUME ok, x.alone, x.contract # {}, Progress(x)
      PROVE  Works(w)'
  <2>1. Registered(x)
    BY <1>1, <1>4 DEF Progress
  <2>2. secret'[w] = x.creds
    BY <1>1, <1>2, <1>4 DEF BaseInv, TypeInv, TypeOK
  <2>3. s3[w] \in Users
    BY <1>1 DEF BaseInv, TypeInv, TypeOK, Users
  <2>4. x.creds["rustfs"] # 0 =>
          s3[w] = [key |-> x.creds["rustfs"], policy |-> TRUE, attached |-> TRUE]
    BY <1>1, <2>1, <2>3 DEF Registered, Users
  <2> QED BY <1>1, <2>1, <2>2, <2>4 DEF Registered, Works
<1>5. \E c : Outcome(h, w, x, c)
  BY <1>1, <1>2, <1>4, ReturnOutcome
<1> QED BY <1>3, <1>5

\* The Secret goes, and every service there is will be cleaned up.
LEMMA RemoveSecretStep ==
  ASSUME BaseInv, NEW h \in Callers, NEW w, NEW x, Working(h, w, x),
         RemoveSecret(h)
  PROVE  Effect(w) /\ \E c : Outcome(h, w, x, c)
<1>1. /\ x.pc = "secret" /\ x.op = "remove" /\ x.flow = w /\ w \in Flows
      /\ config.services \in SUBSET AllServices
      /\ NoCreds \in [AllServices -> Nat]
      /\ UNCHANGED <<pg, authz, s3, spire, fresh, callCount, crashes, config>>
  BY ExoAssumption
     DEF RemoveSecret, Working, Calls, BaseInv, TypeInv, TypeOK, NoCreds
<1>2. PICK ok \in BOOLEAN :
        /\ secret' = IF ok THEN [secret EXCEPT ![w] = NoCreds] ELSE secret
        /\ \/ /\ config.cleanup
              /\ Continue(h, [Turn(x, config.services) EXCEPT !.failed = ~ok])
           \/ /\ ~config.cleanup
              /\ Return(h, FALSE)
  <2>1. {TRUE} \cup {~Faults} \subseteq BOOLEAN
    OBVIOUS
  <2> QED BY <2>1 DEF RemoveSecret, Working, Flow
<1>3. Effect(w)
  BY <1>1, <1>2, SecretEffect
<1>4. CASE Return(h, FALSE)
  BY <1>3, <1>4, ReturnOutcome
<1>5. CASE Continue(h, [Turn(x, config.services) EXCEPT !.failed = ~ok])
  <2> PICK t : t = Turn(x, config.services)
    OBVIOUS
  <2> PICK c : c = [t EXCEPT !.failed = ~ok]
    OBVIOUS
  <2>1. Turned(x, config.services, t)
    BY <1>1, TurnSpec DEF Working
  <2>2. Turned(x, config.services, c) /\ c.failed = ~ok
    BY <2>1 DEF Turned, Calls
  <2>3. CallOK(c) /\ c.pc # "idle" /\ c.pc # "natsPut"
    BY <1>1, <2>2, TurnedOK
  <2>4. /\ c.flow = w /\ c.op = "remove" /\ c.alone = x.alone
        /\ c.deps = config.services /\ c.pc # "removePolicy"
    BY <1>1, <2>2 DEF Turned
  <2>5. ok => secret'[w] = NoCreds
    BY <1>1, <1>2 DEF BaseInv, TypeInv, TypeOK
  <2>6. ok => Unregistered(c)'
    <3>1. PgRole[w] \in Roles
      BY <1>1 DEF Roles
    <3> QED BY <1>1, <2>4, <2>5, <3>1 DEF Unregistered, BaseInv, UnusedIsEmpty
  <2>7. Progress(c)'
    BY <2>2, <2>4, <2>6 DEF Progress
  <2>8. Outcome(h, w, x, c)
    BY <1>1, <1>5, <2>3, <2>4, <2>7, StayOutcome
  <2> QED BY <1>3, <2>8
<1> QED BY <1>2, <1>4, <1>5

---------------------------------------------------------------------------
(* Types, and what the ConfigMap had when it was read *)

\* The steps of a call after the one that begins it.
Advance(h) ==
  \/ Unavailable(h)
  \/ NatsToken(h) \/ NatsGet(h) \/ NatsPut(h)
  \/ Postgres(h)
  \/ AddUser(h) \/ AddPolicy(h) \/ SetPolicy(h)
  \/ RemoveUser(h) \/ RemovePolicy(h)
  \/ Spire(h)
  \/ ApplySecret(h) \/ RemoveSecret(h)
  \/ ServiceFail(h)

\* Every step of a call is one of the above.
LEMMA AdvanceStep ==
  ASSUME BaseInv, NEW h \in Callers, Advance(h)
  PROVE  \E w \in Flows : \E x, c :
           Working(h, w, x) /\ Effect(w) /\ Outcome(h, w, x, c)
<1>1. Busy(h)
  BY DEF Advance, Busy, Unavailable, NatsToken, NatsGet, NatsPut, Postgres,
         AddUser, AddPolicy, SetPolicy, RemoveUser, RemovePolicy, Spire,
         ApplySecret, RemoveSecret, ServiceFail, ServiceOf
<1>2. PICK w, x : w \in Flows /\ Working(h, w, x)
  BY <1>1, BusyWorks DEF BaseInv
<1>3. Effect(w) /\ \E c : Outcome(h, w, x, c)
  <2>1. CASE Unavailable(h)
    BY <1>2, <2>1, UnavailableStep
  <2>2. CASE NatsToken(h)
    BY <1>2, <2>2, NatsTokenStep
  <2>3. CASE NatsGet(h)
    BY <1>2, <2>3, NatsGetStep
  <2>4. CASE NatsPut(h)
    BY <1>2, <2>4, NatsPutStep
  <2>5. CASE Postgres(h)
    BY <1>2, <2>5, PostgresStep
  <2>6. CASE AddUser(h)
    BY <1>2, <2>6, AddUserStep
  <2>7. CASE AddPolicy(h)
    BY <1>2, <2>7, AddPolicyStep
  <2>8. CASE SetPolicy(h)
    BY <1>2, <2>8, SetPolicyStep
  <2>9. CASE RemoveUser(h)
    BY <1>2, <2>9, RemoveUserStep
  <2>10. CASE RemovePolicy(h)
    BY <1>2, <2>10, RemovePolicyStep
  <2>11. CASE Spire(h)
    BY <1>2, <2>11, SpireStep
  <2>12. CASE ApplySecret(h)
    BY <1>2, <2>12, ApplySecretStep
  <2>13. CASE RemoveSecret(h)
    BY <1>2, <2>13, RemoveSecretStep
  <2>14. CASE ServiceFail(h)
    BY <1>2, <2>14, ServiceFailStep
  <2> QED BY <2>1, <2>2, <2>3, <2>4, <2>5, <2>6, <2>7, <2>8, <2>9, <2>10,
             <2>11, <2>12, <2>13, <2>14 DEF Advance
<1> QED BY <1>2, <1>3

\* The call that h begins for w, before it is known whether it has rivals.
Begins(h, w, c) ==
  /\ CallOK(c)
  /\ c.pc # "idle" /\ c.pc # "natsPut" /\ c.flow = w
  /\ c.creds = NoCreds
  /\ c.op = "remove" => c.pc = "secret"

\* wf_apply begins with the first service or with the Secret.
LEMMA ApplyBegins ==
  ASSUME NEW h \in Callers, NEW w \in Flows, NEW deps \in Contracts,
         Apply(h, w, deps)
  PROVE  \E c : Begin(h, c) /\ Begins(h, w, c)
<1> PICK c : c = [NoCall EXCEPT !.op = "apply", !.flow = w, !.contract = deps]
  OBVIOUS
<1>1. deps \in SUBSET AllServices
  BY ExoAssumption
<1>2. /\ c \in Calls /\ c.op = "apply" /\ c.flow = w /\ c.creds = NoCreds
      /\ NoCreds \in [AllServices -> Nat]
  BY <1>1 DEF NoCall, Calls, NoCreds
<1>3. CASE deps = {}
  <2> PICK d : d = [c EXCEPT !.pc = "secret"]
    OBVIOUS
  <2>1. /\ d \in Calls /\ d.pc = "secret" /\ d.op = "apply" /\ d.flow = w
        /\ d.creds = NoCreds
    BY <1>2 DEF Calls
  <2>2. Begins(h, w, d)
    BY <2>1 DEF Begins, CallOK
  <2>3. Begin(h, d)
    BY <1>3 DEF Apply
  <2> QED BY <2>2, <2>3
<1>4. CASE deps # {}
  <2> PICK d : d = Turn(c, deps)
    OBVIOUS
  <2>1. Turned(c, deps, d)
    BY <1>1, <1>2, TurnSpec
  <2>2. CallOK(d) /\ d.pc # "idle" /\ d.pc # "natsPut"
    BY <1>2, <2>1, TurnedOK
  <2>3. Begins(h, w, d)
    BY <1>2, <2>1, <2>2 DEF Begins, Turned
  <2>4. Begin(h, d)
    BY <1>4 DEF Apply
  <2> QED BY <2>3, <2>4
<1> QED BY <1>3, <1>4

\* wf_remove begins with the Secret.
LEMMA RemoveBegins ==
  ASSUME NEW h \in Callers, NEW w \in Flows, RemoveFlow(h, w)
  PROVE  \E c : Begin(h, c) /\ Begins(h, w, c)
<1> PICK c : c = [NoCall EXCEPT !.op = "remove", !.flow = w, !.pc = "secret"]
  OBVIOUS
<1>1. /\ c \in Calls /\ c.op = "remove" /\ c.flow = w /\ c.creds = NoCreds
      /\ c.pc = "secret" /\ c.deps = {}
  BY DEF NoCall, Calls, NoCreds
<1>2. Begins(h, w, c)
  BY <1>1 DEF Begins, CallOK
<1> QED BY <1>2 DEF RemoveFlow

\* What a call that begins does to the calls in flight.
LEMMA BeginCalls ==
  ASSUME TypeInv, NEW h \in Callers, NEW w \in Flows, NEW c, Begin(h, c),
         Begins(h, w, c)
  PROVE  /\ ~Busy(h) /\ settled' = settled /\ config' = config
         /\ callCount' = callCount + 1
         /\ UNCHANGED <<serviceVars, crashes>>
         /\ call' = [g \in Callers |-> call'[g]]
         /\ call'[h] = [c EXCEPT !.alone =
              \A g \in Callers : ~(Busy(g) /\ Flow(g) = w)]
         /\ \A g \in Callers \ {h} :
              call'[g] = IF Busy(g) /\ Flow(g) = w
                         THEN [call[g] EXCEPT !.alone = FALSE] ELSE call[g]
<1> DEFINE rivals == {g \in Callers : Busy(g) /\ Flow(g) = w}
<1>1. c.flow = w
  BY DEF Begins
<1>2. call' = [g \in Callers |->
       IF g = h THEN [c EXCEPT !.alone = (rivals = {})]
       ELSE IF g \in rivals THEN [call[g] EXCEPT !.alone = FALSE]
       ELSE call[g]]
  BY <1>1 DEF Begin
<1>3. (rivals = {}) = (\A g \in Callers : ~(Busy(g) /\ Flow(g) = w))
  OBVIOUS
<1>4. /\ call' = [g \in Callers |-> call'[g]]
      /\ call'[h] = [c EXCEPT !.alone = (rivals = {})]
  BY <1>2
<1>5. \A g \in Callers \ {h} :
        call'[g] = IF Busy(g) /\ Flow(g) = w
                   THEN [call[g] EXCEPT !.alone = FALSE] ELSE call[g]
  BY <1>2
<1>6. call'[h] = [c EXCEPT !.alone = \A g \in Callers : ~(Busy(g) /\ Flow(g) = w)]
  BY <1>3, <1>4, Zenon
<1> QED BY <1>4, <1>5, <1>6 DEF Begin

\* What a step leaves alone of a call.
SameCall(c, d) ==
  /\ d.pc = c.pc /\ d.op = c.op /\ d.flow = c.flow /\ d.deps = c.deps
  /\ d.creds = c.creds /\ d.seen = c.seen /\ d.failed = c.failed

\* Whether a call is alone is no part of it.
LEMMA AloneChange ==
  ASSUME NEW c \in Calls, NEW b \in BOOLEAN
  PROVE  LET d == [c EXCEPT !.alone = b] IN
         d \in Calls /\ SameCall(c, d) /\ d.alone = b
  BY DEF Calls, SameCall

\* Calls that differ only in that are well formed alike.
LEMMA SameOK ==
  ASSUME NEW c, NEW d \in Calls, SameCall(c, d), CallOK(c), config' = config
  PROVE  CallOK(d)'
  BY DEF SameCall, CallOK

\* The calls in flight after another one has begun.
LEMMA BeginSame ==
  ASSUME TypeInv, NEW h \in Callers, NEW w \in Flows, NEW c, Begin(h, c),
         Begins(h, w, c)
  PROVE  /\ call' \in [Callers -> Calls]
         /\ SameCall(c, call'[h])
         /\ call'[h].alone = \A g \in Callers : ~(Busy(g) /\ Flow(g) = w)
         /\ \A g \in Callers \ {h} :
              /\ SameCall(call[g], call'[g])
              /\ call'[g].alone \in BOOLEAN
              /\ call'[g].alone => call[g].alone
              /\ Busy(g) /\ Flow(g) = w => ~call'[g].alone
<1> PICK alone : alone = \A g \in Callers : ~(Busy(g) /\ Flow(g) = w)
  OBVIOUS
<1>1. call'[h] = [c EXCEPT !.alone = alone] /\ alone \in BOOLEAN
  BY BeginCalls
<1>2. c \in Calls
  BY DEF Begins, CallOK
<1>3. call'[h] \in Calls /\ SameCall(c, call'[h]) /\ call'[h].alone = alone
  BY <1>1, <1>2, AloneChange
<1>4. ASSUME NEW g \in Callers \ {h}
      PROVE  /\ call'[g] \in Calls
             /\ SameCall(call[g], call'[g])
             /\ call'[g].alone \in BOOLEAN
             /\ call'[g].alone => call[g].alone
             /\ Busy(g) /\ Flow(g) = w => ~call'[g].alone
  <2>1. call[g] \in Calls
    BY DEF TypeInv, TypeOK
  <2>2. CASE Busy(g) /\ Flow(g) = w
    <3>1. call'[g] = [call[g] EXCEPT !.alone = FALSE]
      BY <2>2, BeginCalls
    <3>2. /\ call'[g] \in Calls /\ SameCall(call[g], call'[g])
          /\ call'[g].alone = FALSE
      BY <2>1, <3>1, AloneChange
    <3> QED BY <3>2
  <2>3. CASE ~(Busy(g) /\ Flow(g) = w)
    <3>1. call'[g] = call[g]
      BY <2>3, BeginCalls
    <3> QED BY <2>1, <2>3, <3>1 DEF SameCall, Calls
  <2> QED BY <2>2, <2>3
<1>5. call' = [g \in Callers |-> call'[g]]
  BY BeginCalls
<1>6. call' \in [Callers -> Calls]
  BY <1>3, <1>4, <1>5
<1> QED BY <1>3, <1>4, <1>6

\* Beginning a call keeps the types, and reads nothing.
LEMMA BeginBase ==
  ASSUME BaseInv, NEW h \in Callers, NEW w \in Flows, NEW c, Begin(h, c),
         Begins(h, w, c)
  PROVE  BaseInv'
<1>1. TypeInv
  BY DEF BaseInv
<1>2. /\ settled' = settled /\ config' = config /\ callCount' = callCount + 1
      /\ UNCHANGED <<serviceVars, crashes>>
  BY <1>1, BeginCalls
<1>3. /\ call' \in [Callers -> Calls]
      /\ SameCall(c, call'[h])
      /\ \A g \in Callers \ {h} : SameCall(call[g], call'[g])
  BY <1>1, BeginSame
<1>4. TypeOK'
  BY <1>1, <1>2, <1>3 DEF TypeInv, TypeOK, serviceVars
<1>5. ASSUME NEW g \in Callers
      PROVE  CallOK(call[g])' /\ Fresh(call[g])'
  <2> PICK d : d = call'[g]
    OBVIOUS
  <2>1. d \in Calls /\ authz' = authz
    BY <1>2, <1>3 DEF serviceVars
  <2>2. CASE g = h
    <3>1. SameCall(c, d) /\ CallOK(c) /\ c.pc # "natsPut"
      BY <1>3, <2>2 DEF Begins
    <3>2. CallOK(d)' /\ d.pc # "natsPut"
      BY <1>2, <2>1, <3>1, SameOK DEF SameCall
    <3> QED BY <3>2 DEF Fresh
  <2>3. CASE g # h
    <3> PICK k : k = call[g]
      OBVIOUS
    <3>1. SameCall(k, d) /\ CallOK(k) /\ Fresh(k)
      BY <1>1, <1>3, <2>3 DEF TypeInv, BaseInv, ReadsCurrent
    <3>2. CallOK(d)'
      BY <1>2, <2>1, <3>1, SameOK
    <3>3. Fresh(d)'
      BY <2>1, <3>1 DEF SameCall, Fresh
    <3> QED BY <3>2, <3>3
  <2> QED BY <2>2, <2>3
<1>6. UnusedIsEmpty'
  BY <1>2 DEF BaseInv, UnusedIsEmpty, serviceVars
<1> QED BY <1>4, <1>5, <1>6 DEF BaseInv, TypeInv, ReadsCurrent

\* A step of a call keeps the types, and makes what others read stale rather
\* than wrong.
LEMMA AdvanceBase ==
  ASSUME BaseInv, NEW h \in Callers, NEW w \in Flows, NEW x, NEW c,
         Working(h, w, x), Effect(w), Outcome(h, w, x, c)
  PROVE  BaseInv'
<1>1. /\ TypeOK /\ StoresOK' /\ config' = config /\ UnusedIsEmpty'
  BY DEF BaseInv, TypeInv, Effect
<1>2. /\ call' = [call EXCEPT ![h] = c] /\ CallOK(c) /\ c \in Calls
      /\ c.pc = "natsPut" => c.seen = authz /\ authz' = authz
  BY DEF Outcome, CallOK
<1>3. settled' \in [Flows -> {"apply", "plain", "remove", "unknown"}]
  BY <1>1 DEF Outcome, Moves, Ends, TypeOK
<1>4. TypeOK'
  BY <1>1, <1>2, <1>3 DEF TypeOK, StoresOK
<1>5. /\ authz \in Registries /\ authz' \in Registries
      /\ authz' = authz \/ authz'.rv > authz.rv
  BY <1>1, <1>4 DEF TypeOK, Effect, Registers
<1>6. ASSUME NEW g \in Callers
      PROVE  CallOK(call[g])' /\ Fresh(call[g])'
  <2> PICK d : d = call'[g]
    OBVIOUS
  <2>1. CASE g = h
    <3>1. d = c
      BY <1>1, <1>2, <2>1 DEF TypeOK
    <3>2. CallOK(d)'
      BY <1>1, <1>2, <3>1 DEF CallOK
    <3>3. Fresh(d)'
      BY <1>2, <1>5, <3>1 DEF Fresh, Registries
    <3> QED BY <3>2, <3>3
  <2>2. CASE g # h
    <3>1. d = call[g]
      BY <1>1, <1>2, <2>2 DEF TypeOK
    <3>2. CallOK(d) /\ Fresh(d)
      BY <3>1 DEF BaseInv, TypeInv, ReadsCurrent
    <3>3. CallOK(d)'
      BY <1>1, <3>2 DEF CallOK
    <3>4. d.pc = "natsPut" => d.seen \in Registries
      BY <3>2 DEF CallOK
    <3>5. Fresh(d)'
      BY <1>5, <3>2, <3>4 DEF Fresh, Registries
    <3> QED BY <3>3, <3>5
  <2> QED BY <2>1, <2>2
<1> QED BY <1>1, <1>4, <1>6 DEF BaseInv, TypeInv, ReadsCurrent

\* After a crash nothing is in flight.
LEMMA CrashBase ==
  ASSUME BaseInv, Crash
  PROVE  BaseInv'
<1>1. /\ call' = [h \in Callers |-> NoCall] /\ config' = config
      /\ CallOK(NoCall) /\ NoCall \in Calls
      /\ UNCHANGED <<serviceVars, callCount>>
      /\ crashes' = crashes + 1
  BY NoCallOK DEF Crash, CallOK
<1>2. settled' \in [Flows -> {"apply", "plain", "remove", "unknown"}]
  BY DEF BaseInv, TypeInv, TypeOK, Crash
<1>3. TypeOK'
  BY <1>1, <1>2 DEF BaseInv, TypeInv, TypeOK, serviceVars
<1>4. CallOK(NoCall)' /\ Fresh(NoCall)'
  BY <1>1 DEF CallOK, Fresh, NoCall
<1>5. UnusedIsEmpty'
  BY <1>1 DEF BaseInv, UnusedIsEmpty, serviceVars
<1> QED BY <1>1, <1>3, <1>4, <1>5 DEF BaseInv, TypeInv, ReadsCurrent

\* Every step begins a call, advances one, or is a crash.
LEMMA NextCases ==
  ASSUME BaseInv, Next
  PROVE  \/ \E h \in Callers, w \in Flows : \E c : Begin(h, c) /\ Begins(h, w, c)
         \/ \E h \in Callers, w \in Flows : \E x, c :
              Working(h, w, x) /\ Effect(w) /\ Outcome(h, w, x, c)
         \/ Crash
<1>1. ASSUME NEW h \in Callers, NEW w \in Flows, NEW deps \in Contracts,
             Apply(h, w, deps)
      PROVE  \E c : Begin(h, c) /\ Begins(h, w, c)
  BY <1>1, ApplyBegins
<1>2. ASSUME NEW h \in Callers, NEW w \in Flows, RemoveFlow(h, w)
      PROVE  \E c : Begin(h, c) /\ Begins(h, w, c)
  BY <1>2, RemoveBegins
<1>3. ASSUME NEW h \in Callers, Advance(h)
      PROVE  \E w \in Flows : \E x, c :
               Working(h, w, x) /\ Effect(w) /\ Outcome(h, w, x, c)
  BY <1>3, AdvanceStep
<1> QED BY <1>1, <1>2, <1>3 DEF Next, Advance

\* Nothing is registered and nothing is in flight at first.
LEMMA BaseInit == Init => BaseInv
<1> SUFFICES ASSUME Init PROVE BaseInv
  OBVIOUS
<1>1. CallOK(NoCall) /\ NoCall \in Calls /\ Fresh(NoCall)
  BY NoCallOK DEF CallOK, Fresh, NoCall
<1>2. TypeOK
  BY <1>1 DEF Init, TypeOK, Registries, NoCreds, Roles
<1>3. UnusedIsEmpty
  BY DEF Init, UnusedIsEmpty, CleanUser
<1> QED BY <1>1, <1>2, <1>3 DEF BaseInv, TypeInv, ReadsCurrent, Init

\* The types, and what the reads of the ConfigMap say, are kept by every step.
LEMMA BaseStep == BaseInv /\ [Next]_vars => BaseInv'
<1> SUFFICES ASSUME BaseInv, [Next]_vars PROVE BaseInv'
  OBVIOUS
<1>1. CASE Next
  BY <1>1, NextCases, BeginBase, AdvanceBase, CrashBase
<1>2. CASE UNCHANGED vars
  <2>1. /\ config' = config /\ pg' = pg /\ authz' = authz /\ s3' = s3
        /\ spire' = spire /\ secret' = secret /\ call' = call /\ fresh' = fresh
        /\ callCount' = callCount /\ crashes' = crashes /\ settled' = settled
    BY <1>2 DEF vars
  <2> QED BY <2>1 DEF BaseInv, TypeInv, TypeOK, CallOK, ReadsCurrent, Fresh,
                      UnusedIsEmpty
<1> QED BY <1>1, <1>2

\* Hence they always hold.
LEMMA BaseCorrect == Spec => []BaseInv
<1> QED BY BaseInit, BaseStep, PTL DEF Spec

\* Type correctness: the records the handlers pass from step to step, the
\* credentials and the objects in the services are always what the code takes
\* them for.
THEOREM ExoskeletonTypeCorrect == Spec => []TypeOK
<1>1. BaseInv => TypeOK
  BY DEF BaseInv, TypeInv
<1> QED BY <1>1, BaseCorrect, PTL

\* Registrations are atomic, however many calls race each other for the shared
\* ConfigMap: the update is refused unless the version is the one that was read,
\* so every step adds or drops the entry of its own tentacle or leaves them all.
THEOREM RegistrationsAlwaysAtomic == Spec => RegistrationsAreAtomic
<1>1. Init => Registry!Init
  BY DEF Init, Registry!Init
<1>2. BaseInv /\ [Next]_vars => [Registry!Next]_(authz.entries)
  <2> SUFFICES ASSUME BaseInv, [Next]_vars
               PROVE  Registry!Next \/ authz'.entries = authz.entries
    OBVIOUS
  <2>1. CASE UNCHANGED vars
    BY <2>1 DEF vars
  <2>2. CASE Crash
    BY <2>2 DEF Crash, serviceVars
  <2>3. ASSUME NEW h \in Callers, NEW c, Begin(h, c)
        PROVE  authz'.entries = authz.entries
    BY <2>3 DEF Begin, serviceVars
  <2>4. ASSUME NEW w \in Flows, Effect(w)
        PROVE  Registry!Next \/ authz'.entries = authz.entries
    BY <2>4 DEF Effect, Registers, Registry!Next, Registry!Add, Registry!Drop
  <2> QED BY <2>1, <2>2, <2>3, <2>4, NextCases
<1> QED BY <1>1, <1>2, BaseCorrect, PTL
        DEF Spec, RegistrationsAreAtomic, Registry!Spec

---------------------------------------------------------------------------
(* Credentials and removals *)

\* Nothing of v changes in any service.
Same(v) ==
  /\ config' = config
  /\ pg'[PgRole[v]] = pg[PgRole[v]]
  /\ s3'[v] = s3[v] /\ secret'[v] = secret[v]
  /\ v \in spire' <=> v \in spire
  /\ v \in authz'.entries <=> v \in authz.entries

\* A step for one tentacle changes nothing of the others.
LEMMA OthersSame ==
  ASSUME OwnRoles, NEW w \in Flows, Effect(w), NEW v \in Flows \ {w}
  PROVE  Same(v)
<1>1. PgRole[v] # PgRole[w] /\ PgRole[v] \in Roles
  BY DEF OwnRoles, Roles
<1> QED BY <1>1 DEF Same, Effect, Registers

\* So what holds of them goes on holding.
LEMMA SameKeeps ==
  ASSUME NEW v \in Flows, Same(v)
  PROVE  /\ Works(v) => Works(v)'
         /\ Clean(v) => Clean(v)'
         /\ \A c : c.flow = v /\ Progress(c) => Progress(c)'
<1>1. Works(v) => Works(v)'
  BY DEF Same, Works
<1>2. Clean(v) => Clean(v)'
  BY DEF Same, Clean
<1>3. ASSUME NEW c, c.flow = v, Progress(c)
      PROVE  Progress(c)'
  BY <1>3 DEF Same, Progress, Registered, Unregistered
<1> QED BY <1>1, <1>2, <1>3

\* The two promises in terms of the above.
LEMMA Promises ==
  /\ SecretsWork <=>
       \A w \in Flows : AtRest(w) /\ settled[w] = "apply" => Works(w)
  /\ RemovalLeavesNothing <=>
       \A w \in Flows : AtRest(w) /\ settled[w] = "remove" => Clean(w)
  BY DEF SecretsWork, Works, RemovalLeavesNothing, Clean, CleanUser

\* A call that begins has achieved nothing yet, and takes its rivals' solitude.
LEMMA BeginParts ==
  ASSUME BaseInv, ServiceParts, NEW h \in Callers, NEW w \in Flows, NEW c,
         Begin(h, c), Begins(h, w, c)
  PROVE  ServiceParts'
<1>1. TypeInv
  BY DEF BaseInv
<1>2. /\ ~Busy(h) /\ settled' = settled /\ config' = config
      /\ pg' = pg /\ authz' = authz /\ s3' = s3 /\ spire' = spire
      /\ secret' = secret
  BY <1>1, BeginCalls DEF serviceVars
<1>3. /\ SameCall(c, call'[h])
      /\ call'[h].alone => \A g \in Callers : ~(Busy(g) /\ Flow(g) = w)
      /\ \A g \in Callers \ {h} :
           /\ SameCall(call[g], call'[g])
           /\ call'[g].alone => call[g].alone
           /\ Busy(g) /\ Flow(g) = w => ~call'[g].alone
  BY <1>1, BeginSame
<1>4. /\ call'[h].flow = w /\ call'[h].pc = c.pc /\ c.pc # "idle"
      /\ call'[h].op = c.op /\ call'[h].creds = NoCreds
      /\ c.op = "remove" => c.pc = "secret"
      /\ \A g \in Callers \ {h} :
           call'[g].flow = call[g].flow /\ call'[g].pc = call[g].pc
  BY <1>3 DEF SameCall, Begins
<1>5. AloneIsAlone'
  BY <1>3, <1>4 DEF ServiceParts, AloneIsAlone, Busy, Flow
<1>6. ProgressInv'
  <2>1. Progress(call[h])'
    <3>1. Registered(call[h])'
      BY <1>4 DEF Registered, NoCreds, AllServices
    <3>2. c.op = "remove" => Unregistered(call[h])'
      BY <1>4 DEF Unregistered
    <3> QED BY <1>4, <3>1, <3>2 DEF Progress
  <2>2. ASSUME NEW g \in Callers \ {h}
        PROVE  Progress(call[g])'
    <3> PICK k, d : k = call[g] /\ d = call'[g]
      OBVIOUS
    <3>1. Progress(k) /\ SameCall(k, d) /\ (d.alone => k.alone)
      BY <1>3 DEF ServiceParts, ProgressInv
    <3>2. Progress(d)
      BY <3>1 DEF SameCall, Progress, Registered, Unregistered
    <3>3. Progress(d)'
      BY <1>2, <3>2 DEF Progress, Registered, Unregistered
    <3> QED BY <3>3
  <2> QED BY <2>1, <2>2 DEF ProgressInv
<1>7. ASSUME NEW v \in Flows
      PROVE  /\ AtRest(v)' => AtRest(v)
             /\ Works(v) => Works(v)'
             /\ Clean(v) => Clean(v)'
  <2>1. AtRest(v)' => AtRest(v)
    BY <1>2, <1>4 DEF AtRest, Busy, Flow
  <2>2. Same(v)
    BY <1>2 DEF Same
  <2> QED BY <2>1, <2>2, SameKeeps
<1>8. /\ \A v \in Flows : (AtRest(v) /\ settled[v] = "apply" => Works(v))'
      /\ \A v \in Flows : (AtRest(v) /\ settled[v] = "remove" => Clean(v))'
  BY <1>2, <1>7, Promises DEF ServiceParts
<1>9. SecretsWork' /\ RemovalLeavesNothing'
  BY <1>8 DEF SecretsWork, RemovalLeavesNothing, Works, Clean, CleanUser
<1> QED BY <1>5, <1>6, <1>9 DEF ServiceParts

\* A step of a call keeps what the call itself has achieved, what the calls for
\* other tentacles have, and what is settled for the tentacles at rest.
LEMMA AdvanceParts ==
  ASSUME OwnRoles, BaseInv, ServiceParts, NEW h \in Callers, NEW w \in Flows,
         NEW x, NEW c, Working(h, w, x), Effect(w), Outcome(h, w, x, c)
  PROVE  ServiceParts'
<1>1. /\ call \in [Callers -> Calls]
      /\ settled \in [Flows -> {"apply", "plain", "remove", "unknown"}]
  BY DEF BaseInv, TypeInv, TypeOK
<1>2. /\ call'[h] = c
      /\ \A g \in Callers \ {h} : call'[g] = call[g]
  BY <1>1 DEF Outcome
<1>3. /\ x = call[h] /\ x.pc # "idle" /\ x.flow = w
  BY DEF Working
<1>4. \/ c.pc = "idle"
      \/ c.pc # "idle" /\ c.flow = w /\ c.alone = x.alone
  BY <1>3 DEF Outcome, Moves, Ends, NoCall
<1>5. AloneIsAlone'
  BY <1>2, <1>3, <1>4 DEF ServiceParts, AloneIsAlone, Busy, Flow
<1>6. ASSUME NEW g \in Callers
      PROVE  Progress(call[g])'
  <2> PICK d : d = call'[g]
    OBVIOUS
  <2>1. CASE g = h
    <3>1. d = c /\ Progress(x)
      BY <1>2, <1>3, <2>1 DEF ServiceParts, ProgressInv
    <3>2. Progress(d)'
      <4>1. CASE Moves(x, c)
        BY <3>1, <4>1 DEF Moves
      <4>2. CASE c = NoCall
        BY <3>1, <4>2 DEF Progress, NoCall
      <4> QED BY <4>1, <4>2 DEF Outcome, Ends
    <3> QED BY <3>2
  <2>2. CASE g # h
    <3>1. d = call[g] /\ Progress(d) /\ CallOK(d)
      BY <1>2, <2>2 DEF ServiceParts, ProgressInv, BaseInv, TypeInv
    <3>2. CASE d.pc = "idle" \/ ~d.alone
      BY <3>2 DEF Progress
    <3>3. CASE d.pc # "idle" /\ d.alone
      <4>1. d.flow \in Flows \ {w}
        BY <1>3, <2>2, <3>1, <3>3
           DEF ServiceParts, AloneIsAlone, Busy, Flow, CallOK
      <4>2. Same(d.flow)
        BY <4>1, OthersSame
      <4>3. Progress(d)'
        BY <3>1, <4>1, <4>2, SameKeeps
      <4> QED BY <4>3
    <3> QED BY <3>2, <3>3
  <2> QED BY <2>1, <2>2
<1>7. ASSUME NEW v \in Flows \ {w}
      PROVE  /\ AtRest(v)' => AtRest(v)
             /\ settled'[v] = settled[v]
             /\ Works(v) => Works(v)'
             /\ Clean(v) => Clean(v)'
  <2>1. AtRest(v)' => AtRest(v)
    BY <1>2, <1>3 DEF AtRest, Busy, Flow
  <2>2. settled'[v] = settled[v]
    BY <1>1 DEF Outcome, Moves, Ends
  <2> QED BY <2>1, <2>2, OthersSame, SameKeeps
<1>8. /\ AtRest(w)' /\ settled'[w] = "apply" => Works(w)'
      /\ AtRest(w)' /\ settled'[w] = "remove" => Clean(w)'
  <2>1. Progress(x)
    BY <1>3 DEF ServiceParts, ProgressInv
  <2>2. c.pc # "idle" => ~AtRest(w)'
    BY <1>2, <1>4 DEF AtRest, Busy, Flow
  <2> QED BY <1>1, <2>1, <2>2 DEF Outcome, Moves, Ends
<1>9. /\ \A v \in Flows : AtRest(v)' /\ settled'[v] = "apply" => Works(v)'
      /\ \A v \in Flows : AtRest(v)' /\ settled'[v] = "remove" => Clean(v)'
  BY <1>7, <1>8, Promises DEF ServiceParts
<1>10. SecretsWork' /\ RemovalLeavesNothing'
  BY <1>9 DEF SecretsWork, RemovalLeavesNothing, Works, Clean, CleanUser
<1> QED BY <1>5, <1>6, <1>10 DEF ServiceParts, ProgressInv

\* A crash settles nothing that was in flight.
LEMMA CrashParts ==
  ASSUME BaseInv, ServiceParts, Crash
  PROVE  ServiceParts'
<1>1. /\ call' = [h \in Callers |-> NoCall] /\ config' = config
      /\ pg' = pg /\ authz' = authz /\ s3' = s3 /\ spire' = spire
      /\ secret' = secret
  BY DEF Crash, serviceVars
<1>2. AloneIsAlone' /\ ProgressInv'
  BY <1>1 DEF AloneIsAlone, ProgressInv, Progress, Busy, NoCall
<1>3. ASSUME NEW v \in Flows, settled'[v] # "unknown"
      PROVE  AtRest(v) /\ settled'[v] = settled[v]
  BY <1>3 DEF Crash, AtRest
<1>4. ASSUME NEW v \in Flows
      PROVE  /\ Works(v) => Works(v)'
             /\ Clean(v) => Clean(v)'
  <2>1. Same(v)
    BY <1>1 DEF Same
  <2> QED BY <2>1, SameKeeps
<1>5. /\ \A v \in Flows : settled'[v] = "apply" => Works(v)'
      /\ \A v \in Flows : settled'[v] = "remove" => Clean(v)'
  BY <1>3, <1>4, Promises DEF ServiceParts
<1>6. SecretsWork' /\ RemovalLeavesNothing'
  BY <1>5 DEF SecretsWork, RemovalLeavesNothing, Works, Clean, CleanUser
<1> QED BY <1>2, <1>6 DEF ServiceParts

\* The inductive invariant.
LEMMA ServicesCorrect ==
  ASSUME OwnRoles
  PROVE  Spec => []ServiceParts
<1>1. Init => ServiceParts
  <2> SUFFICES ASSUME Init PROVE ServiceParts
    OBVIOUS
  <2>1. AloneIsAlone /\ ProgressInv
    BY DEF Init, AloneIsAlone, ProgressInv, Progress, Busy, NoCall
  <2>2. SecretsWork
    BY DEF Init, SecretsWork
  <2>3. RemovalLeavesNothing
    BY DEF Init, RemovalLeavesNothing, Roles
  <2> QED BY <2>1, <2>2, <2>3 DEF ServiceParts
<1>2. BaseInv /\ ServiceParts /\ [Next]_vars => ServiceParts'
  <2> SUFFICES ASSUME BaseInv, ServiceParts, [Next]_vars PROVE ServiceParts'
    OBVIOUS
  <2>1. CASE Next
    BY <2>1, NextCases, BeginParts, AdvanceParts, CrashParts
  <2>2. CASE UNCHANGED vars
    <3>1. /\ config' = config /\ pg' = pg /\ authz' = authz /\ s3' = s3
          /\ spire' = spire /\ secret' = secret /\ call' = call
          /\ settled' = settled
      BY <2>2 DEF vars
    <3> QED BY <3>1 DEF ServiceParts, AloneIsAlone, ProgressInv, Progress,
              Registered, Unregistered, SecretsWork, RemovalLeavesNothing,
              AtRest, Busy, Flow
  <2> QED BY <2>1, <2>2
<1> QED BY <1>1, <1>2, BaseCorrect, PTL DEF Spec

\* When no two tentacles share a Postgres role, the credentials in the Secret of a
\* tentacle whose last wf_apply had dependencies and succeeded alone are the ones
\* its services accept, whatever calls for other tentacles, failures and crashes
\* did.
THEOREM SecretsAlwaysWork ==
  ASSUME OwnRoles
  PROVE  Spec => []SecretsWork
<1>1. ServiceParts => SecretsWork
  BY DEF ServiceParts
<1> QED BY <1>1, ServicesCorrect, PTL

\* Then, too, a wf_remove that cleaned up alone and without an error has left
\* nothing of the tentacle, in any service and of any earlier deployment.
THEOREM RemovalsAlwaysLeaveNothing ==
  ASSUME OwnRoles
  PROVE  Spec => []RemovalLeavesNothing
<1>1. ServiceParts => RemovalLeavesNothing
  BY DEF ServiceParts
<1> QED BY <1>1, ServicesCorrect, PTL
=============================================================================
