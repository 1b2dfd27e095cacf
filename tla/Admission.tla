------------------------------ MODULE Admission ------------------------------
(***************************************************************************)
(* Defaulting and validation of a SimulationManifest: the mutating and the *)
(* validating webhook, and the same rules run again by the controller      *)
(* (internal/admission/mutate.go, validate.go, webhook.go).                *)
(*                                                                         *)
(* Go ranges over sc.Responses, a map, in an order of its own each time,   *)
(* so one spec has several error texts: Denials is the set of them.        *)
(***************************************************************************)
EXTENDS Contract, SequencesExt

\* The ports a spec may name.
MaxPort == 65535
Ports == 1..MaxPort

Texts == [v : STRING, pad : BOOLEAN]

ThirdParty ==
  [name : Texts, host : Texts, port : Int, backendHost : Texts, backendPort : Int]

ScenarioOperationBody == [operation : Texts, body : Texts]

\* The responses are a map: finitely many keys, and a slice for each.
IsScenario(sc) ==
  /\ sc = [name |-> sc.name, responses |-> sc.responses]
  /\ sc.name \in Texts
  /\ IsFiniteSet(DOMAIN sc.responses)
  /\ sc.responses \in [DOMAIN sc.responses -> Seq(ScenarioOperationBody)]

\* What any decoded spec is made of, valid or not.
IsSpec(spec) ==
  /\ spec = [thirdParties |-> spec.thirdParties, scenarios |-> spec.scenarios,
             microcksService |-> spec.microcksService,
             virtualBackend |-> spec.virtualBackend]
  /\ spec.thirdParties \in Seq(ThirdParty)
  /\ spec.scenarios \in Seq(ToSet(spec.scenarios))
  /\ \A sc \in ToSet(spec.scenarios) : IsScenario(sc)

\* One entry of a field.ErrorList: the field, its index, its map key ("" when
\* it has none) and what is wrong.
Err(f, i, k, why) == [field |-> f, at |-> i, key |-> k, why |-> why]

\* <<e>> if the check fails, nothing otherwise: append under an if.
Report(failed, e) == IF failed THEN <<e>> ELSE <<>>

\* Names that entered tpNames / scenarioNames / tpHosts before index i: only
\* well-formed ones do, so a malformed name is never reported as duplicate.
NamesBefore(list, i) ==
  { list[j].name.v : j \in {h \in 1..(i - 1) : list[h].name.v \in DnsLabels /\ ~list[h].name.pad} }
HostsBefore(list, i) ==
  { list[j].host.v : j \in {h \in 1..(i - 1) : list[h].host.v \in Hostnames} }

\* Mutants: a name may be left out; duplicates are not looked for.
NameErrors_Optional(f, list, i) ==
  Report(~Blank(list[i].name) /\ list[i].name.v \notin DnsLabels, Err(f, i, "", "invalid"))
NameErrors_NoDuplicates(f, list, i) ==
  Report(list[i].name.v \notin DnsLabels, Err(f, i, "", "invalid"))

\* The name rule third parties and scenarios share.  The regular expression
\* sees the raw name, so padding alone makes it invalid.
NameErrors(f, list, i) ==
  LET name == list[i].name
  IN  IF Blank(name) THEN <<Err(f, i, "", "required")>>
      ELSE IF name.pad \/ name.v \notin DnsLabels THEN <<Err(f, i, "", "invalid")>>
      ELSE Report(name.v \in NamesBefore(list, i), Err(f, i, "", "duplicate"))

\* Mutant: the raw host, padding included, is looked up among the earlier ones.
HostErrors_Raw(list, i) ==
  Report(list[i].host.v \notin Hostnames, Err("host", i, "", "invalid"))
  \o Report(~list[i].host.pad /\ list[i].host.v \in HostsBefore(list, i),
            Err("host", i, "", "duplicate"))

\* The host is trimmed before it is checked and compared.
HostErrors(list, i) ==
  LET host == list[i].host.v
  IN  IF host = "" THEN <<Err("host", i, "", "required")>>
      ELSE IF host \notin Hostnames THEN <<Err("host", i, "", "invalid")>>
      ELSE Report(host \in HostsBefore(list, i), Err("host", i, "", "duplicate"))

ThirdPartyErrors(list, i) ==
  LET tp == list[i]
  IN  NameErrors("thirdParties", list, i)
      \o HostErrors(list, i)
      \o Report(tp.port \notin Ports, Err("port", i, "", "invalid"))
      \o Report(tp.backendPort # 0 /\ tp.backendPort \notin Ports,
                Err("backendPort", i, "", "invalid"))
      \o Report(~Blank(tp.backendHost) /\ tp.backendHost.v \notin Hostnames,
                Err("backendHost", i, "", "invalid"))

\* An operation body misses its operation, then its body.
OperationErrors(i, key, op) ==
  Report(Blank(op.operation), Err("operation", i, key, "required"))
  \o Report(Blank(op.body), Err("body", i, key, "required"))

\* tpNames after the first loop: every well-formed third-party name.
ThirdPartyNames(spec) ==
  NamesBefore(spec.thirdParties, Len(spec.thirdParties) + 1)

ResponseErrors(spec, i, key) ==
  LET ops   == spec.scenarios[i].responses[key]
      names == ThirdPartyNames(spec)
  IN  Report(names # {} /\ key \notin names, Err("responses", i, key, "not found"))
      \o Report(ops = <<>>, Err("responses", i, key, "required"))
      \o FlattenSeq([ j \in DOMAIN ops |-> OperationErrors(i, key, ops[j]) ])

\* order: the order in which this run ranges over the responses.
ScenarioErrors(spec, i, order) ==
  NameErrors("scenarios", spec.scenarios, i)
  \o Report(order = <<>>, Err("responses", i, "", "required"))
  \o FlattenSeq([ j \in DOMAIN order |-> ResponseErrors(spec, i, order[j]) ])

\* host:port is required, but any non-empty port passes: the port is neither
\* parsed nor bounded.
validateHostPort(hp) ==
  hp.form = "none" \/ hp.host \notin Hostnames \/ hp.form = "empty"

\* orders: for each scenario, one order of its response keys.
SpecErrors(spec, orders) ==
  Report(spec.thirdParties = <<>>, Err("thirdParties", 0, "", "required"))
  \o Report(spec.scenarios = <<>>, Err("scenarios", 0, "", "required"))
  \o FlattenSeq([ i \in DOMAIN spec.thirdParties |-> ThirdPartyErrors(spec.thirdParties, i) ])
  \o FlattenSeq([ i \in DOMAIN spec.scenarios |-> ScenarioErrors(spec, i, orders[i]) ])
  \o Report(spec.microcksService # NoHostPort /\ validateHostPort(spec.microcksService),
            Err("microcksService", 0, "", "invalid"))
  \o Report(~Blank(spec.virtualBackend)
              /\ spec.virtualBackend.v \notin {BackendTeachingMock, BackendMicrocks},
            Err("virtualBackend", 0, "", "not supported"))

Orderings(spec) ==
  { o \in [ DOMAIN spec.scenarios ->
              UNION { SetToSeqs(DOMAIN spec.scenarios[i].responses)
                        : i \in DOMAIN spec.scenarios } ] :
      \A i \in DOMAIN spec.scenarios :
         o[i] \in SetToSeqs(DOMAIN spec.scenarios[i].responses) }

\* The texts ValidateSpec may produce for a spec; <<>> is "no error".
ValidateSpec(spec) == { SpecErrors(spec, o) : o \in Orderings(spec) }

\* ValidateForAdmission: the error texts it may return, {} when it admits.
\* prodLabel: the manifest carries a production label or annotation.
Denials(spec, prodLabel, environment) ==
  IF IsProd(environment) THEN { <<Err("environment", 0, "", "forbidden")>> }
  ELSE IF prodLabel THEN { <<Err("label", 0, "", "forbidden")>> }
  ELSE ValidateSpec(spec) \ { <<>> }

Admitted(spec, prodLabel, environment) == Denials(spec, prodLabel, environment) = {}

\* Mutant: the configured service overwrites the one the user asked for.
ApplyDefaults_Overwrite(spec) ==
  [ spec EXCEPT !.microcksService = DefaultMicrocksHostPort ]

\* Mutant: only the backend is defaulted.
ApplyDefaults_BackendOnly(spec) ==
  [ spec EXCEPT !.virtualBackend = IF Blank(@) THEN Text(BackendTeachingMock) ELSE @ ]

\* A blank microcksService becomes the configured one, a blank backend the
\* teaching mock; anything else is left as it is.
ApplyDefaults(spec) ==
  [ spec EXCEPT !.microcksService =
                   IF @ = NoHostPort THEN DefaultMicrocksHostPort ELSE @,
                !.virtualBackend =
                   IF Blank(@) THEN Text(BackendTeachingMock) ELSE @ ]
=============================================================================
