-------------------------- MODULE AdmissionPipeline --------------------------
(***************************************************************************)
(* One SimulationManifest on its way from kubectl to Istio objects: the    *)
(* mutating webhook, the CRD schema, the validating webhook, storage, and  *)
(* then the controller, which validates the stored spec again before it    *)
(* generates.  The webhooks are optional (WEBHOOK_ENABLED); the schema and *)
(* the controller are not.                                                 *)
(***************************************************************************)
EXTENDS Generator, Admission

CONSTANTS
  ThirdPartyLists, ScenarioLists, MicrocksServices, VirtualBackends,
  Environments

VARIABLES
  stage,      \* how far the manifest got
  hook,       \* are the webhooks registered?
  env,        \* the operator's ENVIRONMENT
  label,      \* does the manifest carry a production label?
  asked,      \* the spec the user submitted
  spec,       \* the spec as it now stands
  objects     \* what the controller generated from it

vars == <<stage, hook, env, label, asked, spec, objects>>

Specs == [ thirdParties : ThirdPartyLists, scenarios : ScenarioLists,
           microcksService : MicrocksServices, virtualBackend : VirtualBackends ]

ASSUME InputsAssumption == \A s \in Specs : IsSpec(s)

App == "poc"
Owner == "m"

Stages == {"submitted", "mutated", "accepted", "stored", "denied", "rejected",
           "failed", "generated"}

Init ==
  /\ stage = "submitted"
  /\ hook \in BOOLEAN
  /\ env \in Environments
  /\ label \in BOOLEAN
  /\ asked \in Specs
  /\ spec = asked
  /\ objects = <<>>

\* The API server calls the mutating webhook before it checks the schema.
Mutate ==
  /\ stage = "submitted"
  /\ stage' = "mutated"
  /\ spec' = IF hook THEN ApplyDefaults(spec) ELSE spec
  /\ UNCHANGED <<hook, env, label, asked, objects>>

\* The structural schema of the CRD: minItems, the port range and the enum.
SchemaAccepts ==
  /\ spec.thirdParties # <<>>
  /\ spec.scenarios # <<>>
  /\ \A i \in DOMAIN spec.thirdParties : spec.thirdParties[i].port \in Ports
  /\ spec.virtualBackend \in {Text(BackendTeachingMock), Text(BackendMicrocks)}

CheckSchema ==
  /\ stage = "mutated"
  /\ stage' = IF SchemaAccepts THEN "accepted" ELSE "denied"
  /\ UNCHANGED <<hook, env, label, asked, spec, objects>>

\* ValidateCreate, when the webhooks are registered.
ValidateCreate ==
  /\ stage = "accepted"
  /\ stage' = IF hook /\ ~Admitted(spec, label, env) THEN "denied" ELSE "stored"
  /\ UNCHANGED <<hook, env, label, asked, spec, objects>>

\* The controller's pass over a stored manifest that has its finalizer.
Reconcile ==
  /\ stage = "stored"
  /\ IF ~Admitted(spec, label, env)
     THEN stage' = "rejected" /\ UNCHANGED objects
     ELSE IF GenerateFails(spec)
     THEN stage' = "failed" /\ UNCHANGED objects
     ELSE stage' = "generated" /\ objects' = Generate(App, Owner, spec)
  /\ UNCHANGED <<hook, env, label, asked, spec>>

Next == Mutate \/ CheckSchema \/ ValidateCreate \/ Reconcile

Spec == Init /\ [][Next]_vars

(***************************************************************************)
(* Properties                                                              *)
(***************************************************************************)

\* What a manifest is at each stage: its spec has the shape of one throughout
\* and, once the webhook has seen it, no blank that has a default; past the
\* schema it satisfies the schema, and when generated it has objects, of known
\* kinds, its own label and the two namespaces of the sweep.
TypeOK ==
  /\ stage \in Stages
  /\ hook \in BOOLEAN /\ env \in Environments /\ label \in BOOLEAN
  /\ asked \in Specs
  /\ IsSpec(spec)
  /\ hook /\ stage # "submitted" =>
       spec.microcksService # NoHostPort /\ ~Blank(spec.virtualBackend)
  /\ stage \in {"accepted", "stored", "rejected", "failed", "generated"} => SchemaAccepts
  /\ stage = "generated" <=> objects # <<>>
  /\ \A o \in ToSet(objects) :
       o.kind \in Kinds /\ o.owner = Owner /\ o.ns \in {App, SystemNamespace}

\* What the controller's validation admits the generator can generate: the
\* error branch after r.generate is never taken.
AdmittedGenerates == stage # "failed"

\* No two objects of one manifest share kind, namespace and name: applying
\* the list never overwrites an object it has just created.
KeysDistinct ==
  \A i, j \in DOMAIN objects : Key(objects[i]) = Key(objects[j]) => i = j

\* The virtual backend a user asks for: nothing, or host:port with a port.
\* validateHostPort admits more, and then the route leads nowhere.
BackendGiven == asked.microcksService.form = "number" /\ asked.microcksService.port \in Ports
BackendLeftOut == asked.microcksService = NoHostPort

\* Where host:port says that it leads.
Given(hp) == Destination(Text(hp.host), FALSE, hp.port)

\* Each third party of a generated manifest is dialled and routed as the user
\* asked: one VirtualService whose fallback route is the party's own host and
\* port and whose simulated one the given virtual backend or the operator's
\* own, and a ServiceEntry for that same host whose endpoint is the given
\* backend.
EveryPartyRouted ==
  stage = "generated" =>
    \A i \in DOMAIN asked.thirdParties :
      LET tp == asked.thirdParties[i]
          of(kind) == { o \in ToSet(objects) : o.kind = kind /\ o.name[1] = tp.name.v }
      IN  /\ \E vs \in of("VirtualService") : of("VirtualService") = {vs}
                /\ vs.real = Destination(tp.host, FALSE, tp.port)
                /\ (BackendGiven => vs.simulate = Given(asked.microcksService))
                /\ (BackendLeftOut => vs.simulate = Given(DefaultMicrocksHostPort))
          /\ \E se \in of("ServiceEntry") : of("ServiceEntry") = {se}
                /\ se.simulate = Destination(tp.host, FALSE, tp.port)
                /\ se.real.port \in Ports
                /\ se.real.host.v \in Hostnames

\* A manifest that gets through without the webhooks yields the same objects
\* as one that was defaulted on the way in: the defaults the webhook writes
\* are the ones the generator falls back to.
WebhookTransparent ==
  stage = "generated" => objects = Generate(App, Owner, ApplyDefaults(asked))

\* No two third parties of a manifest route the same host, white space
\* aside: the mesh would have to choose between their VirtualServices.
HostsDistinct ==
  \A i, j \in DOMAIN objects :
     /\ objects[i].kind = "VirtualService" /\ objects[j].kind = "VirtualService"
     /\ objects[i].real.host.v = objects[j].real.host.v
     => i = j
=============================================================================
