--------------------------- MODULE AdmissionProofs ---------------------------
(***************************************************************************)
(* Proofs about the admission pipeline, for any set of specs a user may    *)
(* submit, of any length: what the webhooks and the controller let through *)
(* can be generated, its objects do not overwrite one another, and every   *)
(* third party is routed as asked, with the webhooks or without them.      *)
(***************************************************************************)
EXTENDS AdmissionPipeline, GeneratorProofs

\* The inductive invariant: the stored spec is the one the user asked for,
\* with the webhook's defaults once it has seen it, has passed the schema
\* before it is stored, and the objects are generated from a spec that the
\* controller has just admitted.
PipelineInvariant ==
  /\ stage \in Stages \ {"failed"}
  /\ hook \in BOOLEAN /\ env \in Environments /\ label \in BOOLEAN
  /\ asked \in Specs
  /\ spec \in {asked, ApplyDefaults(asked)}
  /\ hook /\ stage # "submitted" => spec = ApplyDefaults(asked)
  /\ stage \in {"accepted", "stored", "rejected", "generated"} => SchemaAccepts
  /\ stage = "generated" =>
       Admitted(spec, label, env) /\ objects = Generate(App, Owner, spec)
  /\ stage # "generated" => objects = <<>>
  /\ stage = "submitted" => spec = asked

\* In every reachable state the spec and the one asked for are specs.
LEMMA SpecsAreSpecs ==
  ASSUME PipelineInvariant
  PROVE  IsSpec(asked) /\ IsSpec(spec)
<1>1. IsSpec(asked)
  BY InputsAssumption DEF InputsAssumption, PipelineInvariant
<1> QED  BY <1>1, DefaultsAreSpecs DEF PipelineInvariant

\* simulationmanifest_controller.go:108: the error branch after r.generate
\* is never taken, and the objects are those of an admitted spec.
THEOREM PipelineSafe == Spec => []PipelineInvariant
<1>1. Init => PipelineInvariant
  BY DEF Init, PipelineInvariant, Stages
<1>2. PipelineInvariant /\ [Next]_vars => PipelineInvariant'
  <2> SUFFICES ASSUME PipelineInvariant, [Next]_vars PROVE PipelineInvariant'
    OBVIOUS
  <2> USE DEF PipelineInvariant, Stages
  <2>a. spec' = spec => (SchemaAccepts' <=> SchemaAccepts)
    BY DEF SchemaAccepts
  <2>1. CASE Mutate
    BY <2>1 DEF Mutate
  <2>2. CASE CheckSchema
    BY <2>2, <2>a DEF CheckSchema
  <2>3. CASE ValidateCreate
    BY <2>3, <2>a DEF ValidateCreate
  <2>4. CASE Reconcile
    <3>1. CASE ~Admitted(spec, label, env)
      BY <2>4, <3>1, <2>a DEF Reconcile
    <3>2. CASE Admitted(spec, label, env)
      <4>1. ~GenerateFails(spec)
        BY <3>2, SpecsAreSpecs, AdmittedWellFormed, WellFormedGenerates
      <4> QED  BY <2>4, <3>2, <4>1, <2>a DEF Reconcile
    <3> QED  BY <3>1, <3>2
  <2>5. CASE UNCHANGED vars
    BY <2>5, <2>a DEF vars
  <2> QED  BY <2>1, <2>2, <2>3, <2>4, <2>5 DEF Next
<1> QED  BY <1>1, <1>2, PTL DEF Spec

\* A generated manifest's spec is well formed.
LEMMA GeneratedWellFormed ==
  ASSUME PipelineInvariant, stage = "generated"
  PROVE  /\ IsSpec(spec) /\ WellFormed(spec)
         /\ objects = Generate(App, Owner, spec)
  BY SpecsAreSpecs, AdmittedWellFormed DEF PipelineInvariant

\* validate.go:25 against generator.go:95: nothing the admission lets through
\* makes the generator fail.
THEOREM AdmittedIsGenerated == Spec => []AdmittedGenerates
<1>1. PipelineInvariant => AdmittedGenerates
  BY DEF PipelineInvariant, AdmittedGenerates
<1> QED  BY <1>1, PipelineSafe, PTL

\* What the webhook's defaulting leaves behind.
LEMMA DefaultsFillBlanks ==
  ASSUME NEW s, IsSpec(s)
  PROVE  /\ ApplyDefaults(s).microcksService # NoHostPort
         /\ ~Blank(ApplyDefaults(s).virtualBackend)
<1> DEFINE d == ApplyDefaults(s)
<1>1. /\ d.microcksService = (IF s.microcksService = NoHostPort
                              THEN DefaultMicrocksHostPort ELSE s.microcksService)
      /\ d.virtualBackend = (IF Blank(s.virtualBackend) THEN Text(BackendTeachingMock)
                             ELSE s.virtualBackend)
  BY DEF ApplyDefaults, IsSpec
<1> HIDE DEF d
<1>2. DefaultMicrocksHostPort # NoHostPort
  <2>1. NoHostPort.form = "none"
    BY DEF NoHostPort, HostOnly
  <2> QED  BY <2>1, ConfigAssumption DEF ConfigAssumption
<1>3. ~Blank(Text(BackendTeachingMock))
  BY DEF Blank, Text, BackendTeachingMock
<1>4. d.microcksService # NoHostPort
  BY <1>1, <1>2
<1>5. ~Blank(d.virtualBackend)
  BY <1>1, <1>3, Zenon
<1> QED  BY <1>4, <1>5 DEF d

\* Every generated object is of a known kind, labelled for the manifest, and
\* in one of the two namespaces the sweep visits.
LEMMA GeneratedOwned ==
  ASSUME NEW s, IsSpec(s)
  PROVE  \A o \in ToSet(Generate(App, Owner, s)) :
            o.kind \in Kinds /\ o.owner = Owner /\ o.ns \in {App, SystemNamespace}
<1> DEFINE G == Generate(App, Owner, s)
           shared == SharedObjects(App, Owner, s, Microcks(s))
           n == Len(shared)
           OK(o) == o.kind \in Kinds /\ o.owner = Owner /\ o.ns \in {App, SystemNamespace}
           party(p) == ThirdPartyObjects(App, Owner, s.thirdParties[p], Microcks(s))
<1>1. n \in {3, 4} /\ \A i \in 1..n : OK(shared[i])
  <2>1. OK(envoyFilterInbound(App, Owner)) /\ OK(envoyFilterOutbound(App, Owner))
    BY DEF envoyFilterInbound, envoyFilterOutbound, Object, Kinds
  <2>2. OK(envoyFilterMicrocksRewrite(Owner))
    BY DEF envoyFilterMicrocksRewrite, Object, Kinds
  <2>3. \A name, host, whole : OK(destinationRule(App, Owner, name, host, whole))
    BY DEF destinationRule, Object, Kinds
  <2> DEFINE mk == Microcks(s)
  <2>4. LET a == envoyFilterInbound(App, Owner)
            b == envoyFilterOutbound(App, Owner)
            c == envoyFilterMicrocksRewrite(Owner)
            d == destinationRule(App, Owner, <<"", "microcks-grpc">>, mk.host, mk.whole)
        IN  \/ n = 4 /\ shared[1] = a /\ shared[2] = b /\ shared[3] = c /\ shared[4] = d
            \/ n = 3 /\ shared[1] = a /\ shared[2] = b /\ shared[3] = d
    BY SharedPlaces
  <2> DEFINE a == envoyFilterInbound(App, Owner)
             b == envoyFilterOutbound(App, Owner)
             c == envoyFilterMicrocksRewrite(Owner)
             d == destinationRule(App, Owner, <<"", "microcks-grpc">>, mk.host, mk.whole)
  <2>0. OK(a) /\ OK(b) /\ OK(c) /\ OK(d)
    <3> HIDE DEF OK
    <3> QED  BY <2>1, <2>2, <2>3
  <2> HIDE DEF OK, shared, mk, n, a, b, c, d
  <2>5. ASSUME n = 4, shared[1] = a, shared[2] = b, shared[3] = c, shared[4] = d
        PROVE  \A i \in 1..n : OK(shared[i])
    <3>1. \A i \in 1..n : i = 1 \/ i = 2 \/ i = 3 \/ i = 4
      BY <2>5
    <3> QED  BY <2>0, <2>5, <3>1
  <2>6. ASSUME n = 3, shared[1] = a, shared[2] = b, shared[3] = d
        PROVE  \A i \in 1..n : OK(shared[i])
    <3>1. \A i \in 1..n : i = 1 \/ i = 2 \/ i = 3
      BY <2>6
    <3> QED  BY <2>0, <2>6, <3>1
  <2>7. \/ n = 4 /\ shared[1] = a /\ shared[2] = b /\ shared[3] = c /\ shared[4] = d
        \/ n = 3 /\ shared[1] = a /\ shared[2] = b /\ shared[3] = d
    BY <2>4 DEF a, b, c, d
  <2> QED  BY <2>5, <2>6, <2>7
<1>2. \A p : \A k \in 1..3 : OK(party(p)[k])
  BY DEF ThirdPartyObjects, serviceEntry, virtualService, destinationRule, Object, Kinds
<1>3. /\ \A i \in 1..n : G[i] = shared[i]
      /\ \A i \in DOMAIN G : i > n =>
            PartAt(i, n) \in 1..3 /\ G[i] = party(PartyAt(i, n))[PartAt(i, n)]
      /\ DOMAIN G = 1..(n + 3 * Len(s.thirdParties)) /\ Len(s.thirdParties) \in Nat
  BY GenerateAt
<1> HIDE DEF OK, G, n, shared, party
<1>4. \A i \in DOMAIN G : OK(G[i])
  <2> SUFFICES ASSUME NEW i \in DOMAIN G PROVE OK(G[i])
    OBVIOUS
  <2>1. i \in 1..n \/ i > n
    BY <1>1, <1>3
  <2> QED  BY <1>1, <1>2, <1>3, <2>1
<1>5. \A o \in ToSet(G) : OK(o)
  BY <1>4 DEF ToSet
<1> QED  BY <1>5 DEF OK, G

\* The pipeline keeps its types: whatever the stage, the spec is one, the
\* webhook leaves no blanks in it, what is stored satisfies the schema, and
\* objects there are exactly when it was generated, labelled for the manifest.
THEOREM PipelineTypeCorrect == Spec => []TypeOK
<1>1. ASSUME PipelineInvariant PROVE TypeOK
  <2>1. ASSUME stage = "generated" PROVE objects # <<>>
    <3> DEFINE shared == SharedObjects(App, Owner, spec, Microcks(spec))
               n == Len(shared)
               L == Len(spec.thirdParties)
               G == Generate(App, Owner, spec)
    <3>1. IsSpec(spec) /\ objects = G
      BY <1>1, <2>1, GeneratedWellFormed
    <3>2. n \in {3, 4}
      BY <3>1, GenerateAt
    <3>3. \A i \in 1..n : i \in DOMAIN G
      BY <3>1, GenerateAt
    <3> HIDE DEF n, G
    <3>4. 1 \in DOMAIN objects
      BY <3>1, <3>2, <3>3
    <3> QED  BY <3>4
  <2>2. IsSpec(asked) /\ IsSpec(spec)
    BY <1>1, SpecsAreSpecs
  <2>3. ASSUME hook, stage # "submitted"
        PROVE  spec.microcksService # NoHostPort /\ ~Blank(spec.virtualBackend)
    <3>1. spec = ApplyDefaults(asked)
      BY <1>1, <2>3 DEF PipelineInvariant
    <3> QED  BY <2>2, <3>1, DefaultsFillBlanks
  <2>4. stage \in {"accepted", "stored", "rejected", "failed", "generated"} => SchemaAccepts
    BY <1>1 DEF PipelineInvariant, Stages
  <2>5. \A o \in ToSet(objects) :
           o.kind \in Kinds /\ o.owner = Owner /\ o.ns \in {App, SystemNamespace}
    <3>1. CASE stage = "generated"
      <4>1. objects = Generate(App, Owner, spec)
        BY <1>1, <3>1 DEF PipelineInvariant
      <4> QED  BY <2>2, <4>1, GeneratedOwned
    <3>2. CASE stage # "generated"
      <4>1. objects = <<>>
        BY <1>1, <3>2 DEF PipelineInvariant
      <4> QED  BY <4>1 DEF ToSet
    <3> QED  BY <3>1, <3>2
  <2>6. /\ stage \in Stages
        /\ hook \in BOOLEAN /\ env \in Environments /\ label \in BOOLEAN
        /\ asked \in Specs
        /\ stage # "generated" => objects = <<>>
    BY <1>1 DEF PipelineInvariant, Stages
  <2> QED  BY <2>1, <2>2, <2>3, <2>4, <2>5, <2>6 DEF TypeOK
<1> QED  BY <1>1, PipelineSafe, PTL

\* generator.go:133: no two objects of one manifest have the same kind,
\* namespace and name, however many third parties it declares.
THEOREM PipelineKeysDistinct == Spec => []KeysDistinct
<1>1. ASSUME PipelineInvariant PROVE KeysDistinct
  <2>1. CASE stage = "generated"
    BY <1>1, <2>1, GeneratedWellFormed, WellFormedKeys DEF KeysDistinct
  <2>2. CASE stage # "generated"
    <3>1. objects = <<>>
      BY <1>1, <2>2 DEF PipelineInvariant
    <3> QED  BY <3>1 DEF KeysDistinct
  <2> QED  BY <2>1, <2>2
<1> QED  BY <1>1, PipelineSafe, PTL

\* validate.go:53: no two VirtualServices of one manifest claim the same host.
THEOREM PipelineHostsDistinct == Spec => []HostsDistinct
<1>1. ASSUME PipelineInvariant PROVE HostsDistinct
  <2> SUFFICES ASSUME NEW i \in DOMAIN objects, NEW j \in DOMAIN objects,
                      objects[i].kind = "VirtualService", objects[j].kind = "VirtualService",
                      objects[i].real.host.v = objects[j].real.host.v
               PROVE  i = j
    BY DEF HostsDistinct
  <2>1. stage = "generated"
    <3>1. objects # <<>>
      OBVIOUS
    <3> QED  BY <1>1, <3>1 DEF PipelineInvariant
  <2>2. IsSpec(spec) /\ WellFormed(spec) /\ objects = Generate(App, Owner, spec)
    BY <1>1, <2>1, GeneratedWellFormed
  <2> DEFINE tps == spec.thirdParties
             vs(p) == virtualService(App, Owner, tps[p], Microcks(spec))
  <2>3. \A k \in DOMAIN objects : objects[k].kind = "VirtualService" =>
           \E p \in DOMAIN tps : objects[k] = vs(p)
    BY <2>2, RoutesAndEntries
  <2>4. \A p : vs(p).real.host.v = tps[p].host.v
    BY DEF virtualService, Object, Destination
  <2>5. \A p, q \in DOMAIN tps : tps[p].host.v = tps[q].host.v => p = q
    BY <2>2 DEF WellFormed
  <2> HIDE DEF tps, vs
  <2>6. PICK p \in DOMAIN tps, q \in DOMAIN tps : objects[i] = vs(p) /\ objects[j] = vs(q)
    BY <2>3
  <2>7. Key(objects[i]) = Key(objects[j])
    BY <2>4, <2>5, <2>6
  <2> QED  BY <2>2, <2>7, WellFormedKeys
<1> QED  BY <1>1, PipelineSafe, PTL

\* mutate.go:19 against generator.go:102: a manifest that never met the
\* webhook yields the objects it would have yielded with its defaults.
THEOREM PipelineTransparent == Spec => []WebhookTransparent
<1>1. ASSUME PipelineInvariant PROVE WebhookTransparent
  <2>1. IsSpec(asked)
    BY <1>1, SpecsAreSpecs
  <2>2. Generate(App, Owner, ApplyDefaults(asked)) = Generate(App, Owner, asked)
    BY <2>1, DefaultsGenerateAlike
  <2> QED  BY <1>1, <2>2 DEF WebhookTransparent, PipelineInvariant
<1> QED  BY <1>1, PipelineSafe, PTL

\* What the spec keeps of what the user asked: the third parties, and the
\* virtual backend the routes lead to.
LEMMA AskedIsKept ==
  ASSUME PipelineInvariant
  PROVE  /\ spec.thirdParties = asked.thirdParties
         /\ BackendGiven => Microcks(spec) = splitHostPort(asked.microcksService)
         /\ BackendLeftOut => Microcks(spec) = splitHostPort(DefaultMicrocksHostPort)
         /\ BackendGiven => spec.microcksService = asked.microcksService
<1> DEFINE d == ApplyDefaults(asked)
           kept == asked.microcksService
<1>1. IsSpec(asked) /\ (spec = asked \/ spec = d)
  BY SpecsAreSpecs DEF PipelineInvariant
<1>2. /\ d.thirdParties = asked.thirdParties
      /\ d.microcksService = (IF kept = NoHostPort THEN DefaultMicrocksHostPort ELSE kept)
  BY <1>1 DEF ApplyDefaults, IsSpec
<1>3. BackendGiven => kept # NoHostPort
  <2>1. NoHostPort.form = "none"
    BY DEF NoHostPort, HostOnly
  <2>2. BackendGiven => kept.form = "number"
    BY DEF BackendGiven
  <2> QED  BY <2>1, <2>2
<1> HIDE DEF d, kept
<1>4. /\ spec.thirdParties = asked.thirdParties
      /\ spec.microcksService = kept
           \/ (kept = NoHostPort /\ spec.microcksService = DefaultMicrocksHostPort)
  BY <1>1, <1>2 DEF kept
<1>5. firstHostPort(spec.microcksService, DefaultMicrocksHostPort) =
        IF kept = NoHostPort THEN DefaultMicrocksHostPort ELSE kept
  BY <1>4 DEF firstHostPort
<1>6. BackendGiven => spec.microcksService = kept
  BY <1>3, <1>4
<1> QED  BY <1>3, <1>4, <1>5, <1>6 DEF Microcks, BackendLeftOut, kept

\* generator.go:334: host:port with a hostname is split where it says.
LEMMA SplitAtColon ==
  ASSUME NEW hp, hp.form = "number", hp.host \in Hostnames
  PROVE  splitHostPort(hp) = Given(hp)
<1>1. NoHostPort.form = "none"
  BY DEF NoHostPort, HostOnly
<1>2. hp # NoHostPort
  BY <1>1
<1>3. hp.host # ""
  BY ConfigAssumption DEF ConfigAssumption
<1> QED  BY <1>2, <1>3 DEF splitHostPort, Given

\* The routes of a generated manifest lead to the backend that was given, or
\* to the operator's own.
LEMMA GeneratedBackend ==
  ASSUME PipelineInvariant, stage = "generated"
  PROVE  /\ BackendGiven => Microcks(spec) = Given(asked.microcksService)
         /\ BackendLeftOut => Microcks(spec) = Given(DefaultMicrocksHostPort)
<1> DEFINE kept == asked.microcksService
<1>1. /\ BackendGiven => Microcks(spec) = splitHostPort(kept)
      /\ BackendLeftOut => Microcks(spec) = splitHostPort(DefaultMicrocksHostPort)
      /\ BackendGiven => spec.microcksService = kept
  BY AskedIsKept
<1>2. spec.microcksService = NoHostPort \/ spec.microcksService.host \in Hostnames
  BY GeneratedWellFormed DEF WellFormed
<1>3. NoHostPort.form = "none"
  BY DEF NoHostPort, HostOnly
<1>4. BackendGiven => kept.form = "number"
  BY DEF BackendGiven
<1> HIDE DEF kept
<1>5. ASSUME BackendGiven PROVE Microcks(spec) = Given(kept)
  <2>1. kept.form = "number" /\ kept.host \in Hostnames
    BY <1>1, <1>2, <1>3, <1>4, <1>5
  <2> QED  BY <1>1, <1>5, <2>1, SplitAtColon
<1>6. splitHostPort(DefaultMicrocksHostPort) = Given(DefaultMicrocksHostPort)
  BY SplitAtColon, ConfigAssumption DEF ConfigAssumption
<1> QED  BY <1>1, <1>5, <1>6 DEF kept

\* generator.go:108: every third party of a generated manifest has one
\* VirtualService and one ServiceEntry, which lead where the user asked.
THEOREM PipelineRoutesEveryParty == Spec => []EveryPartyRouted
<1>1. ASSUME PipelineInvariant PROVE EveryPartyRouted
  <2> SUFFICES ASSUME stage = "generated", NEW i \in DOMAIN asked.thirdParties
               PROVE
      LET tp == asked.thirdParties[i]
          of(kind) == { o \in ToSet(objects) : o.kind = kind /\ o.name[1] = tp.name.v }
      IN  /\ \E vs \in of("VirtualService") : of("VirtualService") = {vs}
                /\ vs.real = Destination(tp.host, FALSE, tp.port)
                /\ (BackendGiven => vs.simulate = Given(asked.microcksService))
                /\ (BackendLeftOut => vs.simulate = Given(DefaultMicrocksHostPort))
          /\ \E se \in of("ServiceEntry") : of("ServiceEntry") = {se}
                /\ se.simulate = Destination(tp.host, FALSE, tp.port)
                /\ se.real.port \in Ports
                /\ se.real.host.v \in Hostnames
    BY DEF EveryPartyRouted
  <2> DEFINE tps == spec.thirdParties
             tp == tps[i]
             of(kind) == { o \in ToSet(objects) : o.kind = kind /\ o.name[1] = tp.name.v }
             vs(p) == virtualService(App, Owner, tps[p], Microcks(spec))
             se(p) == serviceEntry(App, Owner, tps[p])
             routes == of("VirtualService")
             entries == of("ServiceEntry")
  <2>1. IsSpec(spec) /\ WellFormed(spec) /\ objects = Generate(App, Owner, spec)
    BY <1>1, GeneratedWellFormed
  <2>2. /\ tps = asked.thirdParties
        /\ BackendGiven => Microcks(spec) = Given(asked.microcksService)
        /\ BackendLeftOut => Microcks(spec) = Given(DefaultMicrocksHostPort)
    BY <1>1, GeneratedBackend, AskedIsKept
  <2>3. /\ \A k \in DOMAIN objects :
             /\ objects[k].kind = "VirtualService" => \E p \in DOMAIN tps : objects[k] = vs(p)
             /\ objects[k].kind = "ServiceEntry" => \E p \in DOMAIN tps : objects[k] = se(p)
        /\ \A p \in DOMAIN tps : /\ \E k \in DOMAIN objects : objects[k] = vs(p)
                                 /\ \E k \in DOMAIN objects : objects[k] = se(p)
    BY <2>1, RoutesAndEntries
  <2>4. \A p : /\ vs(p).kind = "VirtualService" /\ vs(p).name[1] = tps[p].name.v
               /\ vs(p).real = Destination(tps[p].host, FALSE, tps[p].port)
               /\ vs(p).simulate = Microcks(spec)
    BY DEF virtualService, Object, sanitizeName
  <2>5. \A p : /\ se(p).kind = "ServiceEntry" /\ se(p).name[1] = tps[p].name.v
               /\ se(p).simulate = Destination(tps[p].host, FALSE, tps[p].port)
               /\ se(p).real.host = firstNonEmpty(tps[p].backendHost, tps[p].host)
               /\ se(p).real.port = (IF tps[p].backendPort = 0 THEN tps[p].port
                                     ELSE tps[p].backendPort)
    BY DEF serviceEntry, Object, sanitizeName, Destination
  <2>6. \A p, q \in DOMAIN tps : tps[p].name.v = tps[q].name.v => p = q
    BY <2>1 DEF WellFormed
  <2>7. /\ tp.host.v \in Hostnames /\ tp.port \in Ports /\ tp.backendPort \in {0} \cup Ports
        /\ Blank(tp.backendHost) \/ tp.backendHost.v \in Hostnames
    BY <2>1, <2>2 DEF WellFormed
  <2>8. i \in DOMAIN tps
    BY <2>2
  <2>9. routes = {vs(i)}
    <3> HIDE DEF vs, se, tps
    <3>1. vs(i) \in routes
      BY <2>3, <2>4, <2>8 DEF ToSet
    <3>2. ASSUME NEW o \in routes PROVE o = vs(i)
      BY <2>3, <2>4, <2>6, <2>8 DEF ToSet
    <3> QED  BY <3>1, <3>2
  <2>10. entries = {se(i)}
    <3> HIDE DEF vs, se, tps
    <3>1. se(i) \in entries
      BY <2>3, <2>5, <2>8 DEF ToSet
    <3>2. ASSUME NEW o \in entries PROVE o = se(i)
      BY <2>3, <2>5, <2>6, <2>8 DEF ToSet
    <3> QED  BY <3>1, <3>2
  <2>11. se(i).real.port \in Ports
    <3> HIDE DEF se
    <3> QED  BY <2>5, <2>7
  <2>12. se(i).real.host.v \in Hostnames
    <3> HIDE DEF se
    <3> QED  BY <2>5, <2>7 DEF firstNonEmpty
  <2>13. /\ vs(i).real = Destination(tp.host, FALSE, tp.port)
         /\ vs(i).simulate = Microcks(spec)
         /\ se(i).simulate = Destination(tp.host, FALSE, tp.port)
    BY <2>4, <2>5
  <2> HIDE DEF vs, se
  <2>14. /\ \E x \in routes : routes = {x}
                /\ x.real = Destination(tp.host, FALSE, tp.port)
                /\ (BackendGiven => x.simulate = Given(asked.microcksService))
                /\ (BackendLeftOut => x.simulate = Given(DefaultMicrocksHostPort))
         /\ \E x \in entries : entries = {x}
                /\ x.simulate = Destination(tp.host, FALSE, tp.port)
                /\ x.real.port \in Ports
                /\ x.real.host.v \in Hostnames
    <3> HIDE DEF routes, entries, tps
    <3> QED  BY <2>2, <2>9, <2>10, <2>11, <2>12, <2>13
  <2> QED  BY <2>2, <2>14, ZenonT(40)
<1> QED  BY <1>1, PipelineSafe, PTL
=============================================================================
