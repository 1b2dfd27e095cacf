---------------------------- MODULE OperatorProofs ----------------------------
(***************************************************************************)
(* Proofs about Operator: its type invariant, and that one operator leaves *)
(* no labelled object behind.                                              *)
(***************************************************************************)
EXTENDS OperatorProperties, GeneratorProofs

(***************************************************************************)
(* What the helpers return                                                 *)
(***************************************************************************)

\* Defaulting a second time changes nothing (mutate.go:31).
LEMMA ApplyDefaultsIdempotent ==
  ASSUME NEW s \in Specs
  PROVE  ApplyDefaults(ApplyDefaults(s)) = ApplyDefaults(s)
<1>1. s = [thirdParties |-> s.thirdParties, scenarios |-> s.scenarios,
           microcksService |-> s.microcksService, virtualBackend |-> s.virtualBackend]
  BY SpecsAssumption DEF SpecsAssumption, IsSpec
<1>2. NoHostPort # DefaultMicrocksHostPort
  <2>1. NoHostPort.form = "none"
    BY DEF NoHostPort, HostOnly
  <2>2. DefaultMicrocksHostPort.form = "number"
    BY ConfigAssumption DEF ConfigAssumption
  <2>. QED  BY <2>1, <2>2
<1>3. ~Blank(Text(BackendTeachingMock))
  BY DEF Blank, Text, BackendTeachingMock
<1>. QED  BY <1>1, <1>2, <1>3 DEF ApplyDefaults

\* The set of stored specs is closed under defaulting, and a stored spec has a
\* sequence of third parties and is not NoSpec.
LEMMA StoredSpecsClosed ==
  ASSUME NEW s \in StoredSpecs
  PROVE  /\ ApplyDefaults(s) \in StoredSpecs
         /\ s # NoSpec
         /\ s.thirdParties \in Seq(ThirdParty)
<1>1. CASE s \in Specs
  BY <1>1, SpecsAssumption, OperatorAssumption
       DEF SpecsAssumption, OperatorAssumption, StoredSpecs, IsSpec
<1>2. CASE s \notin Specs
  <2>1. PICK t \in Specs : s = ApplyDefaults(t)
    BY <1>2 DEF StoredSpecs
  <2>2. ApplyDefaults(s) = s
    BY <2>1, ApplyDefaultsIdempotent
  <2>3. s.thirdParties = t.thirdParties
    BY <2>1, SpecsAssumption DEF SpecsAssumption, IsSpec, ApplyDefaults
  <2>. QED  BY <2>1, <2>2, <2>3, SpecsAssumption, OperatorAssumption
       DEF SpecsAssumption, OperatorAssumption, StoredSpecs, IsSpec
<1>. QED  BY <1>1, <1>2

\* Two objects, perhaps a third, and a last one.
LEMMA ConcatTuples ==
  ASSUME NEW S, NEW a \in S, NEW b \in S, NEW c \in S, NEW d \in S
  PROVE  /\ <<a, b>> \o <<c>> \o <<d>> \in Seq(S)
         /\ Len(<<a, b>> \o <<c>> \o <<d>>) = 4
         /\ <<a, b>> \o <<>> \o <<d>> \in Seq(S)
         /\ Len(<<a, b>> \o <<>> \o <<d>>) = 3
<1>1. <<a, b>> \in Seq(S) /\ <<c>> \in Seq(S) /\ <<d>> \in Seq(S) /\ <<>> \in Seq(S)
  OBVIOUS
<1>2. Len(<<a, b>>) = 2 /\ Len(<<c>>) = 1 /\ Len(<<d>>) = 1 /\ Len(<<>>) = 0
  OBVIOUS
<1>3. /\ <<a, b>> \o <<c>> \in Seq(S) /\ Len(<<a, b>> \o <<c>>) = 3
      /\ <<a, b>> \o <<>> \in Seq(S) /\ Len(<<a, b>> \o <<>>) = 2
  BY <1>1, <1>2, ConcatProperties
<1>. QED  BY <1>1, <1>2, <1>3, ConcatProperties

\* What the sweep looks at in each generated object.
LEMMA FilterFields ==
  ASSUME NEW ns, NEW owner
  PROVE  /\ envoyFilterInbound(ns, owner).kind = "EnvoyFilter"
         /\ envoyFilterInbound(ns, owner).owner = owner
         /\ envoyFilterInbound(ns, owner).ns = ns
         /\ envoyFilterOutbound(ns, owner).kind = "EnvoyFilter"
         /\ envoyFilterOutbound(ns, owner).owner = owner
         /\ envoyFilterOutbound(ns, owner).ns = ns
         /\ envoyFilterMicrocksRewrite(owner).kind = "EnvoyFilter"
         /\ envoyFilterMicrocksRewrite(owner).owner = owner
         /\ envoyFilterMicrocksRewrite(owner).ns = SystemNamespace
  BY DEF envoyFilterInbound, envoyFilterOutbound, envoyFilterMicrocksRewrite, Object

\* The optional destination rule is a generated object like the others.
LEMMA DestinationRuleFields ==
  ASSUME NEW ns, NEW owner, NEW name, NEW host, NEW whole
  PROVE  /\ destinationRule(ns, owner, name, host, whole).kind = "DestinationRule"
         /\ destinationRule(ns, owner, name, host, whole).owner = owner
         /\ destinationRule(ns, owner, name, host, whole).ns = ns
  BY DEF destinationRule, Object

\* So are the three objects of a third party.
LEMMA ThirdPartyFields ==
  ASSUME NEW ns, NEW owner, NEW tp, NEW microcks
  PROVE  /\ serviceEntry(ns, owner, tp).kind = "ServiceEntry"
         /\ serviceEntry(ns, owner, tp).owner = owner
         /\ serviceEntry(ns, owner, tp).ns = ns
         /\ virtualService(ns, owner, tp, microcks).kind = "VirtualService"
         /\ virtualService(ns, owner, tp, microcks).owner = owner
         /\ virtualService(ns, owner, tp, microcks).ns = ns
  BY DEF serviceEntry, virtualService, Object

\* The shared objects of a manifest are three or four, labelled with it, in
\* its namespace or the system namespace.
LEMMA SharedObjectsOwned ==
  ASSUME NEW ns, NEW owner, NEW spec, NEW microcks
  PROVE  LET shared == SharedObjects(ns, owner, spec, microcks)
         IN  /\ Len(shared) \in {3, 4}
             /\ \A i \in 1..Len(shared) :
                  /\ shared[i].kind \in Kinds
                  /\ shared[i].owner = owner
                  /\ shared[i].ns \in {ns, SystemNamespace}
<1>. DEFINE shared == SharedObjects(ns, owner, spec, microcks)
            a == envoyFilterInbound(ns, owner)
            b == envoyFilterOutbound(ns, owner)
            c == envoyFilterMicrocksRewrite(owner)
            name == <<"", "microcks-grpc">>
            host == microcks.host
            whole == microcks.whole
            d == destinationRule(ns, owner, name, host, whole)
            S == {a, b, c, d}
<1>1. \A o \in S : o.kind \in Kinds /\ o.owner = owner /\ o.ns \in {ns, SystemNamespace}
  <2>1. /\ a.kind = "EnvoyFilter" /\ a.owner = owner /\ a.ns = ns
        /\ b.kind = "EnvoyFilter" /\ b.owner = owner /\ b.ns = ns
        /\ c.kind = "EnvoyFilter" /\ c.owner = owner /\ c.ns = SystemNamespace
        /\ d.kind = "DestinationRule" /\ d.owner = owner /\ d.ns = ns
    <3>. HIDE DEF name, host, whole
    <3>. QED  BY FilterFields, DestinationRuleFields
  <2>. HIDE DEF a, b, c, d
  <2>. QED  BY <2>1 DEF Kinds
<1>2. shared = <<a, b>> \o <<c>> \o <<d>> \/ shared = <<a, b>> \o <<>> \o <<d>>
  BY DEF SharedObjects
<1>3. shared \in Seq(S) /\ Len(shared) \in {3, 4}
  <2>1. a \in S /\ b \in S /\ c \in S /\ d \in S
    OBVIOUS
  <2>. HIDE DEF a, b, c, d, S
  <2>2. /\ <<a, b>> \o <<c>> \o <<d>> \in Seq(S)
        /\ Len(<<a, b>> \o <<c>> \o <<d>>) = 4
        /\ <<a, b>> \o <<>> \o <<d>> \in Seq(S)
        /\ Len(<<a, b>> \o <<>> \o <<d>>) = 3
    BY <2>1, ConcatTuples
  <2>. HIDE DEF shared
  <2>. QED  BY <1>2, <2>2
<1>. HIDE DEF S, shared
<1>4. \A i \in 1..Len(shared) : shared[i] \in S
  BY <1>3, ElementOfSeq
<1>5. /\ Len(shared) \in {3, 4}
      /\ \A i \in 1..Len(shared) :
           /\ shared[i].kind \in Kinds
           /\ shared[i].owner = owner
           /\ shared[i].ns \in {ns, SystemNamespace}
  BY <1>1, <1>3, <1>4
<1>. QED  BY <1>5 DEF shared

\* Generate returns at least one object; each is of a kind the sweep knows,
\* carries the manifest's label and is in a namespace the sweep visits.
LEMMA DesiredOwned ==
  ASSUME NEW m, NEW s \in StoredSpecs
  PROVE  /\ Len(Desired(m, s)) \in Nat \ {0}
         /\ DOMAIN Desired(m, s) = 1..Len(Desired(m, s))
         /\ \A i \in 1..Len(Desired(m, s)) :
              /\ Desired(m, s)[i].kind \in Kinds
              /\ Desired(m, s)[i].owner = m.name
              /\ Desired(m, s)[i].ns \in {m.ns, SystemNamespace}
<1>. DEFINE microcks == splitHostPort(firstHostPort(s.microcksService, DefaultMicrocksHostPort))
            shared   == SharedObjects(m.ns, m.name, s, microcks)
            n        == Len(shared)
            k        == Len(s.thirdParties)
            party(i) == ThirdPartyObjects(m.ns, m.name, s.thirdParties[(i - n + 2) \div 3], microcks)
            body(i)  == IF i <= n THEN shared[i] ELSE party(i)[((i - n - 1) % 3) + 1]
            d        == Desired(m, s)
<1>1. d = [i \in 1..(n + 3 * k) |-> body(i)]
  <2>1. n = SharedCount(s)
    BY SharedCountIs
  <2>. HIDE DEF n
  <2>. QED  BY <2>1 DEF Desired, Generate
<1>2. n \in {3, 4} /\ \A i \in 1..n : /\ shared[i].kind \in Kinds
                                      /\ shared[i].owner = m.name
                                      /\ shared[i].ns \in {m.ns, SystemNamespace}
  BY SharedObjectsOwned
<1>3. k \in Nat
  BY StoredSpecsClosed
<1>5. ASSUME NEW i
      PROVE  \A j \in {1, 2, 3} : /\ party(i)[j].kind \in Kinds
                                  /\ party(i)[j].owner = m.name
                                  /\ party(i)[j].ns = m.ns
  <2>. DEFINE tp == s.thirdParties[(i - n + 2) \div 3]
              name == <<sanitizeName(tp.name), "-third-party">>
              whole == FALSE
              dr == destinationRule(m.ns, m.name, name, tp.host, whole)
  <2>1. /\ party(i)[1] = serviceEntry(m.ns, m.name, tp)
        /\ party(i)[2] = virtualService(m.ns, m.name, tp, microcks)
        /\ party(i)[3] = dr
    BY DEF ThirdPartyObjects
  <2>2. \A o \in {serviceEntry(m.ns, m.name, tp), virtualService(m.ns, m.name, tp, microcks), dr} :
           o.kind \in Kinds /\ o.owner = m.name /\ o.ns = m.ns
    <3>. HIDE DEF tp, microcks, name, whole
    <3>1. dr.kind = "DestinationRule" /\ dr.owner = m.name /\ dr.ns = m.ns
      BY DestinationRuleFields
    <3>. HIDE DEF dr
    <3>. QED  BY <3>1, ThirdPartyFields DEF Kinds
  <2>. HIDE DEF tp, dr, party
  <2>. QED  BY <2>1, <2>2
<1>. HIDE DEF n, k, party, shared
<1>6. ASSUME NEW i \in 1..(n + 3 * k)
      PROVE  body(i).kind \in Kinds /\ body(i).owner = m.name
             /\ body(i).ns \in {m.ns, SystemNamespace}
  <2>1. CASE i <= n
    BY <2>1, <1>2
  <2>2. CASE ~(i <= n)
    <3>1. ((i - n - 1) % 3) + 1 \in {1, 2, 3}
      BY <1>2, <1>3
    <3>. QED  BY <2>2, <3>1, <1>5
  <2>. QED  BY <2>1, <2>2
<1>7. n + 3 * k \in Nat \ {0}
  BY <1>2, <1>3
<1>. HIDE DEF body
<1>8. Len(d) = n + 3 * k /\ DOMAIN d = 1..(n + 3 * k)
  BY <1>1, <1>7
<1>. QED  BY <1>1, <1>6, <1>7, <1>8

\* The sweep plan: the four kinds, in one namespace or two.
LEMMA SweepPlanLength ==
  ASSUME NEW m
  PROVE  Len(SweepPlan(m)) \in {4, 8} /\ Len(SweepPlan(m)) = 4 * Len(Namespaces(m))
<1>1. Len(Namespaces(m)) \in {1, 2}
  BY DEF Namespaces
<1>. DEFINE place(i) == <<Namespaces(m)[((i - 1) \div 4) + 1], KindOrder[((i - 1) % 4) + 1]>>
            l == Len(Namespaces(m))
            n == 4 * l
<1>2. SweepPlan(m) = [i \in 1..n |-> place(i)]
  BY DEF SweepPlan
<1>3. n \in {4, 8}
  <2>1. l \in {1, 2}
    BY <1>1
  <2>. HIDE DEF l
  <2>. QED  BY <2>1
<1>. HIDE DEF place, n
<1>4. Len(SweepPlan(m)) = n
  BY <1>2, <1>3
<1>. QED  BY <1>3, <1>4 DEF n

(***************************************************************************)
(* Types                                                                   *)
(***************************************************************************)

\* The statuses and messages the reconciler writes.
LEMMA StatusTyped ==
  /\ NoStatus \in Statuses
  /\ <<>> \in Messages
  /\ ForbiddenMessage \in Messages
  /\ \A m \in Manifests, s \in StoredSpecs :
        /\ Message("generated", Len(Desired(m, s))) \in Messages
        /\ \A i \in 1..Len(Desired(m, s)) : Message("apply", i) \in Messages
        /\ Names(Desired(m, s)) \in Resources
  /\ \A s \in StoredSpecs, p \in BOOLEAN, e \in Environments : Denials(s, p, e) \subseteq Messages
<1>1. <<>> \in Messages /\ ForbiddenMessage \in Messages
  BY DEF Messages
<1>2. ASSUME NEW m \in Manifests, NEW s \in StoredSpecs
      PROVE  /\ Message("generated", Len(Desired(m, s))) \in Messages
             /\ \A i \in 1..Len(Desired(m, s)) : Message("apply", i) \in Messages
             /\ Names(Desired(m, s)) \in Resources
  <2>. DEFINE d == Desired(m, s)
  <2>1. d \in DesiredLists
    BY DEF DesiredLists
  <2>. HIDE DEF d
  <2>2. Message("generated", Len(d)) \in GeneratedMessages
    BY <2>1 DEF GeneratedMessages
  <2>3. \A i \in 1..Len(d) : Message("apply", i) \in ApplyMessages
    BY <2>1 DEF ApplyMessages
  <2>4. Names(d) \in Resources
    BY <2>1 DEF Resources
  <2>. QED  BY <2>2, <2>3, <2>4 DEF Messages, d
<1>4. ASSUME NEW s \in StoredSpecs, NEW p \in BOOLEAN, NEW e \in Environments
      PROVE  Denials(s, p, e) \subseteq Messages
  <2>. DEFINE x == <<s, p, e>>
  <2>1. x \in StoredSpecs \X BOOLEAN \X Environments
    BY Zenon
  <2>2. x[1] = s /\ x[2] = p /\ x[3] = e
    BY Zenon
  <2>. HIDE DEF x
  <2>3. Denials(x[1], x[2], x[3]) \subseteq SpecMessages
    BY <2>1 DEF SpecMessages
  <2>. QED  BY <2>2, <2>3, Zenon DEF Messages
<1>5. "" \in Phases /\ <<>> \in Resources
  BY DEF Phases, Resources
<1>6. NoStatus \in Statuses
  BY <1>1, <1>5 DEF NoStatus, Status, Statuses
<1>. QED  BY <1>1, <1>2, <1>4, <1>6

\* A status put together from its parts.
LEMMA StatusMade ==
  ASSUME NEW phase \in Phases, NEW msg \in Messages, NEW res \in Resources, NEW obs \in Nat
  PROVE  Status(phase, msg, res, obs) \in Statuses
  BY DEF Status, Statuses

\* A merge of three statuses is a status.
LEMMA MergeTyped ==
  ASSUME NEW a \in Statuses, NEW b \in Statuses, NEW c \in Statuses
  PROVE  MergePatch(a, b, c) \in Statuses
  BY DEF MergePatch, Merge, Status, Statuses

\* The version of a manifest that does not exist.
LEMMA NoManifestTyped ==
  ASSUME NEW rv \in Nat
  PROVE  NoManifest(rv) \in Versions
  BY StatusTyped DEF NoManifest, Records, Versions

\* The version a create makes.
LEMMA FreshTyped ==
  ASSUME NEW rv \in Nat, NEW s \in StoredSpecs, NEW p \in BOOLEAN
  PROVE  Fresh(rv, s, p) \in Versions
  BY StatusTyped DEF Fresh, NoManifest, Records, Versions

\* Every write keeps the versions typed, and reaches every watcher.
LEMMA WriteTyped ==
  ASSUME api \in [Manifests -> Versions],
         watch \in [Operators -> [Manifests -> Seq(Versions)]],
         NEW m \in Manifests, NEW v \in Versions, Write(m, v)
  PROVE  /\ api' \in [Manifests -> Versions]
         /\ watch' \in [Operators -> [Manifests -> Seq(Versions)]]
<1>1. CASE v = api[m]
  BY <1>1 DEF Write
<1>2. CASE v # api[m]
  <2>. DEFINE n   == api[m].rv + 1
              new == [v EXCEPT !.rv = n]
  <2>0. n \in Nat
    <3>1. api[m] \in Versions
      OBVIOUS
    <3>. QED  BY <3>1 DEF Records, Versions
  <2>1. new \in Versions
    <3>. HIDE DEF n
    <3>. QED  BY <2>0 DEF Records, Versions
  <2>2. /\ api' = [api EXCEPT ![m] = new]
        /\ watch' = [op \in Operators |-> [watch[op] EXCEPT ![m] = Append(@, new)]]
    BY <1>2 DEF Write
  <2>. HIDE DEF new
  <2>. QED  BY <2>1, <2>2
<1>. QED  BY <1>1, <1>2

\* What the webhook makes of a stored spec is a stored spec.
LEMMA IncomingTyped ==
  ASSUME NEW s \in StoredSpecs
  PROVE  Incoming(s) \in StoredSpecs
  BY StoredSpecsClosed DEF Incoming

\* Writing a spec, with or without the finalizer, keeps a version typed.
LEMMA WithSpecTyped ==
  ASSUME NEW v \in Versions, v.exists, NEW s \in StoredSpecs, NEW p \in BOOLEAN
  PROVE  /\ WithSpec(v, s) \in Versions
         /\ WithSpec(v, s).exists
         /\ [WithSpec(v, s) EXCEPT !.prod = p] \in Versions
         /\ [WithSpec(v, s) EXCEPT !.fin = TRUE] \in Versions
<1>. DEFINE n == IF s = v.spec THEN v.gen ELSE v.gen + 1
            w == [v EXCEPT !.spec = s, !.gen = n]
<1>1. n \in Nat
  BY DEF Records, Versions
<1>2. w = WithSpec(v, s)
  BY DEF WithSpec
<1>. HIDE DEF n
<1>3. w \in Versions /\ w.exists
  BY <1>1 DEF Records, Versions
<1>. HIDE DEF w
<1>4. [w EXCEPT !.prod = p] \in Versions
  BY <1>3 DEF Records, Versions
<1>5. [w EXCEPT !.fin = TRUE] \in Versions
  BY <1>3 DEF Records, Versions
<1>. QED  BY <1>2, <1>3, <1>4, <1>5

\* Deletion marks a version that has the finalizer and drops any other.
LEMMA DiscardTyped ==
  ASSUME api \in [Manifests -> Versions],
         watch \in [Operators -> [Manifests -> Seq(Versions)]],
         NEW m \in Manifests, NEW v \in Versions, Discard(m, v)
  PROVE  /\ api' \in [Manifests -> Versions]
         /\ watch' \in [Operators -> [Manifests -> Seq(Versions)]]
<1>. DEFINE n == v.gen + 1
            w == [v EXCEPT !.del = TRUE, !.gen = n]
<1>1. n \in Nat /\ v.rv \in Nat
  BY DEF Records, Versions
<1>2. v.fin => w \in Versions
  <2>. HIDE DEF n
  <2>. QED  BY <1>1 DEF Records, Versions
<1>3. NoManifest(v.rv) \in Versions
  BY <1>1, NoManifestTyped
<1>4. CASE v.fin
  <2>1. Write(m, w)
    BY <1>4 DEF Discard
  <2>. HIDE DEF w
  <2>. QED  BY <1>2, <1>4, <2>1, WriteTyped
<1>5. CASE ~v.fin
  BY <1>3, <1>5, WriteTyped DEF Discard
<1>. QED  BY <1>4, <1>5

\* The state of a worker without a call.
LEMMA IdleTyped == Idle \in Calls /\ CallOK(Idle)
<1>1. (CHOOSE m \in Manifests : TRUE) \in Manifests
  BY OperatorAssumption DEF OperatorAssumption
<1>. QED  BY <1>1, NoManifestTyped, StatusTyped DEF Idle, Calls, CallOK

\* A call that starts on a cached manifest.
LEMMA CallTyped ==
  ASSUME TypeOK, NEW op \in Operators, NEW m \in Manifests,
         NEW pc \in {"addFinalizer", "apply", "status", "list", "removeFinalizer"}
  PROVE  /\ Call(op, m, pc) \in Calls
         /\ Call(op, m, pc).pc = pc /\ Call(op, m, pc).m = m
         /\ Call(op, m, pc).copy = cache[op][m] /\ Call(op, m, pc).i = 1
<1>1. cache[op][m] \in Versions
  BY DEF TypeOK
<1>. QED  BY <1>1, IdleTyped DEF Call, Idle, Calls

\* A call that goes on to patch the status.
LEMMA StatusCallTyped ==
  ASSUME NEW w \in Calls, w.copy.exists, NEW phase \in Phases, NEW msg \in Messages,
         NEW res \in Resources, NEW retry \in BOOLEAN
  PROVE  /\ StatusCall(w, phase, msg, res, retry) \in Calls
         /\ CallOK(StatusCall(w, phase, msg, res, retry))
<1>. DEFINE st == Status(phase, msg, res, w.copy.gen)
            c  == [w EXCEPT !.pc = "status", !.retry = retry, !.status = st]
<1>1. st \in Statuses
  <2>1. w.copy.gen \in Nat
    BY DEF Calls, Versions, Records
  <2>. QED  BY <2>1, StatusMade
<1>2. c = StatusCall(w, phase, msg, res, retry)
  BY DEF StatusCall
<1>. HIDE DEF st
<1>3. c \in Calls /\ c.pc = "status" /\ c.copy = w.copy
  BY <1>1 DEF Calls
<1>. HIDE DEF c
<1>. QED  BY <1>2, <1>3 DEF CallOK

\* The sweep goes on at the next place, which exists, or to the finalizer.
LEMMA NextPlaceTyped ==
  ASSUME NEW w \in Calls, CallOK(w), w.pc \in {"list", "delete"}
  PROVE  NextPlace(w) \in Calls /\ CallOK(NextPlace(w))
<1>1. /\ w.i \in 1..Len(SweepPlan(w.m)) /\ w.copy.exists /\ w.copy.del
  BY DEF CallOK
<1>2. Len(SweepPlan(w.m)) \in Nat
  BY SweepPlanLength
<1>3. CASE w.i < Len(SweepPlan(w.m))
  <2>. DEFINE i == w.i + 1
              c == [w EXCEPT !.pc = "list", !.i = i, !.items = {}]
  <2>1. i \in 1..Len(SweepPlan(w.m)) /\ i \in Nat
    BY <1>1, <1>2, <1>3
  <2>2. c = NextPlace(w)
    BY <1>3 DEF NextPlace
  <2>. HIDE DEF i
  <2>3. c \in Calls /\ c.pc = "list" /\ c.copy = w.copy /\ c.m = w.m /\ c.i = i
    BY <2>1 DEF Calls
  <2>. HIDE DEF c
  <2>. QED  BY <1>1, <2>1, <2>2, <2>3 DEF CallOK
<1>4. CASE ~(w.i < Len(SweepPlan(w.m)))
  <2>. DEFINE c == [w EXCEPT !.pc = "removeFinalizer", !.items = {}]
  <2>1. c = NextPlace(w)
    BY <1>4 DEF NextPlace
  <2>2. c \in Calls /\ c.pc = "removeFinalizer" /\ c.copy = w.copy
    BY DEF Calls
  <2>. HIDE DEF c
  <2>. QED  BY <1>1, <2>1, <2>2 DEF CallOK
<1>. QED  BY <1>3, <1>4

\* The next object to apply exists, or the status is patched.
LEMMA AfterApplyTyped ==
  ASSUME NEW w \in Calls, CallOK(w), w.pc = "apply"
  PROVE  /\ AfterApply(w) \in Calls /\ CallOK(AfterApply(w))
         /\ ApplyFailed(w) \in Calls /\ CallOK(ApplyFailed(w))
<1>. DEFINE s == w.copy.spec
            d == Desired(w.m, s)
<1>1. /\ w.copy.exists /\ w.copy.fin /\ ~w.copy.del /\ w.i \in 1..Len(d)
      /\ w.m \in Manifests /\ s \in StoredSpecs
  BY DEF CallOK, Calls, Versions
<1>2. Len(d) \in Nat
  BY <1>1, DesiredOwned
<1>3. /\ Message("generated", Len(d)) \in Messages
      /\ Message("apply", w.i) \in Messages
      /\ Names(d) \in Resources
  BY <1>1, StatusTyped
<1>4. "Ready" \in Phases /\ "Error" \in Phases
  BY DEF Phases
<1>5. ApplyFailed(w) \in Calls /\ CallOK(ApplyFailed(w))
  BY <1>1, <1>3, <1>4, StatusCallTyped DEF ApplyFailed
<1>6. CASE w.i < Len(d)
  <2>. DEFINE i == w.i + 1
              c == [w EXCEPT !.i = i]
  <2>1. i \in 1..Len(d) /\ i \in Nat
    BY <1>1, <1>2, <1>6
  <2>2. c = AfterApply(w)
    BY <1>6 DEF AfterApply
  <2>. HIDE DEF i
  <2>3. c \in Calls /\ c.pc = "apply" /\ c.copy = w.copy /\ c.m = w.m /\ c.i = i
    BY <2>1 DEF Calls
  <2>. HIDE DEF c
  <2>. QED  BY <1>1, <1>5, <2>1, <2>2, <2>3 DEF CallOK
<1>7. CASE ~(w.i < Len(d))
  <2>1. AfterApply(w) = StatusCall(w, "Ready", Message("generated", Len(d)), Names(d), FALSE)
    BY <1>7 DEF AfterApply
  <2>. HIDE DEF d
  <2>. QED  BY <1>1, <1>3, <1>4, <1>5, <2>1, StatusCallTyped
<1>. QED  BY <1>6, <1>7

\* Replacing the call of one worker.
LEMMA WorkTyped ==
  ASSUME TypeOK, NEW op \in Operators, NEW w \in Calls, CallOK(w),
         work' = [work EXCEPT ![op] = w]
  PROVE  work' \in [Operators -> Calls] /\ \A o \in Operators : CallOK(work'[o])
  BY DEF TypeOK

\* The budget stays a natural number for every kind of event.
LEMMA SpendTyped ==
  ASSUME TypeOK, NEW e \in Events, Spend(e)
  PROVE  budget' \in [Events -> Nat]
<1>1. budget \in [Events -> Nat] /\ budget[e] \in Nat /\ budget[e] > 0
  BY DEF TypeOK, Spend
<1>2. budget[e] - 1 \in Nat
  BY <1>1
<1>. QED  BY <1>1, <1>2 DEF Spend

\* Adding to or taking from the work queue.
LEMMA QueueTyped ==
  ASSUME TypeOK, NEW op \in Operators, NEW m \in Manifests,
         queue' = [queue EXCEPT ![op] = @ \ {m}] \/ queue' = [queue EXCEPT ![op] = @ \cup {m}]
  PROVE  queue' \in [Operators -> SUBSET Manifests]
<1>1. queue \in [Operators -> SUBSET Manifests]
  BY DEF TypeOK
<1>2. queue[op] \ {m} \in SUBSET Manifests /\ queue[op] \cup {m} \in SUBSET Manifests
  BY <1>1
<1>. QED  BY <1>1, <1>2

\* What users do keeps the types.
LEMMA UsersTyped ==
  ASSUME TypeOK, Users
  PROVE  TypeOK'
<1>1. ASSUME NEW m \in Manifests, NEW s \in Specs, NEW p \in ProdLabels, CreateManifest(m, s, p)
      PROVE  TypeOK'
  <2>. DEFINE n == api[m].rv + 1
  <2>1. n \in Nat
    <3>1. api[m] \in Versions
      BY DEF TypeOK
    <3>. QED  BY <3>1 DEF Versions, Records
  <2>1b. p \in BOOLEAN
    BY OperatorAssumption, Zenon DEF OperatorAssumption
  <2>2. Incoming(s) \in StoredSpecs
    BY IncomingTyped DEF StoredSpecs
  <2>. HIDE DEF n
  <2>3. Fresh(n, Incoming(s), p) \in Versions
    BY <2>1, <2>1b, <2>2, FreshTyped
  <2>. USE DEF n
  <2>4. /\ api' \in [Manifests -> Versions]
        /\ watch' \in [Operators -> [Manifests -> Seq(Versions)]]
    BY <1>1, <2>3, WriteTyped DEF TypeOK, CreateManifest
  <2>5. budget' \in [Events -> Nat]
    BY <1>1, SpendTyped DEF Events, CreateManifest
  <2>. QED  BY <1>1, <2>4, <2>5 DEF TypeOK, CreateManifest, CallOK
<1>2. ASSUME NEW m \in Manifests, NEW s \in Specs, NEW p \in ProdLabels, EditManifest(m, s, p)
      PROVE  TypeOK'
  <2>1. api[m] \in Versions /\ api[m].exists /\ p \in BOOLEAN
    BY <1>2, OperatorAssumption DEF OperatorAssumption, TypeOK, EditManifest
  <2>2. Incoming(s) \in StoredSpecs
    BY IncomingTyped DEF StoredSpecs
  <2>3. [WithSpec(api[m], Incoming(s)) EXCEPT !.prod = p] \in Versions
    BY <2>1, <2>2, WithSpecTyped
  <2>4. /\ api' \in [Manifests -> Versions]
        /\ watch' \in [Operators -> [Manifests -> Seq(Versions)]]
    BY <1>2, <2>3, WriteTyped DEF TypeOK, EditManifest
  <2>5. budget' \in [Events -> Nat]
    BY <1>2, SpendTyped DEF Events, EditManifest
  <2>. QED  BY <1>2, <2>4, <2>5 DEF TypeOK, EditManifest, CallOK
<1>3. ASSUME NEW m \in Manifests, DeleteManifest(m)
      PROVE  TypeOK'
  <2>1. api[m] \in Versions
    BY DEF TypeOK
  <2>2. /\ api' \in [Manifests -> Versions]
        /\ watch' \in [Operators -> [Manifests -> Seq(Versions)]]
    BY <1>3, <2>1, DiscardTyped DEF TypeOK, DeleteManifest
  <2>3. budget' \in [Events -> Nat]
    BY <1>3, SpendTyped DEF Events, DeleteManifest
  <2>. QED  BY <1>3, <2>2, <2>3 DEF TypeOK, DeleteManifest, CallOK
<1>4. ASSUME Tamper
      PROVE  TypeOK'
  <2>1. budget' \in [Events -> Nat]
    BY <1>4, SpendTyped DEF Events, Tamper
  <2>. QED  BY <1>4, <2>1 DEF TypeOK, Tamper, CallOK
<1>. QED  BY <1>1, <1>2, <1>3, <1>4 DEF Users

\* So do the informer and a restart.
LEMMA InformerTyped ==
  ASSUME TypeOK, NEW op \in Operators
  PROVE  /\ \A m \in Manifests : Deliver(op, m) => TypeOK'
         /\ Restart(op) => TypeOK'
<1>1. ASSUME NEW m \in Manifests, Deliver(op, m)
      PROVE  TypeOK'
  <2>1. watch[op][m] \in Seq(Versions) /\ watch[op][m] # <<>>
    BY <1>1 DEF TypeOK, Deliver
  <2>2. Head(watch[op][m]) \in Versions /\ Tail(watch[op][m]) \in Seq(Versions)
    BY <2>1
  <2>3. /\ cache' \in [Operators -> [Manifests -> Versions]]
        /\ watch' \in [Operators -> [Manifests -> Seq(Versions)]]
    BY <1>1, <2>2 DEF TypeOK, Deliver
  <2>4. queue' \in [Operators -> SUBSET Manifests]
    BY <1>1, QueueTyped DEF Deliver
  <2>. QED  BY <1>1, <2>3, <2>4 DEF TypeOK, Deliver, CallOK
<1>2. ASSUME Restart(op)
      PROVE  TypeOK'
  <2>1. budget' \in [Events -> Nat]
    BY <1>2, SpendTyped DEF Events, Restart
  <2>2. work' \in [Operators -> Calls] /\ \A o \in Operators : CallOK(work'[o])
    BY <1>2, IdleTyped, WorkTyped DEF Restart
  <2>3. /\ cache' \in [Operators -> [Manifests -> Versions]]
        /\ watch' \in [Operators -> [Manifests -> Seq(Versions)]]
        /\ queue' \in [Operators -> SUBSET Manifests]
    BY <1>2 DEF TypeOK, Restart
  <2>. QED  BY <1>2, <2>1, <2>2, <2>3 DEF TypeOK, Restart, CallOK
<1>. QED  BY <1>1, <1>2

\* Taking a manifest off the queue starts a well-typed call.
LEMMA TakeTyped ==
  ASSUME TypeOK, NEW op \in Operators, NEW m \in Manifests, NEW w \in Calls, CallOK(w),
         Take(op, m, w)
  PROVE  TypeOK'
<1>1. work' \in [Operators -> Calls] /\ \A o \in Operators : CallOK(work'[o])
  BY WorkTyped DEF Take
<1>2. queue' \in [Operators -> SUBSET Manifests]
  BY QueueTyped DEF Take
<1>. QED  BY <1>1, <1>2 DEF TypeOK, Take, CallOK

\* The calls that only report a status.
LEMMA ReportTyped ==
  ASSUME TypeOK, NEW op \in Operators, NEW m \in Manifests, cache[op][m].exists,
         NEW phase \in Phases, NEW msg \in Messages,
         Take(op, m, StatusCall(Call(op, m, "status"), phase, msg, <<>>, FALSE))
  PROVE  TypeOK'
<1>. DEFINE w == StatusCall(Call(op, m, "status"), phase, msg, <<>>, FALSE)
<1>1. Call(op, m, "status") \in Calls /\ Call(op, m, "status").copy.exists
  BY CallTyped
<1>2. <<>> \in Resources
  BY DEF Resources
<1>3. w \in Calls /\ CallOK(w)
  BY <1>1, <1>2, StatusCallTyped
<1>. HIDE DEF w
<1>4. Take(op, m, w)
  BY DEF w
<1>. QED  BY <1>3, <1>4, TakeTyped

\* Each of the six ways a Reconcile call can begin.
LEMMA BeginTyped ==
  ASSUME TypeOK, NEW op \in Operators, NEW m \in Manifests, Begin(op, m)
  PROVE  TypeOK'
<1>. DEFINE c == cache[op][m]
<1>0. c \in Versions
  BY DEF TypeOK
<1>1. CASE ReconcileNothing(op, m)
  BY <1>1, IdleTyped, TakeTyped DEF ReconcileNothing
<1>2. CASE ReconcileForbidden(op, m)
  <2>1. "Forbidden" \in Phases
    BY DEF Phases
  <2>. QED  BY <1>2, <2>1, StatusTyped, ReportTyped DEF ReconcileForbidden
<1>3. CASE ReconcileDeleting(op, m)
  <2>. DEFINE w == Call(op, m, "list")
  <2>1. c.exists /\ c.del /\ Take(op, m, w)
    BY <1>3 DEF ReconcileDeleting
  <2>2. w \in Calls /\ w.pc = "list" /\ w.copy = c /\ w.i = 1 /\ w.m = m
    BY CallTyped
  <2>3. 1 \in 1..Len(SweepPlan(m))
    <3>1. Len(SweepPlan(m)) \in {4, 8}
      BY SweepPlanLength
    <3>. QED  BY <3>1
  <2>. HIDE DEF w
  <2>4. CallOK(w)
    BY <2>1, <2>2, <2>3 DEF CallOK
  <2>. QED  BY <2>1, <2>2, <2>4, TakeTyped
<1>4. CASE ReconcileUnfinalized(op, m)
  <2>. DEFINE w == Call(op, m, "addFinalizer")
  <2>1. c.exists /\ ~c.fin /\ Take(op, m, w)
    BY <1>4 DEF ReconcileUnfinalized
  <2>2. w \in Calls /\ w.pc = "addFinalizer" /\ w.copy = c
    BY CallTyped
  <2>. HIDE DEF w
  <2>3. CallOK(w)
    BY <2>1, <2>2 DEF CallOK
  <2>. QED  BY <2>1, <2>2, <2>3, TakeTyped
<1>5. CASE ReconcileInvalid(op, m)
  <2>1. "Error" \in Phases
    BY DEF Phases
  <2>2. c.exists /\ c.spec \in StoredSpecs /\ env[op] \in Environments
    BY <1>0, <1>5 DEF ReconcileInvalid, Versions, TypeOK
  <2>2b. c.prod \in BOOLEAN
    BY <1>0 DEF Versions, Records
  <2>3. PICK msg \in Denials(c.spec, c.prod, env[op]) :
          Take(op, m, StatusCall(Call(op, m, "status"), "Error", msg, <<>>, FALSE))
    BY <1>5 DEF ReconcileInvalid
  <2>4. msg \in Messages
    BY <2>2, <2>2b, <2>3, StatusTyped
  <2>. QED  BY <2>1, <2>2, <2>3, <2>4, ReportTyped
<1>6. CASE ReconcileValid(op, m)
  <2>. DEFINE w == Call(op, m, "apply")
  <2>1. c.exists /\ c.fin /\ ~c.del /\ c.spec \in StoredSpecs /\ Take(op, m, w)
    BY <1>0, <1>6 DEF ReconcileValid, Versions
  <2>2. w \in Calls /\ w.pc = "apply" /\ w.copy = c /\ w.i = 1 /\ w.m = m
    BY CallTyped
  <2>3. 1 \in 1..Len(Desired(m, c.spec))
    BY <2>1, DesiredOwned
  <2>. HIDE DEF w
  <2>4. CallOK(w)
    BY <2>1, <2>2, <2>3 DEF CallOK
  <2>. QED  BY <2>1, <2>2, <2>4, TakeTyped
<1>. QED  BY <1>1, <1>2, <1>3, <1>4, <1>5, <1>6 DEF Begin

\* A step that ends in another state of the call, in Finish or in Requeue.
LEMMA GoOnTyped ==
  ASSUME TypeOK, NEW op \in Operators, NEW w \in Calls, CallOK(w), GoOn(op, w)
  PROVE  /\ work' \in [Operators -> Calls] /\ \A o \in Operators : CallOK(work'[o])
         /\ queue' \in [Operators -> SUBSET Manifests]
<1>1. queue' = queue /\ work' = [work EXCEPT ![op] = w]
  BY DEF GoOn
<1>. QED  BY <1>1, WorkTyped DEF TypeOK

\* The end of a call, with or without a requeue.
LEMMA EndTyped ==
  ASSUME TypeOK, NEW op \in Operators, Finish(op) \/ Requeue(op)
  PROVE  /\ work' \in [Operators -> Calls] /\ \A o \in Operators : CallOK(work'[o])
         /\ queue' \in [Operators -> SUBSET Manifests]
<1>1. CASE Finish(op)
  BY <1>1, IdleTyped, GoOnTyped DEF Finish
<1>2. CASE Requeue(op)
  <2>1. work[op].m \in Manifests
    BY DEF TypeOK, Calls
  <2>2. queue' \in [Operators -> SUBSET Manifests]
    BY <1>2, <2>1, QueueTyped DEF Requeue
  <2>3. work' \in [Operators -> Calls] /\ \A o \in Operators : CallOK(work'[o])
    BY <1>2, IdleTyped, WorkTyped DEF Requeue
  <2>. QED  BY <2>2, <2>3
<1>. QED  BY <1>1, <1>2

\* An object the reconciler applies.
LEMMA AppliedTyped ==
  ASSUME TypeOK, NEW op \in Operators, work[op].pc = "apply"
  PROVE  LET w == work[op]
             o == Desired(w.m, w.copy.spec)[w.i]
         IN  [obj |-> o, refs |-> OwnerRefs(w.m, w.copy, o)]
               \in [obj : Objects, refs : SUBSET (Manifests \X Nat)]
<1>. DEFINE w == work[op]
            s == w.copy.spec
            d == Desired(w.m, s)
            o == d[w.i]
<1>1. /\ w \in Calls /\ w.m \in Manifests /\ s \in StoredSpecs
      /\ w.i \in 1..Len(d) /\ w.copy.uid \in Nat
  BY DEF TypeOK, CallOK, Calls, Versions, Records
<1>2. DOMAIN d = 1..Len(d)
  BY <1>1, DesiredOwned
<1>3. o \in Objects
  <2>1. d \in DesiredLists
    BY <1>1 DEF DesiredLists
  <2>2. o \in ToSet(d)
    BY <1>1, <1>2 DEF ToSet
  <2>. HIDE DEF d, o
  <2>. QED  BY <2>1, <2>2 DEF Objects, GeneratedObjects
<1>4. OwnerRefs(w.m, w.copy, o) \in SUBSET (Manifests \X Nat)
  BY <1>1 DEF OwnerRefs
<1>. HIDE DEF o
<1>5. [obj |-> o, refs |-> OwnerRefs(w.m, w.copy, o)]
        \in [obj : Objects, refs : SUBSET (Manifests \X Nat)]
  BY <1>3, <1>4
<1>. QED  BY <1>5 DEF o

\* A write by the reconciler: an update of its copy, or of the status.
LEMMA UpdateTyped ==
  ASSUME TypeOK, NEW op \in Operators
  PROVE  /\ AddFinalizer(op) \/ RemoveFinalizer(op) \/ PatchStatus(op) =>
              /\ api' \in [Manifests -> Versions]
              /\ watch' \in [Operators -> [Manifests -> Seq(Versions)]]
<1>. DEFINE w == work[op]
            c == w.copy
            v == api[w.m]
<1>0. /\ w \in Calls /\ w.m \in Manifests /\ c \in Versions /\ v \in Versions
      /\ w.status \in Statuses /\ CallOK(w)
  BY DEF TypeOK, Calls
<1>1. ASSUME AddFinalizer(op)
      PROVE  /\ api' \in [Manifests -> Versions]
             /\ watch' \in [Operators -> [Manifests -> Seq(Versions)]]
  <2>1. CASE UpdateAccepted(w)
    <3>1. c.exists /\ c.spec \in StoredSpecs
      BY <1>0, <1>1 DEF AddFinalizer, CallOK, Versions
    <3>2. [WithSpec(c, Incoming(c.spec)) EXCEPT !.fin = TRUE] \in Versions
      <4>1. Incoming(c.spec) \in StoredSpecs
        BY <3>1, IncomingTyped
      <4>. QED  BY <1>0, <3>1, <4>1, WithSpecTyped
    <3>3. Write(w.m, [WithSpec(c, Incoming(c.spec)) EXCEPT !.fin = TRUE])
      BY <1>1, <2>1 DEF AddFinalizer
    <3>. QED  BY <1>0, <3>2, <3>3, WriteTyped DEF TypeOK
  <2>2. CASE ~UpdateAccepted(w)
    BY <1>1, <2>2 DEF AddFinalizer, TypeOK
  <2>. QED  BY <2>1, <2>2
<1>2. ASSUME RemoveFinalizer(op)
      PROVE  /\ api' \in [Manifests -> Versions]
             /\ watch' \in [Operators -> [Manifests -> Seq(Versions)]]
  <2>1. CASE UpdateAccepted(w)
    <3>. DEFINE u == [c EXCEPT !.fin = FALSE]
    <3>1. Discard(w.m, u)
      BY <1>2, <2>1 DEF RemoveFinalizer
    <3>2. ~u.fin /\ u.rv \in Nat
      BY <1>0 DEF Versions, Records
    <3>3. NoManifest(u.rv) \in Versions
      BY <3>2, NoManifestTyped
    <3>. HIDE DEF u
    <3>4. Write(w.m, NoManifest(u.rv))
      BY <3>1, <3>2 DEF Discard
    <3>. QED  BY <1>0, <3>3, <3>4, WriteTyped DEF TypeOK
  <2>2. CASE ~UpdateAccepted(w)
    BY <1>2, <2>2 DEF RemoveFinalizer, TypeOK
  <2>. QED  BY <2>1, <2>2
<1>3. ASSUME PatchStatus(op)
      PROVE  /\ api' \in [Manifests -> Versions]
             /\ watch' \in [Operators -> [Manifests -> Seq(Versions)]]
  <2>1. CASE v.exists
    <3>. DEFINE st == MergePatch(v.status, c.status, w.status)
    <3>1. st \in Statuses
      BY <1>0, MergeTyped DEF Versions, Records
    <3>2. [v EXCEPT !.status = st] \in Versions
      <4>. HIDE DEF st
      <4>. QED  BY <1>0, <3>1 DEF Versions, Records
    <3>3. Write(w.m, [v EXCEPT !.status = st])
      BY <1>3, <2>1 DEF PatchStatus
    <3>. QED  BY <1>0, <3>2, <3>3, WriteTyped DEF TypeOK
  <2>2. CASE ~v.exists
    BY <1>3, <2>2 DEF PatchStatus, TypeOK
  <2>. QED  BY <2>1, <2>2
<1>. QED  BY <1>1, <1>2, <1>3

\* Every step of a call keeps the types.
LEMMA WorkStepTyped ==
  ASSUME TypeOK, NEW op \in Operators, Work(op)
  PROVE  TypeOK'
<1>. DEFINE w == work[op]
<1>0. w \in Calls /\ CallOK(w) /\ (w.pc # "idle" => w.copy.exists)
  BY DEF TypeOK, CallOK
<1>f. Spend("fault") => budget' \in [Events -> Nat]
  BY SpendTyped DEF Events
<1>o. Spend("outage") => budget' \in [Events -> Nat]
  BY SpendTyped DEF Events
<1>u. budget' = budget => budget' \in [Events -> Nat]
  BY DEF TypeOK
<1>1. CASE AddFinalizer(op)
  <2>1. Requeue(op)
    BY <1>1 DEF AddFinalizer
  <2>. QED  BY <1>1, <2>1, EndTyped, UpdateTyped DEF AddFinalizer, TypeOK
<1>2. CASE ApplyObject(op)
  <2>1. w.pc = "apply"
    BY <1>2 DEF ApplyObject
  <2>. DEFINE o == Desired(w.m, w.copy.spec)[w.i]
              x == [obj |-> o, refs |-> OwnerRefs(w.m, w.copy, o)]
  <2>2. objs' = Without(Key(o)) \cup {x}
    BY <1>2 DEF ApplyObject
  <2>3. x \in [obj : Objects, refs : SUBSET (Manifests \X Nat)]
    BY <2>1, AppliedTyped
  <2>. HIDE DEF x
  <2>4. objs' \subseteq [obj : Objects, refs : SUBSET (Manifests \X Nat)]
    BY <2>2, <2>3 DEF TypeOK, Without
  <2>5. \/ GoOn(op, AfterApply(w)) /\ UNCHANGED budget
        \/ GoOn(op, ApplyFailed(w)) /\ Spend("fault")
    BY <1>2 DEF ApplyObject, Answered
  <2>6. /\ work' \in [Operators -> Calls] /\ \A p \in Operators : CallOK(work'[p])
        /\ queue' \in [Operators -> SUBSET Manifests]
    BY <1>0, <2>1, <2>5, AfterApplyTyped, GoOnTyped
  <2>. QED  BY <1>2, <1>f, <1>u, <2>4, <2>5, <2>6 DEF ApplyObject, TypeOK
<1>3. CASE ApplyFails(op)
  <2>1. w.pc = "apply" /\ GoOn(op, ApplyFailed(w))
    BY <1>3 DEF ApplyFails
  <2>2. /\ work' \in [Operators -> Calls] /\ \A p \in Operators : CallOK(work'[p])
        /\ queue' \in [Operators -> SUBSET Manifests]
    BY <1>0, <2>1, AfterApplyTyped, GoOnTyped
  <2>. QED  BY <1>3, <1>f, <2>2 DEF ApplyFails, TypeOK
<1>4. CASE PatchStatus(op)
  <2>1. /\ Finish(op) \/ Requeue(op)
        /\ UNCHANGED budget \/ Spend("fault")
    BY <1>4 DEF PatchStatus, Answered
  <2>. QED  BY <1>4, <1>f, <1>u, <2>1, EndTyped, UpdateTyped DEF PatchStatus, TypeOK
<1>5. CASE ListOwned(op)
  <2>. DEFINE items == Labelled(w.m, SweepPlan(w.m)[w.i])
              c     == [w EXCEPT !.pc = "delete", !.items = items]
  <2>1. w.pc = "list" /\ GoOn(op, IF items = {} THEN NextPlace(w) ELSE c)
    BY <1>5 DEF ListOwned
  <2>2. items \subseteq Keys
    BY DEF Labelled, TypeOK, Keys
  <2>. HIDE DEF items
  <2>3. c \in Calls /\ c.pc = "delete" /\ c.m = w.m /\ c.i = w.i /\ c.copy = w.copy
    BY <1>0, <2>2 DEF Calls
  <2>. HIDE DEF c
  <2>4. CallOK(c)
    BY <1>0, <2>1, <2>3 DEF CallOK
  <2>5. /\ work' \in [Operators -> Calls] /\ \A p \in Operators : CallOK(work'[p])
        /\ queue' \in [Operators -> SUBSET Manifests]
    BY <1>0, <2>1, <2>3, <2>4, NextPlaceTyped, GoOnTyped
  <2>. QED  BY <1>5, <2>5 DEF ListOwned, TypeOK
<1>6. CASE ListNoMatch(op)
  <2>1. w.pc = "list" /\ GoOn(op, NextPlace(w))
    BY <1>6 DEF ListNoMatch
  <2>2. /\ work' \in [Operators -> Calls] /\ \A p \in Operators : CallOK(work'[p])
        /\ queue' \in [Operators -> SUBSET Manifests]
    BY <1>0, <2>1, NextPlaceTyped, GoOnTyped
  <2>. QED  BY <1>6, <1>o, <2>2 DEF ListNoMatch, TypeOK
<1>7. CASE RemoveFinalizer(op)
  <2>1. /\ Finish(op) \/ Requeue(op)
        /\ UNCHANGED budget \/ Spend("fault")
    BY <1>7 DEF RemoveFinalizer, Answered
  <2>. QED  BY <1>7, <1>f, <1>u, <2>1, EndTyped, UpdateTyped DEF RemoveFinalizer, TypeOK
<1>8. CASE CallFails(op)
  <2>1. Requeue(op) /\ Spend("fault")
    BY <1>8 DEF CallFails
  <2>. QED  BY <1>8, <1>f, <2>1, EndTyped DEF CallFails, TypeOK
<1>9. ASSUME NEW k \in w.items, DeleteOwned(op, k)
      PROVE  TypeOK'
  <2>. DEFINE rest == w.items \ {k}
              c    == [w EXCEPT !.items = rest]
  <2>1. w.pc = "delete"
    BY <1>9 DEF DeleteOwned
  <2>2. \/ GoOn(op, IF rest = {} THEN NextPlace(w) ELSE c) /\ UNCHANGED budget
        \/ Requeue(op) /\ Spend("fault")
    BY <1>9 DEF DeleteOwned, Answered
  <2>3. objs' \subseteq [obj : Objects, refs : SUBSET (Manifests \X Nat)]
    BY <1>9 DEF DeleteOwned, Without, TypeOK
  <2>4. rest \subseteq Keys
    BY <1>0 DEF Calls
  <2>. HIDE DEF rest
  <2>5. c \in Calls /\ c.pc = w.pc /\ c.m = w.m /\ c.i = w.i /\ c.copy = w.copy
    BY <1>0, <2>4 DEF Calls
  <2>. HIDE DEF c
  <2>6. CallOK(c)
    BY <1>0, <2>1, <2>5 DEF CallOK
  <2>7. /\ work' \in [Operators -> Calls] /\ \A p \in Operators : CallOK(work'[p])
        /\ queue' \in [Operators -> SUBSET Manifests]
    BY <1>0, <2>1, <2>2, <2>5, <2>6, NextPlaceTyped, GoOnTyped, EndTyped
  <2>. QED  BY <1>9, <1>f, <1>u, <2>2, <2>3, <2>7 DEF DeleteOwned, TypeOK
<1>. QED  BY <1>1, <1>2, <1>3, <1>4, <1>5, <1>6, <1>7, <1>8, <1>9 DEF Work

\* Every behaviour of the control loop is well typed, and each Reconcile call
\* is where its copy of the manifest allows it to be: it applies only with
\* the finalizer, sweeps only a deleted copy, and never runs off the list of
\* objects or the sweep plan.
THEOREM TypeCorrect == Spec => []TypeOK
<1>1. Init => TypeOK
  <2>. SUFFICES ASSUME Init PROVE TypeOK
    OBVIOUS
  <2>1. NoManifest(0) \in Versions
    BY NoManifestTyped
  <2>2. /\ api \in [Manifests -> Versions]
        /\ cache \in [Operators -> [Manifests -> Versions]]
        /\ watch \in [Operators -> [Manifests -> Seq(Versions)]]
        /\ queue \in [Operators -> SUBSET Manifests]
    BY <2>1 DEF Init
  <2>3. work \in [Operators -> Calls] /\ \A op \in Operators : CallOK(work[op])
    BY IdleTyped DEF Init
  <2>4. objs \subseteq [obj : Objects, refs : SUBSET (Manifests \X Nat)]
    <3>1. ASSUME NEW x \in Foreign
          PROVE  x \in [obj : Objects, refs : SUBSET (Manifests \X Nat)]
      <4>. DEFINE o == x.obj
      <4>1. o \in ForeignObjects
        BY DEF ForeignObjects
      <4>2. o \in Objects
        BY <4>1 DEF Objects
      <4>3. x = [obj |-> o, refs |-> {}]
        BY ForeignAssumption DEF ForeignAssumption
      <4>. HIDE DEF o
      <4>4. [obj |-> o, refs |-> {}] \in [obj : Objects, refs : SUBSET (Manifests \X Nat)]
        BY <4>2
      <4>. QED  BY <4>3, <4>4
    <3>. QED  BY <3>1 DEF Init
  <2>5. budget \in [Events -> Nat]
    BY OperatorAssumption DEF OperatorAssumption, Init
  <2>. QED  BY <2>2, <2>3, <2>4, <2>5 DEF Init, TypeOK
<1>2. TypeOK /\ [Next]_vars => TypeOK'
  <2>. SUFFICES ASSUME TypeOK, [Next]_vars PROVE TypeOK'
    OBVIOUS
  <2>1. CASE Users
    BY <2>1, UsersTyped
  <2>2. CASE CollectGarbage
    BY <2>2 DEF CollectGarbage, TypeOK, CallOK
  <2>3. ASSUME NEW op \in Operators, NEW m \in Manifests, Deliver(op, m) \/ Begin(op, m)
        PROVE  TypeOK'
    BY <2>3, InformerTyped, BeginTyped
  <2>4. ASSUME NEW op \in Operators, Work(op) \/ Restart(op)
        PROVE  TypeOK'
    BY <2>4, InformerTyped, WorkStepTyped
  <2>5. CASE UNCHANGED vars
    BY <2>5 DEF vars, TypeOK, CallOK
  <2>. QED  BY <2>1, <2>2, <2>3, <2>4, <2>5 DEF Next
<1>. QED  BY <1>1, <1>2, PTL DEF Spec
=============================================================================
