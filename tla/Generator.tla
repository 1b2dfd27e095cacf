------------------------------ MODULE Generator ------------------------------
(***************************************************************************)
(* The Istio objects the operator generates for a manifest                 *)
(* (internal/generator/generator.go).  An object is its kind, namespace,   *)
(* name, the value of its simulation.io/manifest label (owner) and the     *)
(* part of its body that the spec decides.  A generated name is the pair   *)
(* of the third party it is derived from ("" for a shared one) and the     *)
(* fixed rest.  The Lua bodies of the EnvoyFilters depend on the process   *)
(* configuration only and are not spelled out.                             *)
(***************************************************************************)
EXTENDS Contract

Kinds == {"EnvoyFilter", "DestinationRule", "ServiceEntry", "VirtualService"}

\* Where a route or an endpoint leads: the host, a Text, and the port; whole
\* is TRUE when splitHostPort handed back the unsplit string, colon and all.
Destination(t, whole, p) == [host |-> t, whole |-> whole, port |-> p]
NoDestination == Destination(Text(""), FALSE, 0)

DefaultPort == 9090

\* The address splitHostPort falls back to for an empty string.
BuiltinMicrocks ==
  Destination(Text("microcks-svc.simulation-system.svc.cluster.local"), FALSE, DefaultPort)

\* No colon, or one at index 0, leaves the string whole; so does a port that
\* is not an integer.  A port beyond 2^31 - 1 (int32(p) truncates it) is not
\* modelled.
splitHostPort(hp) ==
  IF hp = NoHostPort THEN BuiltinMicrocks
  ELSE IF hp.form = "number" /\ hp.host # "" THEN Destination(Text(hp.host), FALSE, hp.port)
  ELSE Destination(Text(hp.host), hp.form # "none", DefaultPort)

\* a unless it trims to nothing; the result is not trimmed.
firstNonEmpty(a, b) == IF Blank(a) THEN b ELSE a

firstHostPort(a, b) == IF a = NoHostPort THEN b ELSE a

isMicrocksBackend(t) == t.v \in MicrocksSpellings

\* sanitizeName lowers case and maps _ . / to -; every name that reaches the
\* generator matched nameRe and has none of them.
sanitizeName(t) == t.v

Object(kind, ns, name, owner, simulate, real) ==
  [kind |-> kind, ns |-> ns, name |-> name, owner |-> owner,
   simulate |-> simulate, real |-> real]

\* The capture and inject filters of the application namespace.
envoyFilterInbound(ns, owner) ==
  Object("EnvoyFilter", ns, <<"", "vf-inbound-capture">>, owner, NoDestination, NoDestination)
envoyFilterOutbound(ns, owner) ==
  Object("EnvoyFilter", ns, <<"", "vf-outbound-inject">>, owner, NoDestination, NoDestination)

\* The header rewrite next to the virtual backend, in the system namespace.
envoyFilterMicrocksRewrite(owner) ==
  Object("EnvoyFilter", SystemNamespace, <<"", "vf-microcks-scenario-rewrite">>, owner,
         NoDestination, NoDestination)

destinationRule(ns, owner, name, host, whole) ==
  Object("DestinationRule", ns, name, owner, NoDestination, Destination(host, whole, 0))

\* Mutant: no fallback for an unset backendPort.
serviceEntry_ZeroPort(ns, owner, tp) ==
  Object("ServiceEntry", ns, <<sanitizeName(tp.name), "-serviceentry">>, owner,
         Destination(tp.host, FALSE, tp.port),
         Destination(firstNonEmpty(tp.backendHost, tp.host), FALSE, tp.backendPort))

\* ServiceEntry: hosts and port the application dials (simulate), endpoint
\* that really answers (real).
serviceEntry(ns, owner, tp) ==
  Object("ServiceEntry", ns, <<sanitizeName(tp.name), "-serviceentry">>, owner,
         Destination(tp.host, FALSE, tp.port),
         Destination(firstNonEmpty(tp.backendHost, tp.host), FALSE,
                     IF tp.backendPort = 0 THEN tp.port ELSE tp.backendPort))

\* VirtualService: with the simulation header to Microcks, without it to the
\* third party.
virtualService(ns, owner, tp, microcks) ==
  Object("VirtualService", ns, <<sanitizeName(tp.name), "-simulation">>, owner,
         microcks, Destination(tp.host, FALSE, tp.port))

ThirdPartyObjects(ns, owner, tp, microcks) ==
  << serviceEntry(ns, owner, tp),
     virtualService(ns, owner, tp, microcks),
     destinationRule(ns, owner, <<sanitizeName(tp.name), "-third-party">>, tp.host, FALSE) >>

\* Every early return of Generate with an error.
GenerateFails(spec) ==
  \/ spec.thirdParties = <<>>
  \/ spec.scenarios = <<>>
  \/ \E i \in DOMAIN spec.thirdParties :
        LET tp == spec.thirdParties[i]
        IN  Empty(tp.name) \/ Empty(tp.host) \/ tp.port = 0

\* The objects that do not depend on a third party, in the order of add().
SharedObjects(ns, owner, spec, microcks) ==
  << envoyFilterInbound(ns, owner), envoyFilterOutbound(ns, owner) >>
  \o (IF isMicrocksBackend(spec.virtualBackend)
      THEN << envoyFilterMicrocksRewrite(owner) >> ELSE <<>>)
  \o << destinationRule(ns, owner, <<"", "microcks-grpc">>, microcks.host, microcks.whole) >>

\* How many they are: said apart, so that it takes no list to know.
SharedCount(spec) == IF isMicrocksBackend(spec.virtualBackend) THEN 4 ELSE 3

\* Three objects per third party follow the shared ones.
Generate(ns, owner, spec) ==
  LET microcks == splitHostPort(firstHostPort(spec.microcksService, DefaultMicrocksHostPort))
      shared   == SharedObjects(ns, owner, spec, microcks)
      n        == SharedCount(spec)
      party(i) == ThirdPartyObjects(ns, owner, spec.thirdParties[(i - n + 2) \div 3], microcks)
  IN  [ i \in 1..(n + 3 * Len(spec.thirdParties)) |->
          IF i <= n THEN shared[i] ELSE party(i)[((i - n - 1) % 3) + 1] ]

\* What the API server identifies an object by.
Key(o) == <<o.kind, o.ns, o.name>>

\* Result.Names: kind/name, without the namespace.
Names(objects) == [ i \in DOMAIN objects |-> <<objects[i].kind, objects[i].name>> ]
=============================================================================
