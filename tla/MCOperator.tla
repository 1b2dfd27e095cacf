------------------------------ MODULE MCOperator ------------------------------
(***************************************************************************)
(* Small instances of Operator.                                            *)
(***************************************************************************)
EXTENDS OperatorProperties

Party(name, host) ==
  [name |-> Text(name), host |-> Text(host), port |-> 443,
   backendHost |-> Text(""), backendPort |-> 0]

Deny(key) ==
  [name |-> Text("deny"),
   responses |-> [k \in {key} |-> <<[operation |-> Text("Score"), body |-> Text("{}")]>>]]

SpecOf(party, key, backend, hp) ==
  [thirdParties |-> <<party>>, scenarios |-> <<Deny(key)>>,
   microcksService |-> hp, virtualBackend |-> Text(backend)]

MCDefaultMicrocks == HostPort("mock.sys", 9090)

\* One third party and the teaching mock; the same with Microcks, which adds
\* an object in the system namespace; and two rejected specs, the second with
\* two errors and so with two texts.
Teaching == SpecOf(Party("risk", "risk.com"), "risk", BackendTeachingMock, MCDefaultMicrocks)
Microcks == SpecOf(Party("risk", "risk.com"), "risk", BackendMicrocks, MCDefaultMicrocks)
UndefaultedTeaching ==
  SpecOf(Party("risk", "risk.com"), "risk", BackendTeachingMock, NoHostPort)
Other    == SpecOf(Party("pay", "pay.com"), "pay", BackendTeachingMock, MCDefaultMicrocks)
Broken   == SpecOf(Party("risk", "risk.com"), "pay", BackendTeachingMock, MCDefaultMicrocks)

Muddled ==
  [Teaching EXCEPT !.scenarios =
     <<[Deny("pay") EXCEPT !.responses =
          [k \in {"pay", "bank"} |-> Deny("pay").responses["pay"]]]>>]

Manifest(ns, name) == [ns |-> ns, name |-> name]
OneManifest == { Manifest("poc", "m") }

MCBudget(writes, faults, outages, restarts, tampers) ==
  [write |-> writes, fault |-> faults, outage |-> outages, restart |-> restarts,
   tamper |-> tampers]

\* Two manifests of other names that have objects in the system namespace:
\* one lives there, the other has its rewriting filter there.
StrangerManifests == { Manifest("poc", "m"), Manifest("sys", "n") }
WantedBy(m) == IF m.ns = "sys" THEN Teaching ELSE Microcks

\* Two manifests in one namespace.
NeighbourManifests == { Manifest("poc", "m"), Manifest("poc", "n") }

CoreSpecs == {Microcks, Broken}
ValidSpecs == {Teaching, Other}
MicrocksSpec == {Microcks}
TeachingSpec == {Teaching}
StrangerSpecs == {UndefaultedTeaching, Microcks}
LivenessSpecs == {Microcks, Broken, Muddled}

CoreBudget     == MCBudget(3, 1, 0, 1, 0)
LivenessBudget == MCBudget(2, 1, 1, 0, 0)
StrangerBudget == MCBudget(4, 1, 0, 0, 0)
UsersBudget    == MCBudget(3, 0, 0, 0, 0)
RollBudget     == MCBudget(2, 0, 0, 0, 0)
RestartBudget  == MCBudget(2, 1, 0, 2, 1)

\* Of steps: the strangers' users ask for one spec each, so that no key is shared.
OneSpecEach == \A m \in Manifests : api'[m].exists => api'[m].spec = WantedBy(m)

\* Of steps: five versions are the creation, the finalizer, a second write and two
\* texts: the loop feeds itself at least once before the draws agree.
Patience == 5
Settling == DrawsAgree(Patience)
=============================================================================
