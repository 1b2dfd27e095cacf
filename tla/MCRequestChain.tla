---------------------------- MODULE MCRequestChain ----------------------------
(***************************************************************************)
(* Small instances of RequestChain.                                        *)
(***************************************************************************)
EXTENDS RequestChain

Ask(scenario, token) == [scenario |-> scenario, token |-> token]
One(ask) == [c \in {"c1"} |-> ask]
Two(first, second) == [c \in {"c1", "c2"} |-> IF c = "c1" THEN first ELSE second]

Bound(stops, crashes, losses, reroutes) ==
  [stop |-> stops, crash |-> crashes, lose |-> losses, route |-> reroutes]

Deployment(mode, strip, interceptors) ==
  [mode |-> mode, strip |-> strip, interceptors |-> interceptors]
Local == Deployment("local", FALSE, TRUE)
Mesh  == Deployment("mesh", FALSE, TRUE)
Prod  == Deployment("mesh", TRUE, TRUE)
Bare  == Deployment("mesh", FALSE, FALSE)

Setup(where, installed, asked, bound) ==
  [deployment |-> where, routed |-> installed, started |-> FALSE, request |-> asked,
   budget |-> bound]
Started(setup) == [setup EXCEPT !.started = TRUE]

\* One request among faults: a scenario that contradicts its token, the real
\* backend, an unknown scenario.
LocalSetups ==
  { Started(Setup(Local, FALSE, One(Ask("fraud-approved", "nft_high_risk")), Bound(1, 1, 0, 0))),
    Setup(Local, FALSE, One(Ask(NoScenario, "nft_high_risk")), Bound(0, 1, 1, 0)),
    Started(Setup(Local, FALSE, One(Ask("unknown", "nft_low_risk")), Bound(1, 0, 1, 0))) }

\* In the mesh: a route that comes or goes among faults, services that start
\* in any order, the ingress of production, services without interceptors.
MeshSetups ==
  { Started(Setup(Mesh, TRUE, One(Ask("fraud-declined", "nft_low_risk")), Bound(1, 0, 0, 1))),
    Started(Setup(Mesh, FALSE, One(Ask("fraud-declined", "nft_low_risk")), Bound(0, 0, 1, 1))),
    Setup(Mesh, TRUE, One(Ask(NoScenario, "nft_high_risk")), Bound(0, 0, 0, 0)),
    Setup(Mesh, TRUE, <<>>, Bound(0, 1, 0, 0)),
    Started(Setup(Prod, TRUE, One(Ask("fraud-declined", "nft_low_risk")), Bound(0, 0, 0, 0))),
    Started(Setup(Bare, TRUE, One(Ask("fraud-declined", "nft_low_risk")), Bound(0, 0, 0, 0))) }

\* The two requests of the demo side by side.
DemoSetups ==
  { Started(Setup(Local, FALSE, Two(Ask(NoScenario, "nft_low_risk"),
                                    Ask("fraud-declined", "nft_low_risk")),
                  Bound(0, 0, 0, 0))) }

MCSetups == LocalSetups \cup MeshSetups \cup DemoSetups
=============================================================================
