------------------------- MODULE MCAdmissionPipeline -------------------------
(***************************************************************************)
(* Small inputs for AdmissionPipeline: for every rule of the validation    *)
(* one value that breaks it, and combinations that break the rules that    *)
(* look at two entries.                                                    *)
(***************************************************************************)
EXTENDS AdmissionPipeline

Party(name, host, port, bhost, bport) ==
  [name |-> name, host |-> host, port |-> port,
   backendHost |-> bhost, backendPort |-> bport]

Risk == Party(Text("risk"), Text("risk.com"), 443, Text(""), 0)
Pay  == Party(Text("pay"), Padded("pay.com"), 50052, Padded("risk.com"), 80)

BadParties ==
  { [Risk EXCEPT !.name = Padded("risk")], [Risk EXCEPT !.name = Text("Risk")],
    [Risk EXCEPT !.name = Text("")], [Risk EXCEPT !.host = Padded("")],
    [Risk EXCEPT !.host = Text("http://risk")], [Risk EXCEPT !.port = 0],
    [Risk EXCEPT !.backendPort = 65536], [Risk EXCEPT !.backendPort = -1],
    [Risk EXCEPT !.backendHost = Text("http://risk")] }

MCThirdPartyLists ==
  { <<>>, <<Risk>>, <<Pay>>, <<Risk, Pay>>, <<Risk, Risk>>,
    <<Risk, [Pay EXCEPT !.host = Padded("risk.com")]>>,
    <<Risk, [Pay EXCEPT !.name = Text("risk")]>> }
  \cup { <<p>> : p \in BadParties } \cup { <<Pay, p>> : p \in BadParties }

Body == [operation |-> Text("Score"), body |-> Text("{}")]
Scenario(name, responses) == [name |-> name, responses |-> responses]
Deny == Scenario(Text("deny"), [k \in {"risk"} |-> <<Body>>])
Both == Scenario(Text("both"), [k \in {"risk", "pay"} |-> <<Body>>])

MCScenarioLists ==
  { <<>>, <<Deny>>, <<Both>>, <<Deny, Both>>, <<Deny, Deny>>,
    <<[Deny EXCEPT !.name = Text("")]>>, <<Scenario(Text("none"), <<>>)>>,
    <<Scenario(Text("empty"), [k \in {"risk"} |-> <<>>])>>,
    <<Scenario(Text("blank"), [k \in {"risk"} |-> <<[Body EXCEPT !.body = Padded("")]>>])>> }

MCMicrocksServices ==
  { NoHostPort, HostPort("mock", 9090), HostOnly("mock"), HostPort("", 9090),
    HostPort("http://risk", 9090), [HostOnly("mock") EXCEPT !.form = "empty"],
    HostPortWord("mock"), HostPort("mock", 70000) }

MCVirtualBackends ==
  { Text(""), Text(BackendTeachingMock), Text(BackendMicrocks), Padded(BackendMicrocks),
    Text("wiremock") }

MCDefaultMicrocks == HostPort("mock.sys", 9090)
=============================================================================
