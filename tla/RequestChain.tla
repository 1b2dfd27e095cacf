----------------------------- MODULE RequestChain -----------------------------
(***************************************************************************)
(* The reference application at run time: concurrent requests of the demo  *)
(* client pass checkout-gateway, fraud-checker and a risk backend, carrying*)
(* the simulation scenario as gRPC metadata, while services start, are     *)
(* stopped with SIGTERM, crash and come back, requests and answers get     *)
(* lost, and the client's deadline passes.                                 *)
(*                                                                         *)
(* Hop 1 is the client's call of the gateway, hop 2 the gateway's call of  *)
(* fraud-checker, hop 3 fraud-checker's call of a risk backend.  A call    *)
(* has two ends that see different things: the caller waits, or has        *)
(* returned, or is gone with its process; the request or the answer is on  *)
(* the wire or in the hands of the callee.                                 *)
(*                                                                         *)
(* In mesh mode every service has a sidecar: it accepts the dial whether   *)
(* or not the peer is there, may add the header to a request, and sends a  *)
(* call of the risk service where the VirtualService says, which the       *)
(* operator installs and removes meanwhile.                                *)
(***************************************************************************)
EXTENDS RiskRules, Sequences

CONSTANTS
  Cases,    \* the demo client's cases, run concurrently
  Setups    \* what a behaviour starts with: the deployment, the requests of
            \* some of the cases, whether the VirtualService is installed and
            \* whether the services have started, and how many stops, crashes,
            \* lost messages and changes of the route there may be (the only
            \* bounds of the module)

Services == {"gateway", "fraud", "external", "microcks"}
Hops == 1..3

Request == [scenario : STRING, token : Tokens]
Bounds == [stop : Nat, crash : Nat, lose : Nat, route : Nat]

ASSUME ChainAssumption ==
  \A setup \in Setups :
    /\ setup.deployment \in Deployments
    /\ setup.routed \in BOOLEAN /\ setup.started \in BOOLEAN
    /\ \E cases \in SUBSET Cases : setup.request \in [cases -> Request]
    /\ setup.budget \in Bounds

VARIABLES
  deployment, \* SIMULATION_MODE, the ingress filter, the interceptors
  request,    \* what each case asks
  routed,     \* is the VirtualService in place at the sidecar of fraud-checker?
  offers,     \* the values routed has had
  service,    \* state of each service process
  dialled,    \* how many of its peers a starting service is connected to
  stopped,    \* services that have been sent SIGTERM
  crashed,    \* services that have crashed
  connected,  \* the client's DialContext has returned
  unready,    \* services that did not serve when it did
  call,       \* the three calls of each case
  late,       \* cases whose 10 s are over
  budget      \* what is left of the bounds

vars == <<deployment, request, routed, offers, service, dialled, stopped, crashed,
          connected, unready, call, late, budget>>
processVars == <<service, dialled, stopped, crashed>>
inputVars == <<deployment, request>>
routeVars == <<routed, offers>>
clientVars == <<connected, unready>>

NoAnswer == [code |-> "none"]

\* header is the metadata of the request, scenario what the callee's
\* ServerInterceptor has put into its context; to is the process it goes to;
\* handled, whether its handler has run.
NoCall ==
  [caller |-> "idle", to |-> "none", wire |-> "none", header |-> NoScenario, scenario |-> NoScenario,
   handled |-> FALSE, answer |-> NoAnswer]

-----------------------------------------------------------------------------
(* Services: main of each cmd. *)

\* Mutant: the backend waits for the service that waits for it.
Dials_Mutual(s) ==
  CASE s = "gateway"  -> <<"fraud">>
    [] s = "fraud"    -> <<"external">>
    [] s = "external" -> <<"fraud">>
    [] OTHER          -> <<>>

\* The peers a main connects to, one after the other, before it listens.
Dials(s) ==
  CASE s = "gateway"                    -> <<"fraud">>
    [] s = "fraud" /\ deployment.mode = "local"    -> <<"external", "microcks">>
    [] s = "fraud" /\ deployment.mode # "local"    -> <<"external">>
    [] OTHER                            -> <<>>

Start(s) ==
  /\ service[s] = "down"
  /\ service' = [service EXCEPT ![s] = "dialling"]
  /\ dialled' = [dialled EXCEPT ![s] = 0]
  /\ UNCHANGED <<inputVars, routeVars, stopped, crashed, clientVars, call, late, budget>>

\* An attempt of DialInsecureRetry succeeds: the peer accepts, or in mesh mode
\* the sidecar does in its place.
Dial(s) ==
  /\ service[s] = "dialling"
  /\ dialled[s] < Len(Dials(s))
  /\ deployment.mode = "local" => service[Dials(s)[dialled[s] + 1]] = "serving"
  /\ dialled' = [dialled EXCEPT ![s] = @ + 1]
  /\ UNCHANGED <<inputVars, routeVars, service, stopped, crashed, clientVars, call, late, budget>>

\* Every attempt within maxWait has failed, and main exits.
DialFails(s) ==
  /\ service[s] = "dialling"
  /\ dialled[s] < Len(Dials(s))
  /\ service[Dials(s)[dialled[s] + 1]] # "serving"
  /\ service' = [service EXCEPT ![s] = "down"]
  /\ UNCHANGED <<inputVars, routeVars, dialled, stopped, crashed, clientVars, call, late, budget>>

Listen(s) ==
  /\ service[s] = "dialling"
  /\ dialled[s] = Len(Dials(s))
  /\ service' = [service EXCEPT ![s] = "serving"]
  /\ UNCHANGED <<inputVars, routeVars, dialled, stopped, crashed, clientVars, call, late, budget>>

\* The process that answers hop h of case c, and the one that makes the call.
Callee(c, h) == call[c][h].to
Caller(c, h) == IF h = 1 THEN "client" ELSE Callee(c, h - 1)

\* Mutant: gs.Stop instead of gs.GracefulStop.
Stop_Hard(s) ==
  /\ budget.stop > 0
  /\ service[s] \in {"dialling", "serving"}
  /\ service' = [service EXCEPT ![s] = "down"]
  /\ stopped' = stopped \cup {s}
  /\ call' = [c \in Cases |-> [h \in Hops |->
       IF Callee(c, h) = s /\ call[c][h].wire = "handling"
       THEN [call[c][h] EXCEPT !.wire = "broken"] ELSE call[c][h]]]
  /\ budget' = [budget EXCEPT !.stop = @ - 1]
  /\ UNCHANGED <<inputVars, routeVars, dialled, crashed, clientVars, late>>

\* SIGTERM: GracefulStop refuses new calls at once and waits for those it has.
\* A process that is not yet serving has no handler of the signal and dies.
\* The mains serve a moment before they ask for the signal; a SIGTERM in that
\* moment, which would be a crash, is not distinguished.
Stop(s) ==
  /\ budget.stop > 0
  /\ service[s] \in {"dialling", "serving"}
  /\ service' = [service EXCEPT ![s] = IF @ = "serving" THEN "draining" ELSE "down"]
  /\ stopped' = stopped \cup {s}
  /\ budget' = [budget EXCEPT !.stop = @ - 1]
  /\ UNCHANGED <<inputVars, routeVars, dialled, crashed, clientVars, call, late>>

Handles(s, c, h) == call[c][h].wire = "handling" /\ Callee(c, h) = s

Drained(s) ==
  /\ service[s] = "draining"
  /\ ~ \E c \in Cases, h \in Hops : Handles(s, c, h)
  /\ service' = [service EXCEPT ![s] = "down"]
  /\ UNCHANGED <<inputVars, routeVars, dialled, stopped, crashed, clientVars, call, late, budget>>

\* A crash (or SIGKILL): the connections to the process break, and the calls
\* it was waiting for have nobody left to return to.
Crash(s) ==
  LET Broken(c, h) ==
        IF Callee(c, h) = s /\ call[c][h].wire \in {"request", "handling", "reply"}
        THEN "broken" ELSE call[c][h].wire
      Orphaned(c, h) ==
        IF Caller(c, h) = s /\ call[c][h].caller = "waiting"
        THEN "gone" ELSE call[c][h].caller
  IN  /\ budget.crash > 0
      /\ service[s] # "down"
      /\ service' = [service EXCEPT ![s] = "down"]
      /\ crashed' = crashed \cup {s}
      /\ call' = [c \in Cases |-> [h \in Hops |->
           [call[c][h] EXCEPT !.wire = Broken(c, h), !.caller = Orphaned(c, h)]]]
      /\ budget' = [budget EXCEPT !.crash = @ - 1]
      /\ UNCHANGED <<inputVars, routeVars, dialled, stopped, clientVars, late>>

-----------------------------------------------------------------------------
(* Calls. *)

\* The demo client connects, once, before it runs its cases.
Connect ==
  /\ ~connected
  /\ service["gateway"] = "serving"
  /\ connected' = TRUE
  /\ unready' = { s \in Services : service[s] # "serving" }
  /\ UNCHANGED <<inputVars, routeVars, processVars, call, late, budget>>

UpdateCall(c, h, changed) ==
  /\ call' = [call EXCEPT ![c][h] = changed]
  /\ UNCHANGED <<inputVars, routeVars, processVars, clientVars, late, budget>>

\* ServerInterceptor: the scenario in the context of the handler.
Captured(header) == IF deployment.interceptors THEN header ELSE NoScenario

\* The inbound filter of a sidecar keeps the header in the dynamic metadata of
\* its stream; the outbound filter reads the metadata of the outgoing request,
\* which is another stream and has none.
StreamMetadata == NoScenario

\* Mutant: a dial without the ClientInterceptor.
Injected_Nothing(c, h) == IF h = 1 THEN request[c].scenario ELSE NoScenario

\* Runner.call, past the ingress of a production mesh, and ClientInterceptor,
\* past the outbound filter: the metadata of an outgoing request.
Injected(c, h) ==
  CASE h = 1 -> IF deployment.strip THEN NoScenario ELSE request[c].scenario
    [] h # 1 -> IF StreamMetadata # NoScenario THEN StreamMetadata ELSE call[c][h - 1].scenario

\* Where a request goes: the resolver dials a backend, and in mesh mode the
\* VirtualService looks at the header once more.
Target(c, h) ==
  CASE h = 1 -> "gateway"
    [] h = 2 -> "fraud"
    [] h = 3 -> LET host == Resolve(deployment.mode, call[c][2].scenario)
                IN  IF deployment.mode = "mesh" THEN Divert(host, Injected(c, 3), routed)
                    ELSE host

\* Mutant: the cases run without the blocking dial.
Invoke_Undialled(c, h) ==
  /\ call[c][h].caller = "idle"
  /\ IF h = 1 THEN c \in DOMAIN request ELSE call[c][h - 1].wire = "handling"
  /\ UpdateCall(c, h, [call[c][h] EXCEPT
       !.caller = "waiting", !.to = Target(c, h), !.wire = "request",
       !.header = Injected(c, h)])

\* The caller sends the request: the client for each case, a handler when it
\* gets to it.
Invoke(c, h) ==
  /\ call[c][h].caller = "idle"
  /\ IF h = 1 THEN connected /\ c \in DOMAIN request ELSE call[c][h - 1].wire = "handling"
  /\ UpdateCall(c, h, [call[c][h] EXCEPT
       !.caller = "waiting", !.to = Target(c, h), !.wire = "request",
       !.header = Injected(c, h)])

Accept(c, h) ==
  /\ call[c][h].wire = "request"
  /\ service[Callee(c, h)] = "serving"
  /\ UpdateCall(c, h, [call[c][h] EXCEPT
       !.wire = "handling", !.scenario = Captured(call[c][h].header), !.handled = TRUE])

\* The callee does not serve, or the caller's channel is still in back-off
\* because it went away before.
Refuse(c, h) ==
  /\ call[c][h].wire = "request"
  /\ \/ service[Callee(c, h)] # "serving"
     \/ Callee(c, h) \in stopped \cup crashed
  /\ UpdateCall(c, h, [call[c][h] EXCEPT !.wire = "broken"])

\* The handler returns: a risk backend at once, the others when their own
\* call has returned.
HandlerDone(c, h) == h < 3 => call[c][h + 1].caller = "returned"

\* ScenarioNameFromContext: the context, else the header or its rewritten copy.
ScenarioName(x) == IF x.scenario # NoScenario THEN x.scenario ELSE x.header

HandlerAnswer(c, h) ==
  CASE h = 1 -> ProcessCheckout(call[c][2].answer)
    [] h = 2 -> CheckFraud(call[c][3].answer)
    [] h = 3 -> EvaluateRisk(Callee(c, 3), ScenarioName(call[c][3]), request[c].token)

\* An answer nobody waits for is thrown away.
Serve(c, h) ==
  /\ call[c][h].wire = "handling"
  /\ HandlerDone(c, h)
  /\ UpdateCall(c, h,
       IF call[c][h].caller = "waiting"
       THEN [call[c][h] EXCEPT !.wire = "reply", !.answer = HandlerAnswer(c, h)]
       ELSE [call[c][h] EXCEPT !.wire = "done"])

Return(c, h) ==
  /\ call[c][h].caller = "waiting"
  /\ call[c][h].wire = "reply"
  /\ UpdateCall(c, h, [call[c][h] EXCEPT !.caller = "returned", !.wire = "done"])

\* The connection broke or was refused.
Fail(c, h) ==
  /\ call[c][h].caller = "waiting"
  /\ call[c][h].wire = "broken"
  /\ UpdateCall(c, h, [call[c][h] EXCEPT
       !.caller = "returned", !.answer = Failed("Unavailable")])

\* Mutants: no timeout in Runner.call; a handler that calls its peer with a
\* context of its own.
Ended_NoTimeout(c, h) == h > 1 /\ call[c][h - 1].caller # "waiting"
Ended_Background(c, h) == h = 1 /\ late[c]

\* The context of a call ends with the client's deadline, which travels with
\* the request, or when the handler making the call has lost its own caller.
Ended(c, h) == late[c] \/ (h > 1 /\ call[c][h - 1].caller # "waiting")

GiveUp(c, h) ==
  /\ call[c][h].caller = "waiting"
  /\ Ended(c, h)
  /\ UpdateCall(c, h, [call[c][h] EXCEPT
       !.caller = "returned", !.answer = Failed("DeadlineExceeded")])

\* A request or an answer never arrives, and no connection error tells.
Lose(c, h) ==
  /\ budget.lose > 0
  /\ call[c][h].caller = "waiting"
  /\ call[c][h].wire \in {"request", "reply"}
  /\ call' = [call EXCEPT ![c][h].wire = "lost"]
  /\ budget' = [budget EXCEPT !.lose = @ - 1]
  /\ UNCHANGED <<inputVars, routeVars, processVars, clientVars, late>>

\* The 10 s of Runner.call.
Expire(c) ==
  /\ call[c][1].caller = "waiting"
  /\ ~late[c]
  /\ late' = [late EXCEPT ![c] = TRUE]
  /\ UNCHANGED <<inputVars, routeVars, processVars, clientVars, call, budget>>

\* The operator installs the VirtualService, or sweeps it.
Reroute ==
  /\ deployment.mode = "mesh"
  /\ budget.route > 0
  /\ routed' = ~routed
  /\ offers' = offers \cup {~routed}
  /\ budget' = [budget EXCEPT !.route = @ - 1]
  /\ UNCHANGED <<inputVars, processVars, clientVars, call, late>>

-----------------------------------------------------------------------------

Init ==
  /\ \E setup \in Setups :
       /\ deployment = setup.deployment /\ request = setup.request
       /\ routed = setup.routed /\ budget = setup.budget
       /\ service = [s \in Services |-> IF setup.started THEN "serving" ELSE "down"]
       /\ dialled = [s \in Services |-> IF setup.started THEN Len(Dials(s)) ELSE 0]
  /\ offers = {routed}
  /\ stopped = {}
  /\ crashed = {}
  /\ connected = FALSE
  /\ unready = {}
  /\ call = [c \in Cases |-> [h \in Hops |-> NoCall]]
  /\ late = [c \in Cases |-> FALSE]

\* A step of a call that the processes take by themselves.
Progress(c, h) ==
  \/ Invoke(c, h) \/ Accept(c, h) \/ Refuse(c, h) \/ Serve(c, h)
  \/ Return(c, h) \/ Fail(c, h) \/ GiveUp(c, h)

StartUp(s) == Start(s) \/ Dial(s) \/ Listen(s)

Next ==
  \/ \E s \in Services : StartUp(s) \/ DialFails(s) \/ Stop(s) \/ Drained(s) \/ Crash(s)
  \/ Connect \/ Reroute
  \/ \E c \in Cases : Expire(c) \/ \E h \in Hops : Progress(c, h) \/ Lose(c, h)

Spec == Init /\ [][Next]_vars

\* Only Kubernetes restarts a process that has exited (the compose file and
\* the local script do not); time passes; what can be delivered is.  The steps
\* of one case, and the stops, are finite in number, so fairness to one of
\* them is fairness to each.
Fairness ==
  /\ \A s \in Services : WF_vars(deployment.mode = "mesh" /\ StartUp(s))
  /\ WF_vars(\E s \in Services : Drained(s))
  /\ \A c \in Cases : WF_vars(Expire(c) \/ \E h \in Hops : Progress(c, h))

FairSpec == Spec /\ Fairness

-----------------------------------------------------------------------------
(* Properties. *)

Scenarios == {NoScenario} \cup STRING
Reasons == {"", "HIGH_RISK_SCORE", "RISK_SERVICE_ERROR", "FRAUD_CHECK_UNAVAILABLE"}

RiskAnswer == [score : Int, decision : {"APPROVE", "DECLINE"}]
FraudAnswer == [recommendation : {"APPROVE", "DECLINE"}, score : Int, reason : Reasons]
CheckoutAnswer == [status : {"APPROVED", "DECLINED"}, score : Int, reason : Reasons]

CallType ==
  [caller : {"idle", "waiting", "returned", "gone"}, to : {"none"} \cup Services,
   wire : {"none", "request", "handling", "reply", "done", "broken", "lost"},
   header : Scenarios, scenario : Scenarios, handled : BOOLEAN,
   answer : {NoAnswer} \cup Failure \cup RiskAnswer \cup FraudAnswer \cup CheckoutAnswer]

\* Every variable has its type; nothing is called before its caller has been
\* called, a caller that has returned has an answer, and a service is not past
\* its list of peers.
TypeOK ==
  /\ \E setup \in Setups : deployment = setup.deployment /\ request = setup.request
  /\ routed \in BOOLEAN /\ routed \in offers /\ offers \subseteq BOOLEAN
  /\ service \in [Services -> {"down", "dialling", "serving", "draining"}]
  /\ dialled \in [Services -> Nat] /\ \A s \in Services : dialled[s] <= Len(Dials(s))
  /\ stopped \subseteq Services /\ crashed \subseteq Services
  /\ connected \in BOOLEAN /\ unready \subseteq Services
  /\ late \in [Cases -> BOOLEAN]
  /\ budget \in Bounds
  /\ call \in [Cases -> [Hops -> CallType]]
  /\ \A c \in Cases, h \in Hops :
       /\ call[c][h].caller = "returned" => call[c][h].answer # NoAnswer
       /\ call[c][h].caller # "idle" => IF h = 1 THEN connected ELSE call[c][h - 1].handled

Result(c) == IF call[c][1].caller = "returned" THEN call[c][1].answer ELSE NoAnswer

\* In mesh mode the dials of the services say nothing about their peers.
Away == stopped \cup crashed \cup (IF deployment.mode = "mesh" THEN unready ELSE {})

Promise ==
  INSTANCE CheckoutPromise WITH
    Pending <- NoAnswer,
    result <- [c \in Cases |-> Result(c)],
    away <- Away

\* The chain of calls implements the promise of CheckoutPromise: each request
\* is answered once, with the verdict of its own scenario and token, unless a
\* service was away or the deadline passed; then it is declined with a reason
\* that names the service, and never approved.  This includes the start-up: a
\* gateway that serves has peers that serve, as long as nothing has gone away.
KeepsPromise == Promise!Spec

\* A graceful stop costs no call that a handler has begun: unless the callee
\* crashed, its caller never sees the connection fail, even if the callee, its
\* caller or their peers were stopped in the meantime.
StopLosesNothing ==
  \A c \in Cases, h \in Hops :
    call[c][h].handled /\ call[c][h].caller = "returned" =>
      \/ call[c][h].answer # Failed("Unavailable")
      \/ Callee(c, h) \in crashed

\* Without an error: the client has a CheckoutResponse.
Responded(r) == r \notin Failure \cup {NoAnswer}

\* Mutant: the first case is not looked at.
VirtualizationConfirmed_SecondOnly(r1, r2) ==
  Responded(r1) /\ Responded(r2) /\ r2.status = "DECLINED"

\* VirtualizationConfirmed of the demo's two results.
VirtualizationConfirmed(r1, r2) ==
  Responded(r1) /\ Responded(r2) /\ r1.status = "APPROVED" /\ r2.status = "DECLINED"

\* "Scenario controlled entirely by header": where the demo reports this of a
\* real and another request for the same token, the virtual backend was
\* called for the other one - unless that was declined because a service was
\* missing, which the report does not tell apart.
DemoTruthful ==
  \A c, d \in DOMAIN request :
    /\ request[c].scenario = NoScenario /\ request[c].token = request[d].token
    /\ VirtualizationConfirmed(Result(c), Result(d))
    /\ Result(d).reason \notin {"FRAUD_CHECK_UNAVAILABLE", "RISK_SERVICE_ERROR"}
    => Callee(d, 3) = "microcks" /\ call[d][3].handled

\* Each case that the demo client has begun gets its answer, so that the
\* WaitGroup of Runner.Run is released: also when an answer is lost, which
\* only the deadline ends.
EveryCaseAnswered ==
  \A c \in Cases : call[c][1].caller = "waiting" ~> call[c][1].caller = "returned"

\* GracefulStop returns: no handler waits for ever, although the services set
\* no deadline of their own and an answer of a peer may be lost.
StopEnds ==
  \A s \in Services : service[s] = "draining" ~> service[s] # "draining"

\* Under Kubernetes the services find each other again whatever order they
\* come back in: in the end all of them serve.
AllServe ==
  deployment.mode = "mesh" => <>[](\A s \in Services : service[s] = "serving")
=============================================================================
