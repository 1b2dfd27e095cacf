-------------------------- MODULE RequestChainProofs --------------------------
(***************************************************************************)
(* Proofs about RequestChain, for every set of cases and every setup: its  *)
(* type invariant, that a graceful stop loses no call, and that the chain  *)
(* implements the promise of CheckoutPromise.                              *)
(***************************************************************************)
EXTENDS RequestChain, SequenceTheorems, TLAPS

(***************************************************************************)
(* The invariant                                                           *)
(***************************************************************************)

\* The scenario that counts, and the backends the route has offered, as
\* CheckoutPromise defines them.
Counts(c) ==
  IF deployment.interceptors /\ ~deployment.strip THEN request[c].scenario ELSE NoScenario
Offered(c) ==
  LET host == Resolve(deployment.mode, Counts(c))
  IN  IF deployment.mode = "mesh" THEN { Divert(host, Counts(c), installed) : installed \in offers }
      ELSE {host}

Receivers(c, h) ==
  CASE h = 1 -> {"gateway"} [] h = 2 -> {"fraud"} [] h = 3 -> Offered(c)

Header(c, h) ==
  IF h = 1 THEN IF deployment.strip THEN NoScenario ELSE request[c].scenario
           ELSE Counts(c)

\* What each hop may answer: the verdict of a backend that was offered, or an
\* error that the absence of the callee or of a service behind it excuses, or
\* the deadline.
Verdicts(c) == { EvaluateRisk(b, Counts(c), request[c].token) : b \in Offered(c) }
Errors == {Failed("Unavailable"), Failed("DeadlineExceeded")}
When(excuse, answers) == IF excuse THEN answers ELSE {}

Good3(c) == Verdicts(c) \cup When(late[c] \/ Offered(c) \cap Away # {}, Errors)
Good2(c) ==
  { CheckFraud(risk) : risk \in Good3(c) } \cup When(late[c] \/ "fraud" \in Away, Errors)
Good1(c) ==
  { ProcessCheckout(fraud) : fraud \in Good2(c) } \cup When(late[c] \/ "gateway" \in Away, Errors)

Good(c, h) == CASE h = 1 -> Good1(c) [] h = 2 -> Good2(c) [] h = 3 -> Good3(c)

Kind(h) == CASE h = 1 -> CheckoutAnswer [] h = 2 -> FraudAnswer [] h = 3 -> RiskAnswer

\* A caller further up has returned or is gone: what hop h answers no longer
\* reaches the client.
Dead(c, h) == \E g \in Hops : g < h /\ call[c][g].caller \in {"returned", "gone"}

\* What holds of hop h of case c when its record is x.
CallOK(c, h, x) ==
  /\ x.caller = "idle" => x = NoCall
  /\ x.caller # "idle" =>
       /\ c \in DOMAIN request
       /\ IF h = 1 THEN connected ELSE call[c][h - 1].handled
       /\ x.header = Header(c, h)
       /\ x.to \in Receivers(c, h)
  /\ x.handled => x.scenario = Counts(c)
  /\ x.wire = "handling" => x.handled
  /\ x.wire = "request" => ~x.handled
  /\ x.wire = "broken" => x.to \in Away /\ (x.handled => x.to \in crashed)
  /\ x.answer = Failed("Unavailable") => x.wire = "broken"
  /\ x.wire = "reply" \/ x.caller = "returned" =>
       /\ x.answer \in Failure \cup Kind(h)
       /\ x.answer \in Good(c, h) \/ Dead(c, h)

\* A service serves now, or has been stopped or has crashed since.
Up(s) == service[s] = "serving" \/ s \in stopped \cup crashed

\* In local mode a dial proves that the peer served, with all its peers; and
\* once the client is connected every service serves or is away.
ProcessesOK ==
  /\ ~connected => unready = {}
  /\ \A s \in Services : service[s] = "serving" => dialled[s] = Len(Dials(s))
  /\ deployment.mode = "local" =>
       /\ dialled["gateway"] >= 1 => Up("fraud") /\ Up("external") /\ Up("microcks")
       /\ dialled["fraud"] >= 1 => Up("external")
       /\ dialled["fraud"] >= 2 => Up("microcks")
  /\ connected => \A s \in Services : service[s] = "serving" \/ s \in Away

IndInv ==
  /\ TypeOK
  /\ ProcessesOK
  /\ \A c \in Cases, h \in Hops : CallOK(c, h, call[c][h])

(***************************************************************************)
(* What the deciding functions return                                      *)
(***************************************************************************)

LEMMA FailureIs ==
  /\ \A code \in {"Unavailable", "DeadlineExceeded", "NotFound"} : Failed(code) \in Failure
  /\ NoAnswer \notin Failure
  /\ Failed("NotFound") # Failed("Unavailable")
BY DEF Failure, Failed, NoAnswer

LEMMA KindsDiffer ==
  /\ \A r \in RiskAnswer \cup FraudAnswer \cup CheckoutAnswer : r \notin Failure /\ r # NoAnswer
BY DEF Failure, Failed, NoAnswer, RiskAnswer, FraudAnswer, CheckoutAnswer

LEMMA RiskAnswers ==
  ASSUME NEW b, NEW scenario, NEW token
  PROVE  /\ EvaluateRisk(b, scenario, token) \in Failure \cup RiskAnswer
         /\ EvaluateRisk(b, scenario, token) # Failed("Unavailable")
<1>1. Score(token) \in RiskAnswer
  BY DEF Score, RiskAnswer
<1>2. scenario \in DOMAIN DefaultScenarios => DefaultScenarios[scenario] \in RiskAnswer
  BY DEF DefaultScenarios, RiskAnswer
<1>. QED  BY <1>1, <1>2, FailureIs, KindsDiffer DEF EvaluateRisk, EvaluateVirtual

LEMMA FraudAnswers ==
  ASSUME NEW risk \in Failure \cup RiskAnswer
  PROVE  /\ CheckFraud(risk) \in FraudAnswer
         /\ risk \in Failure => CheckFraud(risk) = Decline(100, "RISK_SERVICE_ERROR")
<1>1. CASE risk \in Failure
  BY <1>1 DEF CheckFraud, Decline, FraudAnswer, Reasons
<1>2. CASE risk \notin Failure
  <2>1. risk.score \in Int
    BY <1>2 DEF RiskAnswer
  <2>. QED  BY <1>2, <2>1 DEF CheckFraud, MapRisk, Decline, FraudAnswer, Reasons
<1>. QED  BY <1>1, <1>2

LEMMA CheckoutAnswers ==
  ASSUME NEW fraud \in Failure \cup FraudAnswer
  PROVE  /\ ProcessCheckout(fraud) \in CheckoutAnswer
         /\ fraud \in Failure => ProcessCheckout(fraud) = Declined(0, "FRAUD_CHECK_UNAVAILABLE")
<1>1. CASE fraud \in Failure
  <2>1. ProcessCheckout(fraud) = Declined(0, "FRAUD_CHECK_UNAVAILABLE")
    BY <1>1 DEF ProcessCheckout
  <2>. QED  BY <1>1, <2>1 DEF Declined, CheckoutAnswer, Reasons
<1>2. CASE fraud \notin Failure
  <2>1. fraud.score \in Int /\ fraud.reason \in Reasons
    BY <1>2 DEF FraudAnswer
  <2>. QED  BY <1>2, <2>1 DEF ProcessCheckout, Declined, CheckoutAnswer, Reasons
<1>. QED  BY <1>1, <1>2

\* A service that is not there makes the chain decline.
LEMMA ServiceErrorDeclines ==
  ProcessCheckout(Decline(100, "RISK_SERVICE_ERROR")) = Declined(100, "RISK_SERVICE_ERROR")
<1>1. Decline(100, "RISK_SERVICE_ERROR") \in FraudAnswer
  BY DEF Decline, FraudAnswer, Reasons
<1>2. Decline(100, "RISK_SERVICE_ERROR") \notin Failure
  BY <1>1, KindsDiffer
<1>. QED  BY <1>2 DEF ProcessCheckout, Decline

(***************************************************************************)
(* What no step takes back                                                 *)
(***************************************************************************)

\* y is a later state of the call x.
Later(x, y) ==
  /\ x.handled => y.handled
  /\ x.caller \in {"returned", "gone"} => y.caller \in {"returned", "gone"}

Monotone ==
  /\ deployment' = deployment /\ request' = request
  /\ offers \subseteq offers' /\ crashed \subseteq crashed' /\ Away \subseteq Away'
  /\ connected => connected'
  /\ \A c \in Cases : late[c] => late'[c]
  /\ \A c \in Cases, h \in Hops : Later(call[c][h], call'[c][h])

LEMMA OfferedGrows ==
  ASSUME Monotone, NEW c \in Cases
  PROVE  Counts(c)' = Counts(c) /\ Offered(c) \subseteq Offered(c)'
<1>1. Counts(c)' = Counts(c)
  BY DEF Monotone, Counts
<1>2. deployment' = deployment /\ offers \subseteq offers'
  BY DEF Monotone
<1>. QED  BY <1>1, <1>2 DEF Offered

LEMMA GoodGrows ==
  ASSUME Monotone, NEW c \in Cases, NEW h \in Hops
  PROVE  Good(c, h) \subseteq Good(c, h)'
<1>1. /\ Counts(c)' = Counts(c) /\ Offered(c) \subseteq Offered(c)'
      /\ request' = request /\ Away \subseteq Away' /\ (late[c] => late'[c])
  BY OfferedGrows DEF Monotone
<1>2. Verdicts(c) \subseteq Verdicts(c)'
  BY <1>1 DEF Verdicts
<1>3. Good3(c) \subseteq Good3(c)'
  BY <1>1, <1>2 DEF Good3, When, Errors
<1>4. Good2(c) \subseteq Good2(c)'
  BY <1>1, <1>3 DEF Good2, When, Errors
<1>5. Good1(c) \subseteq Good1(c)'
  BY <1>1, <1>4 DEF Good1, When, Errors
<1>. QED  BY <1>3, <1>4, <1>5 DEF Good, Hops

\* What holds of a record goes on to hold of it.
LEMMA Stable ==
  ASSUME Monotone, NEW c \in Cases, NEW h \in Hops, NEW x, CallOK(c, h, x)
  PROVE  CallOK(c, h, x)'
<1>1. Counts(c)' = Counts(c) /\ Offered(c) \subseteq Offered(c)' /\ Good(c, h) \subseteq Good(c, h)'
  BY OfferedGrows, GoodGrows
<1>2. Header(c, h)' = Header(c, h)
  BY <1>1 DEF Header, Monotone
<1>3. Receivers(c, h) \subseteq Receivers(c, h)'
  BY <1>1 DEF Receivers, Hops
<1>4. Dead(c, h) => Dead(c, h)'
  BY DEF Dead, Monotone, Later
<1>5. (IF h = 1 THEN connected ELSE call[c][h - 1].handled)
        => (IF h = 1 THEN connected ELSE call[c][h - 1].handled)'
  <2>1. h # 1 => h - 1 \in Hops
    BY DEF Hops
  <2>. QED  BY <2>1 DEF Monotone, Later
<1>6. request' = request /\ Away \subseteq Away' /\ crashed \subseteq crashed'
  BY DEF Monotone
<1>. QED  BY <1>1, <1>2, <1>3, <1>4, <1>5, <1>6 DEF CallOK

(***************************************************************************)
(* A step of one call                                                      *)
(***************************************************************************)

\* Everything but the calls and the budget.
Outside == <<inputVars, routeVars, processVars, clientVars, late>>

LEMMA ProcessesKept ==
  ASSUME ProcessesOK, UNCHANGED Outside
  PROVE  ProcessesOK'
BY DEF ProcessesOK, Outside, inputVars, processVars, clientVars, Up, Away, Dials

\* The call at hop h of case c becomes r.
LEMMA OneCall ==
  ASSUME IndInv, UNCHANGED Outside, budget' \in Bounds,
         NEW c \in Cases, NEW h \in Hops, NEW r \in CallType,
         call' = [call EXCEPT ![c][h] = r],
         Later(call[c][h], r), CallOK(c, h, r)
  PROVE  IndInv'
<1>. DEFINE Record(d, g) == IF d = c /\ g = h THEN r ELSE call[d][g]
<1>1. call \in [Cases -> [Hops -> CallType]]
  BY DEF IndInv, TypeOK
<1>2. call' \in [Cases -> [Hops -> CallType]]
  BY <1>1
<1>3. \A d \in Cases, g \in Hops : call'[d][g] = Record(d, g)
  BY <1>1
<1>. HIDE DEF Record
<1>4. Monotone
  <2>1. \A d \in Cases, g \in Hops : Later(call[d][g], Record(d, g))
    BY DEF Record, Later
  <2>. QED  BY <1>3, <2>1 DEF Monotone, Outside, inputVars, routeVars, processVars, clientVars, Away
<1>5. ASSUME NEW d \in Cases, NEW g \in Hops  PROVE CallOK(d, g, call[d][g])'
  <2>1. PICK x : x = Record(d, g)
    OBVIOUS
  <2>2. CallOK(d, g, x)
    BY <2>1 DEF Record, IndInv
  <2>3. CallOK(d, g, x)'
    BY <1>4, <2>2, Stable
  <2>. QED  BY <1>3, <2>1, <2>3
<1>6. \A d \in Cases, g \in Hops :
        /\ call'[d][g].caller = "returned" => call'[d][g].answer # NoAnswer
        /\ call'[d][g].caller # "idle" => IF g = 1 THEN connected' ELSE call'[d][g - 1].handled
  <2>1. ASSUME NEW g \in Hops  PROVE Kind(g) \subseteq RiskAnswer \cup FraudAnswer \cup CheckoutAnswer
    BY DEF Kind, Hops
  <2>. QED  BY <1>5, <2>1, FailureIs, KindsDiffer DEF CallOK
<1>7. TypeOK'
  BY <1>2, <1>6 DEF IndInv, TypeOK, Outside, inputVars, routeVars, processVars, clientVars, Dials
<1>8. ProcessesOK'
  BY ProcessesKept DEF IndInv
<1>. QED  BY <1>5, <1>7, <1>8 DEF IndInv

LEMMA Inputs ==
  ASSUME TypeOK
  PROVE  /\ deployment \in Deployments
         /\ \A c \in DOMAIN request : request[c] \in Request
BY ChainAssumption DEF ChainAssumption, TypeOK

LEMMA CountsTyped ==
  ASSUME TypeOK, NEW c \in DOMAIN request
  PROVE  /\ Counts(c) \in Scenarios
         /\ \A h \in Hops : Header(c, h) \in Scenarios
         /\ Offered(c) \subseteq {"external", "microcks"}
<1>1. request[c].scenario \in STRING
  BY Inputs DEF Request
<1>2. Counts(c) \in Scenarios
  BY <1>1 DEF Counts, Scenarios
<1>3. \A h \in Hops : Header(c, h) \in Scenarios
  BY <1>1, <1>2 DEF Header, Scenarios
<1>4. Offered(c) \subseteq {"external", "microcks"}
  BY DEF Offered, Resolve, Divert
<1>. QED  BY <1>2, <1>3, <1>4

\* A call that has been made: its caller was called, and the client is connected.
LEMMA Made ==
  ASSUME IndInv, NEW c \in Cases, NEW h \in Hops, call[c][h].caller # "idle"
  PROVE  /\ call[c][h] \in CallType
         /\ CallOK(c, h, call[c][h])
         /\ c \in DOMAIN request
         /\ connected
         /\ call[c][h].to \in Services
         /\ h > 1 => call[c][h - 1].handled /\ call[c][h - 1].caller # "idle"
<1>1. \A g \in Hops : call[c][g] \in CallType /\ CallOK(c, g, call[c][g])
  BY DEF IndInv, TypeOK
<1>2. ASSUME NEW g \in Hops, g > 1, call[c][g].caller # "idle"
      PROVE  g - 1 \in Hops /\ call[c][g - 1].handled /\ call[c][g - 1].caller # "idle"
  <2>1. g - 1 \in Hops /\ call[c][g - 1].handled
    BY <1>1, <1>2 DEF CallOK, Hops
  <2>. QED  BY <1>1, <2>1 DEF CallOK, NoCall
<1>3. connected
  <2>1. CASE h = 1
    BY <1>1, <2>1 DEF CallOK
  <2>2. CASE h = 2
    <3>1. call[c][1].caller # "idle"
      BY <1>2, <2>2
    <3>. QED  BY <1>1, <3>1 DEF CallOK, Hops
  <2>3. CASE h = 3
    <3>1. call[c][2].caller # "idle" /\ 2 \in Hops
      BY <1>2, <2>3
    <3>2. call[c][1].caller # "idle"
      BY <1>2, <3>1
    <3>. QED  BY <1>1, <3>2 DEF CallOK, Hops
  <2>. QED  BY <2>1, <2>2, <2>3 DEF Hops
<1>4. c \in DOMAIN request /\ call[c][h].to \in Receivers(c, h)
  BY <1>1 DEF CallOK
<1>5. call[c][h].to \in Services
  BY <1>4, CountsTyped DEF Receivers, Services, IndInv, Hops
<1>. QED  BY <1>1, <1>2, <1>3, <1>4, <1>5

\* A call that is still to be made is blank.
LEMMA Idle ==
  ASSUME IndInv, NEW c \in Cases, NEW h \in Hops, call[c][h].caller = "idle"
  PROVE  call[c][h] = NoCall
BY DEF IndInv, CallOK

LEMMA InvokeHolds ==
  ASSUME IndInv, NEW c \in Cases, NEW h \in Hops, Invoke(c, h)
  PROVE  IndInv'
<1>1. call[c][h] = NoCall
  BY Idle DEF Invoke
<1>2. h > 1 => /\ h - 1 \in Hops /\ call[c][h - 1].handled /\ call[c][h - 1].scenario = Counts(c)
               /\ call[c][h - 1].caller # "idle"
  <2>1. SUFFICES ASSUME h > 1
                 PROVE  /\ h - 1 \in Hops /\ call[c][h - 1].handled
                        /\ call[c][h - 1].scenario = Counts(c) /\ call[c][h - 1].caller # "idle"
    OBVIOUS
  <2>2. h - 1 \in Hops /\ call[c][h - 1].wire = "handling"
    BY <2>1 DEF Invoke, Hops
  <2>3. CallOK(c, h - 1, call[c][h - 1])
    BY <2>2 DEF IndInv
  <2>. QED  BY <2>2, <2>3 DEF CallOK, NoCall
<1>3. c \in DOMAIN request /\ (h = 1 => connected)
  BY <1>2, Made DEF Invoke, Hops
<1>4. Injected(c, h) = Header(c, h)
  BY <1>2 DEF Injected, Header, StreamMetadata, Hops
<1>5. Target(c, h) \in Receivers(c, h)
  <2>1. CASE h = 3
    <3>1. routed \in offers /\ call[c][2].scenario = Counts(c) /\ Injected(c, 3) = Counts(c)
      BY <1>2, <1>4, <2>1 DEF IndInv, TypeOK, Header
    <3>. QED  BY <2>1, <3>1 DEF Target, Receivers, Offered
  <2>. QED  BY <2>1 DEF Target, Receivers, Hops
<1>6. Injected(c, h) \in Scenarios /\ Target(c, h) \in Services
  BY <1>3, <1>4, <1>5, CountsTyped DEF IndInv, Receivers, Services, Hops
<1>7. PICK r : r = [call[c][h] EXCEPT !.caller = "waiting", !.to = Target(c, h),
                                      !.wire = "request", !.header = Injected(c, h)]
  OBVIOUS
<1>8. call[c][h] \in CallType
  BY DEF IndInv, TypeOK
<1>9. r \in CallType
  BY <1>6, <1>7, <1>8 DEF CallType
<1>10. /\ r.caller = "waiting" /\ r.wire = "request" /\ ~r.handled /\ r.answer = NoAnswer
       /\ r.header = Header(c, h) /\ r.to \in Receivers(c, h)
  BY <1>1, <1>4, <1>5, <1>7 DEF NoCall
<1>11. CallOK(c, h, r)
  BY <1>2, <1>3, <1>10 DEF CallOK, NoAnswer, Failed, Hops
<1>12. Later(call[c][h], r)
  BY <1>1 DEF Later, NoCall
<1>13. call' = [call EXCEPT ![c][h] = r]
  BY <1>7 DEF Invoke, UpdateCall
<1>14. UNCHANGED Outside /\ budget' \in Bounds
  BY DEF Invoke, UpdateCall, Outside, IndInv, TypeOK
<1>. QED  BY <1>9, <1>11, <1>12, <1>13, <1>14, OneCall

LEMMA AcceptHolds ==
  ASSUME IndInv, NEW c \in Cases, NEW h \in Hops, Accept(c, h)
  PROVE  IndInv'
<1>. DEFINE x == call[c][h]
<1>1. x.wire = "request" /\ x.caller # "idle"
  BY Idle DEF Accept, NoCall
<1>2. x \in CallType /\ CallOK(c, h, x) /\ c \in DOMAIN request
  BY <1>1, Made
<1>3. Captured(x.header) = Counts(c)
  <2>1. x.header = Header(c, h)
    BY <1>1, <1>2 DEF CallOK
  <2>. QED  BY <2>1 DEF Header, Captured, Counts
<1>4. Counts(c) \in Scenarios
  BY <1>2, CountsTyped DEF IndInv
<1>5. PICK r : r = [x EXCEPT !.wire = "handling", !.scenario = Counts(c), !.handled = TRUE]
  OBVIOUS
<1>6. r \in CallType
  BY <1>2, <1>4, <1>5 DEF CallType
<1>7. /\ r.caller = x.caller /\ r.to = x.to /\ r.header = x.header /\ r.answer = x.answer
      /\ r.wire = "handling" /\ r.handled /\ r.scenario = Counts(c)
  BY <1>2, <1>5 DEF CallType
<1>8. CallOK(c, h, r)
  BY <1>1, <1>2, <1>7 DEF CallOK
<1>9. Later(x, r)
  BY <1>7 DEF Later
<1>10. call' = [call EXCEPT ![c][h] = r]
  BY <1>3, <1>5 DEF Accept, UpdateCall
<1>11. UNCHANGED Outside /\ budget' \in Bounds
  BY DEF Accept, UpdateCall, Outside, IndInv, TypeOK
<1>. QED  BY <1>6, <1>8, <1>9, <1>10, <1>11, OneCall

LEMMA RefuseHolds ==
  ASSUME IndInv, NEW c \in Cases, NEW h \in Hops, Refuse(c, h)
  PROVE  IndInv'
<1>. DEFINE x == call[c][h]
<1>1. x.wire = "request" /\ x.caller # "idle"
  BY Idle DEF Refuse, NoCall
<1>2. x \in CallType /\ CallOK(c, h, x) /\ x.to \in Services /\ connected
  BY <1>1, Made
<1>3. x.to \in Away
  BY <1>2 DEF Refuse, Callee, IndInv, ProcessesOK, Away
<1>4. PICK r : r = [x EXCEPT !.wire = "broken"]
  OBVIOUS
<1>5. r \in CallType
  BY <1>2, <1>4 DEF CallType
<1>6. /\ r.caller = x.caller /\ r.to = x.to /\ r.header = x.header /\ r.answer = x.answer
      /\ r.wire = "broken" /\ r.handled = x.handled /\ r.scenario = x.scenario
  BY <1>2, <1>4 DEF CallType
<1>7. CallOK(c, h, r)
  BY <1>1, <1>2, <1>3, <1>6 DEF CallOK
<1>8. Later(x, r)
  BY <1>6 DEF Later
<1>. QED  BY <1>4, <1>5, <1>7, <1>8, OneCall
       DEF Refuse, UpdateCall, Outside, IndInv, TypeOK

\* An answer of a handler is good, unless the one it rests on was not, or
\* nobody waits for it any more.
LEMMA HandlerAnswerGood ==
  ASSUME IndInv, NEW c \in Cases, NEW h \in Hops,
         call[c][h].wire = "handling", call[c][h].caller = "waiting", HandlerDone(c, h)
  PROVE  /\ HandlerAnswer(c, h) \in Failure \cup Kind(h)
         /\ HandlerAnswer(c, h) # Failed("Unavailable")
         /\ HandlerAnswer(c, h) \in Good(c, h) \/ Dead(c, h)
<1>1. CallOK(c, h, call[c][h])
  BY DEF IndInv
<1>2. CASE h = 3
  <2>. DEFINE x == call[c][3]
  <2>1. x.scenario = Counts(c) /\ x.header = Counts(c) /\ x.to \in Offered(c)
    BY <1>1, <1>2 DEF CallOK, Header, Receivers
  <2>2. ScenarioName(x) = Counts(c)
    BY <2>1 DEF ScenarioName
  <2>3. HandlerAnswer(c, h) = EvaluateRisk(x.to, Counts(c), request[c].token)
    BY <1>2, <2>2 DEF HandlerAnswer, Callee
  <2>4. HandlerAnswer(c, h) \in Good3(c)
    BY <2>1, <2>3 DEF Good3, Verdicts
  <2>. QED  BY <1>2, <2>3, <2>4, RiskAnswers DEF Kind, Good
<1>3. CASE h = 2
  <2>. DEFINE a == call[c][3].answer
  <2>1. HandlerAnswer(c, h) = CheckFraud(a) /\ call[c][3].caller = "returned"
    BY <1>3 DEF HandlerAnswer, HandlerDone
  <2>2. a \in Failure \cup RiskAnswer /\ (a \in Good3(c) \/ Dead(c, 3))
    <3>1. CallOK(c, 3, call[c][3])
      BY DEF IndInv, Hops
    <3>. QED  BY <2>1, <3>1 DEF CallOK, Kind, Good
  <2>3. CheckFraud(a) \in FraudAnswer
    BY <2>2, FraudAnswers
  <2>4. Dead(c, 3) => Dead(c, 2)
    BY <1>3 DEF Dead, Hops
  <2>5. a \in Good3(c) => CheckFraud(a) \in Good2(c)
    BY DEF Good2
  <2>. QED  BY <1>3, <2>1, <2>2, <2>3, <2>4, <2>5, KindsDiffer, FailureIs DEF Kind, Good
<1>4. CASE h = 1
  <2>. DEFINE a == call[c][2].answer
  <2>1. HandlerAnswer(c, h) = ProcessCheckout(a) /\ call[c][2].caller = "returned"
    BY <1>4 DEF HandlerAnswer, HandlerDone
  <2>2. a \in Failure \cup FraudAnswer /\ (a \in Good2(c) \/ Dead(c, 2))
    <3>1. CallOK(c, 2, call[c][2])
      BY DEF IndInv, Hops
    <3>. QED  BY <2>1, <3>1 DEF CallOK, Kind, Good
  <2>3. ProcessCheckout(a) \in CheckoutAnswer
    BY <2>2, CheckoutAnswers
  <2>4. ~Dead(c, 2)
    BY <1>4 DEF Dead, Hops
  <2>5. a \in Good2(c) => ProcessCheckout(a) \in Good1(c)
    BY DEF Good1
  <2>. QED  BY <1>4, <2>1, <2>2, <2>3, <2>4, <2>5, KindsDiffer, FailureIs DEF Kind, Good
<1>. QED  BY <1>2, <1>3, <1>4 DEF Hops

LEMMA KindTyped ==
  \A h \in Hops : Failure \cup Kind(h) \subseteq
    {NoAnswer} \cup Failure \cup RiskAnswer \cup FraudAnswer \cup CheckoutAnswer
BY DEF Kind, Hops

LEMMA ServeHolds ==
  ASSUME IndInv, NEW c \in Cases, NEW h \in Hops, Serve(c, h)
  PROVE  IndInv'
<1>. DEFINE x == call[c][h]
<1>1. x.wire = "handling" /\ x.caller # "idle" /\ HandlerDone(c, h)
  BY Idle DEF Serve, NoCall
<1>2. x \in CallType /\ CallOK(c, h, x)
  BY <1>1, Made
<1>3. UNCHANGED Outside /\ budget' \in Bounds
  BY DEF Serve, UpdateCall, Outside, IndInv, TypeOK
<1>4. CASE x.caller = "waiting"
  <2>1. PICK a : a = HandlerAnswer(c, h)
    OBVIOUS
  <2>2. a \in Failure \cup Kind(h) /\ a # Failed("Unavailable") /\ (a \in Good(c, h) \/ Dead(c, h))
    BY <1>1, <1>4, <2>1, HandlerAnswerGood
  <2>3. PICK r : r = [x EXCEPT !.wire = "reply", !.answer = a]
    OBVIOUS
  <2>4. r \in CallType
    BY <1>2, <2>2, <2>3, KindTyped DEF CallType
  <2>5. /\ r.caller = "waiting" /\ r.to = x.to /\ r.header = x.header /\ r.answer = a
        /\ r.wire = "reply" /\ r.handled = x.handled /\ r.scenario = x.scenario
    BY <1>2, <1>4, <2>3 DEF CallType
  <2>6. CallOK(c, h, r)
    BY <1>1, <1>2, <2>2, <2>5 DEF CallOK
  <2>7. Later(x, r)
    BY <1>4, <2>5 DEF Later
  <2>8. call' = [call EXCEPT ![c][h] = r]
    BY <1>4, <2>1, <2>3 DEF Serve, UpdateCall
  <2>. QED  BY <1>3, <2>4, <2>6, <2>7, <2>8, OneCall
<1>5. CASE x.caller # "waiting"
  <2>1. PICK r : r = [x EXCEPT !.wire = "done"]
    OBVIOUS
  <2>2. r \in CallType
    BY <1>2, <2>1 DEF CallType
  <2>3. /\ r.caller = x.caller /\ r.to = x.to /\ r.header = x.header /\ r.answer = x.answer
        /\ r.wire = "done" /\ r.handled = x.handled /\ r.scenario = x.scenario
    BY <1>2, <2>1 DEF CallType
  <2>4. CallOK(c, h, r)
    BY <1>1, <1>2, <2>3 DEF CallOK
  <2>5. Later(x, r)
    BY <2>3 DEF Later
  <2>6. call' = [call EXCEPT ![c][h] = r]
    BY <1>5, <2>1 DEF Serve, UpdateCall
  <2>. QED  BY <1>3, <2>2, <2>4, <2>5, <2>6, OneCall
<1>. QED  BY <1>4, <1>5

LEMMA ReturnHolds ==
  ASSUME IndInv, NEW c \in Cases, NEW h \in Hops, Return(c, h)
  PROVE  IndInv'
<1>. DEFINE x == call[c][h]
<1>1. x.wire = "reply" /\ x.caller = "waiting"
  BY DEF Return
<1>2. x \in CallType /\ CallOK(c, h, x)
  BY <1>1, Made
<1>3. PICK r : r = [x EXCEPT !.caller = "returned", !.wire = "done"]
  OBVIOUS
<1>4. r \in CallType
  BY <1>2, <1>3 DEF CallType
<1>5. /\ r.caller = "returned" /\ r.to = x.to /\ r.header = x.header /\ r.answer = x.answer
      /\ r.wire = "done" /\ r.handled = x.handled /\ r.scenario = x.scenario
  BY <1>2, <1>3 DEF CallType
<1>6. CallOK(c, h, r)
  BY <1>1, <1>2, <1>5 DEF CallOK
<1>7. Later(x, r)
  BY <1>5 DEF Later
<1>8. call' = [call EXCEPT ![c][h] = r] /\ UNCHANGED Outside /\ budget' \in Bounds
  BY <1>3 DEF Return, UpdateCall, Outside, IndInv, TypeOK
<1>. QED  BY <1>4, <1>6, <1>7, <1>8, OneCall

\* A caller that waits gets an error that is excused, or does no good any more.
LEMMA ErrorHolds ==
  ASSUME IndInv, NEW c \in Cases, NEW h \in Hops, NEW code \in {"Unavailable", "DeadlineExceeded"},
         call[c][h].caller = "waiting",
         code = "Unavailable" => call[c][h].wire = "broken",
         Failed(code) \in Good(c, h) \/ Dead(c, h),
         UpdateCall(c, h, [call[c][h] EXCEPT !.caller = "returned", !.answer = Failed(code)])
  PROVE  IndInv'
<1>. DEFINE x == call[c][h]
<1>1. x \in CallType /\ CallOK(c, h, x)
  BY Made
<1>2. PICK a : a = Failed(code)
  OBVIOUS
<1>3. a \in Failure /\ (a = Failed("Unavailable") => x.wire = "broken")
  BY <1>2 DEF Failure, Failed
<1>4. PICK r : r = [x EXCEPT !.caller = "returned", !.answer = a]
  OBVIOUS
<1>5. r \in CallType
  BY <1>1, <1>3, <1>4 DEF CallType
<1>6. /\ r.caller = "returned" /\ r.to = x.to /\ r.header = x.header /\ r.answer = a
      /\ r.wire = x.wire /\ r.handled = x.handled /\ r.scenario = x.scenario
  BY <1>1, <1>4 DEF CallType
<1>7. CallOK(c, h, r)
  BY <1>1, <1>2, <1>3, <1>6 DEF CallOK
<1>8. Later(x, r)
  BY <1>6 DEF Later
<1>9. call' = [call EXCEPT ![c][h] = r]
  BY <1>2, <1>4 DEF UpdateCall
<1>10. UNCHANGED Outside /\ budget' \in Bounds
  BY DEF UpdateCall, Outside, IndInv, TypeOK
<1>. QED  BY <1>5, <1>7, <1>8, <1>9, <1>10, OneCall

LEMMA FailHolds ==
  ASSUME IndInv, NEW c \in Cases, NEW h \in Hops, Fail(c, h)
  PROVE  IndInv'
<1>. DEFINE x == call[c][h]
<1>1. x.wire = "broken" /\ x.caller = "waiting"
  BY DEF Fail
<1>2. x.to \in Away /\ x.to \in Receivers(c, h)
  BY <1>1, Made DEF CallOK
<1>3. Failed("Unavailable") \in Good(c, h)
  BY <1>2 DEF Receivers, Good, Good1, Good2, Good3, When, Errors, Hops
<1>. QED  BY <1>1, <1>3, ErrorHolds DEF Fail

LEMMA GiveUpHolds ==
  ASSUME IndInv, NEW c \in Cases, NEW h \in Hops, GiveUp(c, h)
  PROVE  IndInv'
<1>1. call[c][h].caller = "waiting" /\ Ended(c, h)
  BY DEF GiveUp
<1>2. CASE late[c]
  <2>1. Failed("DeadlineExceeded") \in Good(c, h)
    BY <1>2 DEF Good, Good1, Good2, Good3, When, Errors, Hops
  <2>. QED  BY <1>1, <2>1, ErrorHolds DEF GiveUp
<1>3. CASE ~late[c]
  <2>1. h > 1 /\ call[c][h - 1].caller # "waiting" /\ h - 1 \in Hops /\ h - 1 < h
    BY <1>1, <1>3 DEF Ended, Hops
  <2>2. call[c][h - 1].caller # "idle"
    BY <1>1, <2>1, Made
  <2>3. call[c][h - 1].caller \in {"returned", "gone"}
    BY <2>1, <2>2 DEF IndInv, TypeOK, CallType
  <2>4. Dead(c, h)
    BY <2>1, <2>3 DEF Dead
  <2>. QED  BY <1>1, <2>4, ErrorHolds DEF GiveUp
<1>. QED  BY <1>2, <1>3

LEMMA LoseHolds ==
  ASSUME IndInv, NEW c \in Cases, NEW h \in Hops, Lose(c, h)
  PROVE  IndInv'
<1>. DEFINE x == call[c][h]
<1>1. x.wire \in {"request", "reply"} /\ x.caller = "waiting"
  BY DEF Lose
<1>2. x \in CallType /\ CallOK(c, h, x)
  BY <1>1, Made
<1>3. PICK r : r = [x EXCEPT !.wire = "lost"]
  OBVIOUS
<1>4. r \in CallType
  BY <1>2, <1>3 DEF CallType
<1>5. /\ r.caller = "waiting" /\ r.to = x.to /\ r.header = x.header /\ r.answer = x.answer
      /\ r.wire = "lost" /\ r.handled = x.handled /\ r.scenario = x.scenario
  BY <1>1, <1>2, <1>3 DEF CallType
<1>6. CallOK(c, h, r)
  BY <1>1, <1>2, <1>5 DEF CallOK
<1>7. Later(x, r)
  BY <1>1, <1>5 DEF Later
<1>8. call' = [call EXCEPT ![c][h] = r]
  <2>1. call' = [call EXCEPT ![c][h].wire = "lost"]
    BY DEF Lose
  <2>. QED  BY <1>3, <2>1
<1>9. budget' \in Bounds
  <2>1. budget \in Bounds
    BY DEF IndInv, TypeOK
  <2>. QED  BY <2>1 DEF Lose, Bounds
<1>10. UNCHANGED Outside
  BY DEF Lose, Outside
<1>. QED  BY <1>4, <1>6, <1>7, <1>8, <1>9, <1>10, OneCall

(***************************************************************************)
(* The other steps                                                         *)
(***************************************************************************)

\* A step that leaves the calls alone and takes nothing back.
LEMMA NoCallMoves ==
  ASSUME IndInv, call' = call, Monotone, TypeOK', ProcessesOK'
  PROVE  IndInv'
<1>1. ASSUME NEW c \in Cases, NEW h \in Hops  PROVE CallOK(c, h, call[c][h])'
  <2>1. PICK x : x = call[c][h]
    OBVIOUS
  <2>2. CallOK(c, h, x)
    BY <2>1 DEF IndInv
  <2>3. CallOK(c, h, x)'
    BY <2>2, Stable
  <2>. QED  BY <2>1, <2>3
<1>. QED  BY <1>1 DEF IndInv

\* A process leaves its state, without taking back that it served.
LEMMA ProcessMoves ==
  ASSUME IndInv, UNCHANGED <<inputVars, routeVars, clientVars, call, late>>,
         stopped \subseteq stopped', stopped' \subseteq Services,
         crashed \subseteq crashed', crashed' \subseteq Services,
         service' \in [Services -> {"down", "dialling", "serving", "draining"}],
         dialled' \in [Services -> Nat], budget' \in Bounds,
         \A t \in Services : Up(t) => Up(t)',
         \A t \in Services : /\ dialled'[t] <= Len(Dials(t))
                             /\ service'[t] = "serving" => dialled'[t] = Len(Dials(t))
                             /\ deployment.mode # "local" \/ dialled'[t] <= dialled[t]
  PROVE  IndInv'
<1>1. \A t \in Services : Dials(t)' = Dials(t)
  BY DEF Dials, inputVars
<1>2. Monotone
  BY DEF Monotone, Later, inputVars, routeVars, clientVars, Away
<1>3. TypeOK'
  BY <1>1 DEF IndInv, TypeOK, inputVars, routeVars, clientVars
<1>4. ProcessesOK'
  <2>1. \A t \in Services : dialled[t] \in Nat /\ dialled'[t] \in Nat
    BY DEF IndInv, TypeOK
  <2>2. deployment' = deployment /\ connected' = connected /\ unready' = unready
    BY DEF inputVars, clientVars
  <2>3. (~connected => unready = {})'
    BY <2>2 DEF IndInv, ProcessesOK
  <2>4. (\A s \in Services : service[s] = "serving" => dialled[s] = Len(Dials(s)))'
    BY <1>1
  <2>5. deployment.mode = "local" =>
          (/\ dialled["gateway"] >= 1 => Up("fraud") /\ Up("external") /\ Up("microcks")
           /\ dialled["fraud"] >= 1 => Up("external")
           /\ dialled["fraud"] >= 2 => Up("microcks"))'
    <3>1. "gateway" \in Services /\ "fraud" \in Services /\ "external" \in Services /\ "microcks" \in Services
      BY DEF Services
    <3>. QED  BY <2>1, <3>1 DEF IndInv, ProcessesOK
  <2>6. (connected => \A s \in Services : service[s] = "serving" \/ s \in Away)'
    <3>1. Away \subseteq Away' /\ stopped' \cup crashed' \subseteq Away'
      BY <2>2 DEF Away
    <3>. QED  BY <2>2, <3>1 DEF IndInv, ProcessesOK, Up
  <2>. QED  BY <2>2, <2>3, <2>4, <2>5, <2>6 DEF ProcessesOK
<1>. QED  BY <1>2, <1>3, <1>4, NoCallMoves

LEMMA DialsLength ==
  \A s \in Services : Len(Dials(s)) \in Nat
BY DEF Dials

LEMMA StartHolds ==
  ASSUME IndInv, NEW s \in Services, Start(s)
  PROVE  IndInv'
<1>1. /\ service \in [Services -> {"down", "dialling", "serving", "draining"}]
      /\ dialled \in [Services -> Nat] /\ budget \in Bounds
      /\ stopped \subseteq Services /\ crashed \subseteq Services
      /\ \A t \in Services : /\ dialled[t] <= Len(Dials(t))
                             /\ service[t] = "serving" => dialled[t] = Len(Dials(t))
  BY DEF IndInv, TypeOK, ProcessesOK
<1>. QED  BY <1>1, DialsLength, ProcessMoves DEF Start, Up

LEMMA DialFailsHolds ==
  ASSUME IndInv, NEW s \in Services, DialFails(s) \/ Drained(s)
  PROVE  IndInv'
<1>1. /\ service \in [Services -> {"down", "dialling", "serving", "draining"}]
      /\ dialled \in [Services -> Nat] /\ budget \in Bounds
      /\ stopped \subseteq Services /\ crashed \subseteq Services
      /\ \A t \in Services : /\ dialled[t] <= Len(Dials(t))
                             /\ service[t] = "serving" => dialled[t] = Len(Dials(t))
  BY DEF IndInv, TypeOK, ProcessesOK
<1>. QED  BY <1>1, DialsLength, ProcessMoves DEF DialFails, Drained, Up

LEMMA ListenHolds ==
  ASSUME IndInv, NEW s \in Services, Listen(s)
  PROVE  IndInv'
<1>1. /\ service \in [Services -> {"down", "dialling", "serving", "draining"}]
      /\ dialled \in [Services -> Nat] /\ budget \in Bounds
      /\ stopped \subseteq Services /\ crashed \subseteq Services
      /\ \A t \in Services : /\ dialled[t] <= Len(Dials(t))
                             /\ service[t] = "serving" => dialled[t] = Len(Dials(t))
  BY DEF IndInv, TypeOK, ProcessesOK
<1>. QED  BY <1>1, DialsLength, ProcessMoves DEF Listen, Up

LEMMA StopHolds ==
  ASSUME IndInv, NEW s \in Services, Stop(s)
  PROVE  IndInv'
<1>1. /\ service \in [Services -> {"down", "dialling", "serving", "draining"}]
      /\ dialled \in [Services -> Nat] /\ budget \in Bounds
      /\ stopped \subseteq Services /\ crashed \subseteq Services
      /\ \A t \in Services : /\ dialled[t] <= Len(Dials(t))
                             /\ service[t] = "serving" => dialled[t] = Len(Dials(t))
  BY DEF IndInv, TypeOK, ProcessesOK
<1>2. budget' \in Bounds
  BY <1>1 DEF Stop, Bounds
<1>3. service' \in [Services -> {"down", "dialling", "serving", "draining"}]
  BY <1>1 DEF Stop
<1>4. \A t \in Services : t # s => service'[t] = service[t]
  BY <1>1 DEF Stop
<1>5. service'[s] # "serving" /\ s \in stopped'
  BY <1>1 DEF Stop
<1>6. \A t \in Services : Up(t) => Up(t)'
  BY <1>4, <1>5 DEF Stop, Up
<1>. QED  BY <1>1, <1>2, <1>3, <1>4, <1>5, <1>6, DialsLength, ProcessMoves DEF Stop

\* In mesh mode the sidecar accepts and nothing follows; in local mode a peer
\* that accepts has connected to its own peers, which served then.
LEMMA DialHolds ==
  ASSUME IndInv, NEW s \in Services, Dial(s)
  PROVE  IndInv'
<1>. DEFINE n == dialled[s] + 1
<1>1. /\ dialled \in [Services -> Nat] /\ n \in Nat /\ n <= Len(Dials(s))
      /\ dialled' = [dialled EXCEPT ![s] = n]
  BY DialsLength DEF IndInv, TypeOK, Dial
<1>2. /\ UNCHANGED <<inputVars, routeVars, service, stopped, crashed, clientVars, call, late, budget>>
      /\ service[s] = "dialling"
  BY DEF Dial
<1>3. deployment.mode = "local" => service[Dials(s)[n]] = "serving"
  BY DEF Dial
<1>4. n >= 1
  BY <1>1 DEF IndInv, TypeOK
<1>. HIDE DEF n
<1>5. dialled'[s] = n /\ \A t \in Services : t # s => dialled'[t] = dialled[t]
  BY <1>1
<1>6. \A t \in Services : Dials(t)' = Dials(t)
  BY <1>2 DEF Dials, inputVars
<1>7. Monotone
  BY <1>2 DEF Monotone, Later, inputVars, routeVars, clientVars, Away
<1>8. TypeOK'
  BY <1>1, <1>2, <1>5, <1>6 DEF IndInv, TypeOK, inputVars, routeVars, clientVars
<1>9. ProcessesOK'
  <2>1. ASSUME deployment.mode = "local"
        PROVE  /\ dialled'["gateway"] >= 1 => Up("fraud") /\ Up("external") /\ Up("microcks")
               /\ dialled'["fraud"] >= 1 => Up("external")
               /\ dialled'["fraud"] >= 2 => Up("microcks")
    <3>1. "gateway" \in Services /\ "fraud" \in Services
      BY DEF Services
    <3>2. CASE s = "gateway"
      <4>1. Dials(s) = <<"fraud">>
        BY <3>2 DEF Dials
      <4>2. n = 1
        BY <1>1, <1>4, <4>1
      <4>3. service["fraud"] = "serving"
        BY <1>3, <2>1, <4>1, <4>2
      <4>4. dialled["fraud"] = Len(Dials("fraud"))
        BY <3>1, <4>3 DEF IndInv, ProcessesOK
      <4>5. Dials("fraud") = <<"external", "microcks">>
        BY <2>1 DEF Dials
      <4>6. dialled["fraud"] = 2
        BY <4>4, <4>5
      <4>7. Up("external") /\ Up("microcks")
        BY <2>1, <4>6 DEF IndInv, ProcessesOK
      <4>. QED  BY <1>5, <3>1, <3>2, <4>3, <4>6, <4>7 DEF Up
    <3>3. CASE s = "fraud"
      <4>1. Dials(s) = <<"external", "microcks">>
        BY <2>1, <3>3 DEF Dials
      <4>2. n = 1 \/ n = 2
        BY <1>1, <1>4, <4>1
      <4>3. (n = 1 => Up("external")) /\ (n = 2 => Up("microcks"))
        BY <1>3, <2>1, <4>1, <4>2 DEF Up
      <4>4. n = 2 => Up("external")
        BY <1>1, <2>1, <3>3 DEF IndInv, ProcessesOK, n
      <4>5. dialled'["gateway"] = dialled["gateway"] /\ dialled'["fraud"] = n
        BY <1>5, <3>1, <3>3
      <4>. QED  BY <2>1, <4>2, <4>3, <4>4, <4>5 DEF IndInv, ProcessesOK
    <3>4. CASE s \notin {"gateway", "fraud"}
      <4>1. dialled'["gateway"] = dialled["gateway"] /\ dialled'["fraud"] = dialled["fraud"]
        BY <1>5, <3>1, <3>4
      <4>. QED  BY <2>1, <4>1 DEF IndInv, ProcessesOK
    <3>. QED  BY <3>2, <3>3, <3>4
  <2>2. \A t \in Services : service[t] = "serving" => dialled'[t] = Len(Dials(t))
    BY <1>2, <1>5 DEF IndInv, ProcessesOK
  <2>3. /\ deployment' = deployment /\ service' = service /\ connected' = connected
        /\ unready' = unready /\ stopped' = stopped /\ crashed' = crashed /\ Away' = Away
    BY <1>2 DEF inputVars, clientVars, Away
  <2>. QED  BY <1>6, <2>1, <2>2, <2>3 DEF IndInv, ProcessesOK, Up
<1>. QED  BY <1>2, <1>7, <1>8, <1>9, NoCallMoves

\* The connections of the process break; whoever called it sees that, and
\* what it called has lost its caller.
LEMMA CrashHolds ==
  ASSUME IndInv, NEW s \in Services, Crash(s)
  PROVE  IndInv'
<1>. DEFINE Wire(c, h) ==
              IF Callee(c, h) = s /\ call[c][h].wire \in {"request", "handling", "reply"}
              THEN "broken" ELSE call[c][h].wire
            End(c, h) ==
              IF Caller(c, h) = s /\ call[c][h].caller = "waiting"
              THEN "gone" ELSE call[c][h].caller
            Record(c, h) == [call[c][h] EXCEPT !.wire = Wire(c, h), !.caller = End(c, h)]
<1>1. /\ call' = [c \in Cases |-> [h \in Hops |-> Record(c, h)]]
      /\ UNCHANGED <<inputVars, routeVars, dialled, stopped, clientVars, late>>
      /\ crashed' = crashed \cup {s} /\ service' = [service EXCEPT ![s] = "down"]
      /\ budget' \in Bounds
  <2>1. call' = [c \in Cases |-> [h \in Hops |-> Record(c, h)]]
    BY DEF Crash
  <2>2. /\ UNCHANGED <<inputVars, routeVars, dialled, stopped, clientVars, late>>
        /\ crashed' = crashed \cup {s} /\ service' = [service EXCEPT ![s] = "down"]
        /\ budget.crash > 0 /\ budget' = [budget EXCEPT !.crash = @ - 1]
    BY DEF Crash
  <2>3. budget' \in Bounds
    BY <2>2 DEF IndInv, TypeOK, Bounds
  <2>. QED  BY <2>1, <2>2, <2>3
<1>2. ASSUME NEW c \in Cases, NEW h \in Hops
      PROVE  LET x == call[c][h]
                 y == Record(c, h)
             IN  /\ y \in CallType
                 /\ y.to = x.to /\ y.header = x.header /\ y.answer = x.answer
                 /\ y.handled = x.handled /\ y.scenario = x.scenario
                 /\ y.wire = x.wire \/ (y.wire = "broken" /\ x.to = s /\ x.wire # "none")
                 /\ y.caller = x.caller \/ (x.caller = "waiting" /\ y.caller = "gone")
  <2>1. call[c][h] \in CallType
    BY DEF IndInv, TypeOK
  <2>2. Wire(c, h) \in {call[c][h].wire, "broken"} /\ End(c, h) \in {call[c][h].caller, "gone"}
    OBVIOUS
  <2>3. Wire(c, h) = call[c][h].wire
          \/ (Wire(c, h) = "broken" /\ call[c][h].to = s /\ call[c][h].wire # "none")
    BY DEF Callee
  <2>4. End(c, h) = call[c][h].caller \/ (call[c][h].caller = "waiting" /\ End(c, h) = "gone")
    OBVIOUS
  <2>. HIDE DEF Wire, End
  <2>. QED  BY <2>1, <2>2, <2>3, <2>4 DEF CallType
<1>. HIDE DEF Record
<1>3. \A c \in Cases, h \in Hops : call'[c][h] = Record(c, h)
  BY <1>1
<1>4. call' \in [Cases -> [Hops -> CallType]]
  BY <1>1, <1>2
<1>5. Monotone
  <2>1. Away \subseteq Away'
    BY <1>1 DEF Away, inputVars, clientVars
  <2>2. \A c \in Cases, h \in Hops : Later(call[c][h], call'[c][h])
    BY <1>2, <1>3 DEF Later
  <2>. QED  BY <1>1, <2>1, <2>2 DEF Monotone, inputVars, routeVars, clientVars
<1>6. s \in Away' /\ s \in crashed'
  BY <1>1 DEF Away
<1>7. ASSUME NEW c \in Cases, NEW h \in Hops  PROVE CallOK(c, h, call[c][h])'
  <2>1. PICK x : x = call[c][h]
    OBVIOUS
  <2>2. PICK y : y = Record(c, h)
    OBVIOUS
  <2>3. CallOK(c, h, x) /\ CallOK(c, h, x)'
    BY <1>5, <2>1, Stable DEF IndInv
  <2>4. /\ y.to = x.to /\ y.header = x.header /\ y.answer = x.answer
        /\ y.handled = x.handled /\ y.scenario = x.scenario
        /\ y.wire = x.wire \/ (y.wire = "broken" /\ x.to = s /\ x.wire # "none")
        /\ y.caller = x.caller \/ (x.caller = "waiting" /\ y.caller = "gone")
    BY <1>2, <2>1, <2>2
  <2>5. y \in CallType /\ x \in CallType
    BY <1>2, <2>1, <2>2 DEF IndInv, TypeOK
  <2>6. y.caller = "idle" => y = NoCall
    <3>1. y.caller = "idle" => x.caller = "idle" /\ x = NoCall
      BY <2>3, <2>4 DEF CallOK
    <3>2. y.caller = "idle" => y.wire = x.wire
      BY <2>4, <3>1 DEF NoCall
    <3>. QED  BY <2>4, <2>5, <3>1, <3>2 DEF CallType
  <2>7. CallOK(c, h, y)'
    BY <1>6, <2>3, <2>4, <2>6 DEF CallOK
  <2>. QED  BY <1>3, <2>2, <2>7
<1>8. ProcessesOK'
  <2>1. \A t \in Services : t # s => service'[t] = service[t]
    BY <1>1 DEF IndInv, TypeOK
  <2>2. service'[s] = "down"
    BY <1>1 DEF IndInv, TypeOK
  <2>3. \A t \in Services : Dials(t)' = Dials(t)
    BY <1>1 DEF Dials, inputVars
  <2>4. \A t \in Services : Up(t) => Up(t)'
    BY <1>1, <2>1 DEF Up
  <2>5. stopped' \cup crashed' \subseteq Away'
    BY DEF Away
  <2>6. {"gateway", "fraud", "external", "microcks"} \subseteq Services
    BY DEF Services
  <2>7. /\ deployment' = deployment /\ dialled' = dialled /\ connected' = connected
        /\ unready' = unready /\ Away \subseteq Away'
    BY <1>1, <1>5 DEF Monotone, inputVars, clientVars
  <2>8. (connected => \A t \in Services : service[t] = "serving" \/ t \in Away)'
    BY <1>6, <2>1, <2>7 DEF IndInv, ProcessesOK
  <2>9. (\A t \in Services : service[t] = "serving" => dialled[t] = Len(Dials(t)))'
    BY <2>1, <2>2, <2>3, <2>7 DEF IndInv, ProcessesOK
  <2>10. deployment.mode = "local" =>
          (/\ dialled["gateway"] >= 1 => Up("fraud") /\ Up("external") /\ Up("microcks")
           /\ dialled["fraud"] >= 1 => Up("external")
           /\ dialled["fraud"] >= 2 => Up("microcks"))'
    BY <2>4, <2>6, <2>7 DEF IndInv, ProcessesOK
  <2>. QED  BY <2>7, <2>8, <2>9, <2>10 DEF IndInv, ProcessesOK
<1>9. TypeOK'
  <2>1. \A t \in Services : Dials(t)' = Dials(t)
    BY <1>1 DEF Dials, inputVars
  <2>2. ASSUME NEW h \in Hops  PROVE Kind(h) \subseteq RiskAnswer \cup FraudAnswer \cup CheckoutAnswer
    BY DEF Kind, Hops
  <2>3. \A c \in Cases, h \in Hops :
        /\ call'[c][h].caller = "returned" => call'[c][h].answer # NoAnswer
        /\ call'[c][h].caller # "idle" => IF h = 1 THEN connected' ELSE call'[c][h - 1].handled
    BY <1>7, <2>2, FailureIs, KindsDiffer DEF CallOK
  <2>. QED  BY <1>1, <1>4, <2>1, <2>3 DEF IndInv, TypeOK, inputVars, routeVars, clientVars
<1>. QED  BY <1>7, <1>8, <1>9 DEF IndInv

LEMMA ConnectHolds ==
  ASSUME IndInv, Connect
  PROVE  IndInv'
<1>1. /\ service["gateway"] = "serving" /\ connected' = TRUE /\ ~connected
      /\ unready' = { s \in Services : service[s] # "serving" }
      /\ UNCHANGED <<inputVars, routeVars, processVars, call, late, budget>>
  BY DEF Connect
<1>2. unready = {}
  BY <1>1 DEF IndInv, ProcessesOK
<1>3. deployment' = deployment /\ stopped' = stopped /\ crashed' = crashed
  BY <1>1 DEF inputVars, processVars
<1>4. Away \subseteq Away'
  BY <1>2, <1>3 DEF Away
<1>5. Monotone
  BY <1>1, <1>4 DEF Monotone, Later, inputVars, routeVars, processVars
<1>6. \A t \in Services : Dials(t)' = Dials(t)
  BY <1>3 DEF Dials
<1>7. TypeOK'
  BY <1>1, <1>6 DEF IndInv, TypeOK, inputVars, routeVars, processVars
<1>8. \A s \in Services : service[s] = "serving" \/ s \in Away'
  <2>1. CASE deployment.mode = "mesh"
    BY <1>1, <1>3, <2>1 DEF Away
  <2>2. CASE deployment.mode = "local"
    <3>1. "gateway" \in Services /\ dialled["gateway"] = Len(Dials("gateway"))
      BY <1>1 DEF IndInv, ProcessesOK, Services
    <3>2. dialled["gateway"] = 1
      BY <3>1 DEF Dials
    <3>3. Up("fraud") /\ Up("external") /\ Up("microcks")
      BY <2>2, <3>2 DEF IndInv, ProcessesOK
    <3>. QED  BY <1>1, <1>3, <3>3 DEF Up, Away, Services
  <2>3. deployment.mode \in {"local", "mesh"}
    BY Inputs DEF IndInv, Deployments
  <2>. QED  BY <2>1, <2>2, <2>3
<1>9. ProcessesOK'
  BY <1>1, <1>6, <1>8 DEF IndInv, ProcessesOK, Up, processVars, inputVars
<1>. QED  BY <1>1, <1>5, <1>7, <1>9, NoCallMoves

LEMMA ExpireHolds ==
  ASSUME IndInv, NEW c \in Cases, Expire(c)
  PROVE  IndInv'
<1>1. /\ late' = [late EXCEPT ![c] = TRUE]
      /\ UNCHANGED <<inputVars, routeVars, processVars, clientVars, call, budget>>
  BY DEF Expire
<1>2. Away' = Away
  BY <1>1 DEF Away, inputVars, processVars, clientVars
<1>3. late' \in [Cases -> BOOLEAN] /\ \A d \in Cases : late[d] => late'[d]
  BY <1>1 DEF IndInv, TypeOK
<1>4. Monotone
  BY <1>1, <1>2, <1>3 DEF Monotone, Later, inputVars, routeVars, processVars, clientVars
<1>5. \A t \in Services : Dials(t)' = Dials(t)
  BY <1>1 DEF Dials, inputVars
<1>6. TypeOK'
  BY <1>1, <1>3, <1>5 DEF IndInv, TypeOK, inputVars, routeVars, processVars, clientVars
<1>7. ProcessesOK'
  BY <1>1, <1>2, <1>5 DEF IndInv, ProcessesOK, Up, inputVars, processVars, clientVars
<1>. QED  BY <1>1, <1>4, <1>6, <1>7, NoCallMoves

LEMMA RerouteHolds ==
  ASSUME IndInv, Reroute
  PROVE  IndInv'
<1>1. /\ routed' = ~routed /\ offers' = offers \cup {~routed}
      /\ budget.route > 0 /\ budget' = [budget EXCEPT !.route = @ - 1]
      /\ UNCHANGED <<inputVars, processVars, clientVars, call, late>>
  BY DEF Reroute
<1>2. Away' = Away
  BY <1>1 DEF Away, inputVars, processVars, clientVars
<1>3. Monotone
  BY <1>1, <1>2 DEF Monotone, Later, inputVars, processVars, clientVars
<1>4. \A t \in Services : Dials(t)' = Dials(t)
  BY <1>1 DEF Dials, inputVars
<1>5. budget' \in Bounds
  <2>1. budget \in Bounds
    BY DEF IndInv, TypeOK
  <2>. QED  BY <1>1, <2>1 DEF Bounds
<1>6. TypeOK'
  BY <1>1, <1>4, <1>5 DEF IndInv, TypeOK, inputVars, processVars, clientVars
<1>7. ProcessesOK'
  BY <1>1, <1>2, <1>4 DEF IndInv, ProcessesOK, Up, inputVars, processVars, clientVars
<1>. QED  BY <1>1, <1>3, <1>6, <1>7, NoCallMoves

LEMMA InitHolds ==
  ASSUME Init
  PROVE  IndInv
<1>1. PICK setup \in Setups :
       /\ deployment = setup.deployment /\ request = setup.request
       /\ routed = setup.routed /\ budget = setup.budget
       /\ service = [s \in Services |-> IF setup.started THEN "serving" ELSE "down"]
       /\ dialled = [s \in Services |-> IF setup.started THEN Len(Dials(s)) ELSE 0]
  BY DEF Init
<1>2. /\ offers = {routed} /\ stopped = {} /\ crashed = {} /\ connected = FALSE /\ unready = {}
      /\ call = [c \in Cases |-> [h \in Hops |-> NoCall]]
      /\ late = [c \in Cases |-> FALSE]
  BY DEF Init
<1>3. setup.routed \in BOOLEAN /\ setup.started \in BOOLEAN /\ setup.budget \in Bounds
  BY <1>1, ChainAssumption DEF ChainAssumption
<1>4. NoCall \in CallType
  BY DEF NoCall, CallType, Scenarios
<1>5. call \in [Cases -> [Hops -> CallType]]
  BY <1>2, <1>4
<1>6. dialled \in [Services -> Nat] /\ \A s \in Services : dialled[s] <= Len(Dials(s))
  <2>1. \A s \in Services : Len(Dials(s)) \in Nat
    BY DialsLength
  <2>2. ASSUME NEW s \in Services  PROVE Len(Dials(s)) >= 0
    BY <2>1
  <2>. QED  BY <1>1, <1>3, <2>1, <2>2
<1>7. \A c \in Cases, h \in Hops : call[c][h].caller = "idle"
  BY <1>2 DEF NoCall
<1>8. TypeOK
  BY <1>1, <1>2, <1>3, <1>5, <1>6, <1>7 DEF TypeOK
<1>9. ProcessesOK
  <2>1. CASE setup.started
    BY <1>1, <1>2, <2>1 DEF ProcessesOK, Up, Services
  <2>2. CASE ~setup.started
    <3>1. \A s \in Services : service[s] = "down" /\ dialled[s] = 0
      BY <1>1, <2>2
    <3>. QED  BY <1>2, <3>1 DEF ProcessesOK, Services
  <2>. QED  BY <2>1, <2>2
<1>10. ASSUME NEW c \in Cases, NEW h \in Hops  PROVE CallOK(c, h, call[c][h])
  BY <1>2 DEF CallOK, NoCall, NoAnswer, Failed
<1>. QED  BY <1>8, <1>9, <1>10 DEF IndInv

LEMMA NextHolds ==
  ASSUME IndInv, [Next]_vars
  PROVE  IndInv'
<1>1. ASSUME NEW s \in Services,
             StartUp(s) \/ DialFails(s) \/ Stop(s) \/ Drained(s) \/ Crash(s)
      PROVE  IndInv'
  BY <1>1, StartHolds, DialHolds, ListenHolds, DialFailsHolds, StopHolds, CrashHolds DEF StartUp
<1>2. ASSUME NEW c \in Cases, Expire(c)
      PROVE  IndInv'
  BY <1>2, ExpireHolds
<1>3. ASSUME NEW c \in Cases, NEW h \in Hops, Progress(c, h) \/ Lose(c, h)
      PROVE  IndInv'
  BY <1>3, InvokeHolds, AcceptHolds, RefuseHolds, ServeHolds, ReturnHolds, FailHolds,
     GiveUpHolds, LoseHolds DEF Progress
<1>4. CASE UNCHANGED vars
  <2>1. /\ UNCHANGED Outside /\ call' = call /\ budget' = budget
        /\ UNCHANGED <<inputVars, routeVars, processVars, clientVars, late>>
    BY <1>4 DEF vars, Outside, inputVars, routeVars, processVars, clientVars
  <2>2. Monotone
    BY <2>1 DEF Monotone, Later, inputVars, routeVars, processVars, clientVars, Away
  <2>3. TypeOK'
    BY <2>1 DEF IndInv, TypeOK, inputVars, routeVars, processVars, clientVars, Dials
  <2>4. ProcessesOK'
    BY <2>1, ProcessesKept DEF IndInv
  <2>. QED  BY <2>1, <2>2, <2>3, <2>4, NoCallMoves
<1>. QED  BY <1>1, <1>2, <1>3, <1>4, ConnectHolds, RerouteHolds DEF Next

LEMMA IndInvSafe == Spec => []IndInv
<1>1. Init => IndInv
  BY InitHolds
<1>2. IndInv /\ [Next]_vars => IndInv'
  BY NextHolds
<1>. QED  BY <1>1, <1>2, PTL DEF Spec

(***************************************************************************)
(* Types, and stopping                                                     *)
(***************************************************************************)

\* For every set of cases and every setup the variables keep their types: an
\* answer is there when a caller has returned, and no call is made before its
\* caller's handler has begun.
THEOREM TypeCorrect == Spec => []TypeOK
<1>1. IndInv => TypeOK
  BY DEF IndInv
<1>. QED  BY <1>1, IndInvSafe, PTL

\* A graceful stop (GracefulStop in each main) loses no call that a handler
\* has begun, however many requests, stops and crashes there are: only a crash
\* of the callee makes its caller see the connection fail.
THEOREM StopSafe == Spec => []StopLosesNothing
<1>1. ASSUME IndInv, NEW c \in Cases, NEW h \in Hops,
             call[c][h].handled, call[c][h].caller = "returned",
             call[c][h].answer = Failed("Unavailable")
      PROVE  Callee(c, h) \in crashed
  <2>1. CallOK(c, h, call[c][h])
    BY <1>1 DEF IndInv
  <2>. QED  BY <1>1, <2>1 DEF CallOK, Callee
<1>2. IndInv => StopLosesNothing
  BY <1>1 DEF StopLosesNothing
<1>. QED  BY <1>2, IndInvSafe, PTL

(***************************************************************************)
(* The promise                                                             *)
(***************************************************************************)

Results == [c \in Cases |-> Result(c)]

LEMMA SameVerdict ==
  ASSUME NEW backend, NEW scenario, NEW token
  PROVE  Promise!Verdict(backend, scenario, token) = Verdict(backend, scenario, token)
<1>1. Promise!Failure = Failure
  BY DEF Promise!Failure, Promise!Failed, Failure, Failed
<1>2. Promise!EvaluateRisk(backend, scenario, token) = EvaluateRisk(backend, scenario, token)
  BY DEF Promise!EvaluateRisk, Promise!EvaluateVirtual, Promise!DefaultScenarios, Promise!Score,
         Promise!Failed, EvaluateRisk, EvaluateVirtual, DefaultScenarios, Score, Failed
<1>3. \A risk : Promise!CheckFraud(risk) = CheckFraud(risk)
  BY <1>1 DEF Promise!CheckFraud, Promise!MapRisk, Promise!Decline, Promise!DeclineThreshold,
              CheckFraud, MapRisk, Decline, DeclineThreshold
<1>4. \A fraud : Promise!ProcessCheckout(fraud) = ProcessCheckout(fraud)
  BY <1>1 DEF Promise!ProcessCheckout, Promise!Declined, ProcessCheckout, Declined
<1>. QED  BY <1>2, <1>3, <1>4 DEF Promise!Verdict, Verdict

LEMMA PromiseTerms ==
  ASSUME NEW c
  PROVE  /\ Promise!Scenario(c) = Counts(c)
         /\ Promise!Backends(c) = Offered(c)
<1>1. Promise!Scenario(c) = Counts(c)
  BY DEF Promise!Scenario, Promise!NoScenario, NoScenario, Counts
<1>2. Promise!Backends(c) = Offered(c)
  BY <1>1 DEF Promise!Backends, Promise!Resolve, Resolve, Promise!Divert, Divert,
              Promise!NoScenario, NoScenario, Offered
<1>. QED  BY <1>1, <1>2

\* What the gateway may answer is what the promise allows.
LEMMA GoodIsAllowed ==
  ASSUME NEW c, NEW answer \in Good1(c)
  PROVE  answer \in { Verdict(b, Promise!Scenario(c), request[c].token) : b \in Promise!Backends(c) }
                    \cup Promise!Excused(c)
<1>. DEFINE Allowed == { Verdict(b, Counts(c), request[c].token) : b \in Offered(c) }
<1>1. /\ "gateway" \in Away \/ late[c] => Errors \subseteq Promise!Excused(c)
      /\ "fraud" \in Away \/ late[c]
           => Declined(0, "FRAUD_CHECK_UNAVAILABLE") \in Promise!Excused(c)
      /\ Offered(c) \cap Away # {} \/ late[c]
           => Declined(100, "RISK_SERVICE_ERROR") \in Promise!Excused(c)
  BY PromiseTerms DEF Promise!Excused, Errors, Promise!Failed, Failed, Promise!Declined, Declined
<1>2. Errors \subseteq Failure
  BY DEF Errors, Failure
<1>3. ASSUME NEW risk \in Verdicts(c), answer = ProcessCheckout(CheckFraud(risk))
      PROVE  answer \in Allowed
  BY <1>3 DEF Verdicts, Verdict
<1>4. ASSUME NEW risk \in Errors, answer = ProcessCheckout(CheckFraud(risk)),
             late[c] \/ Offered(c) \cap Away # {}
      PROVE  answer \in Promise!Excused(c)
  <2>1. answer = Declined(100, "RISK_SERVICE_ERROR")
    BY <1>2, <1>4, FraudAnswers, ServiceErrorDeclines
  <2>. QED  BY <1>1, <1>4, <2>1
<1>5. ASSUME NEW fraud \in Errors, answer = ProcessCheckout(fraud),
             late[c] \/ "fraud" \in Away
      PROVE  answer \in Promise!Excused(c)
  <2>1. answer = Declined(0, "FRAUD_CHECK_UNAVAILABLE")
    BY <1>2, <1>5, CheckoutAnswers
  <2>. QED  BY <1>1, <1>5, <2>1
<1>6. ASSUME answer \in Errors, late[c] \/ "gateway" \in Away
      PROVE  answer \in Promise!Excused(c)
  BY <1>1, <1>6
<1>7. answer \in Allowed \/ answer \in Promise!Excused(c)
  <2>1. CASE answer \in When(late[c] \/ "gateway" \in Away, Errors)
    BY <1>6, <2>1 DEF When
  <2>2. CASE answer \in { ProcessCheckout(fraud) : fraud \in Good2(c) }
    <3>1. PICK fraud \in Good2(c) : answer = ProcessCheckout(fraud)
      BY <2>2
    <3>2. CASE fraud \in When(late[c] \/ "fraud" \in Away, Errors)
      BY <1>5, <3>1, <3>2 DEF When
    <3>3. CASE fraud \in { CheckFraud(risk) : risk \in Good3(c) }
      <4>1. PICK risk \in Good3(c) : fraud = CheckFraud(risk)
        BY <3>3
      <4>. HIDE DEF Allowed
      <4>. QED  BY <1>3, <1>4, <3>1, <4>1 DEF Good3, When
    <3>. QED  BY <3>1, <3>2, <3>3 DEF Good2
  <2>. QED  BY <2>1, <2>2 DEF Good1
<1>8. Allowed = { Verdict(b, Promise!Scenario(c), request[c].token) : b \in Promise!Backends(c) }
  BY PromiseTerms
<1>. QED  BY <1>7, <1>8

\* A step that moves neither the results nor what excuses them.
LEMMA Stutters ==
  ASSUME UNCHANGED <<deployment, request, offers, late>>, Away' = Away,
         \A c \in Cases : Result(c)' = Result(c)
  PROVE  UNCHANGED Promise!vars
<1>1. Results' = Results
  BY DEF Results
<1>. QED  BY <1>1 DEF Promise!vars, Results

\* The client's own call of a case returns r: the promise decides the case.
LEMMA Decides ==
  ASSUME IndInv, NEW c \in Cases, NEW r,
         call[c][1].caller = "waiting", r.caller = "returned",
         r.answer \in { Verdict(b, Promise!Scenario(c), request[c].token) : b \in Promise!Backends(c) }
                      \cup Promise!Excused(c),
         UpdateCall(c, 1, r)
  PROVE  Promise!Next
<1>1. c \in DOMAIN request
  BY Made DEF Hops
<1>2. call \in [Cases -> [Hops -> CallType]] /\ 1 \in Hops
  BY DEF IndInv, TypeOK, Hops
<1>3. /\ call' = [call EXCEPT ![c][1] = r]
      /\ UNCHANGED <<inputVars, routeVars, processVars, clientVars, late>>
  BY DEF UpdateCall
<1>4. Away' = Away
  BY <1>3 DEF Away, inputVars, processVars, clientVars
<1>5. call'[c][1] = r /\ \A d \in Cases : d # c => call'[d][1] = call[d][1]
  BY <1>2, <1>3
<1>6. Result(c) = NoAnswer /\ Result(c)' = r.answer
      /\ \A d \in Cases : d # c => Result(d)' = Result(d)
  BY <1>5 DEF Result
<1>7. PICK a : a = r.answer
  OBVIOUS
<1>8. Results' = [Results EXCEPT ![c] = a] /\ Results[c] = NoAnswer
  BY <1>6, <1>7 DEF Results
<1>9. Promise!Decide(c)
  <2>1. \E answer \in { Promise!Verdict(b, Promise!Scenario(c), request[c].token) : b \in Promise!Backends(c) }
                        \cup Promise!Excused(c) : answer = a
    BY <1>7, SameVerdict
  <2>. QED  BY <1>1, <1>3, <1>4, <1>8, <2>1 DEF Promise!Decide, Results, inputVars, routeVars
<1>. QED  BY <1>9 DEF Promise!Next

\* A step of a call that is not the client's, or that leaves the client waiting.
LEMMA CallStutters ==
  ASSUME IndInv, NEW c \in Cases, NEW h \in Hops, NEW r, UpdateCall(c, h, r),
         h # 1 \/ (call[c][h].caller # "returned" /\ r.caller # "returned")
               \/ (call[c][h].caller = r.caller /\ call[c][h].answer = r.answer)
  PROVE  UNCHANGED Promise!vars
<1>1. call \in [Cases -> [Hops -> CallType]] /\ 1 \in Hops
  BY DEF IndInv, TypeOK, Hops
<1>2. /\ call' = [call EXCEPT ![c][h] = r]
      /\ UNCHANGED <<inputVars, routeVars, processVars, clientVars, late>>
  BY DEF UpdateCall
<1>3. Away' = Away
  BY <1>2 DEF Away, inputVars, processVars, clientVars
<1>4. \A d \in Cases : call'[d][1] = IF d = c /\ h = 1 THEN r ELSE call[d][1]
  BY <1>1, <1>2
<1>5. \A d \in Cases : Result(d)' = Result(d)
  BY <1>4 DEF Result
<1>. QED  BY <1>2, <1>3, <1>5, Stutters DEF inputVars, routeVars

\* Somebody goes away, or the client finds somebody missing.
LEMMA Departs ==
  ASSUME UNCHANGED <<deployment, request, offers, late>>,
         \A c \in Cases : Result(c)' = Result(c),
         NEW services \in SUBSET Services, Away' = Away \cup services
  PROVE  Promise!Next
<1>1. Results' = Results
  BY DEF Results
<1>2. Promise!Depart(services)
  BY <1>1 DEF Promise!Depart, Results
<1>. QED  BY <1>2 DEF Promise!Next, Services

LEMMA InitPromises ==
  ASSUME Init
  PROVE  Promise!Init
<1>1. Results = [c \in Cases |-> NoAnswer] /\ Away = {} /\ late = [c \in Cases |-> FALSE]
  BY DEF Init, Results, Result, NoCall, Away, Hops
<1>2. offers \in {{TRUE}, {FALSE}}
  BY ChainAssumption DEF ChainAssumption, Init
<1>. QED  BY <1>1, <1>2 DEF Promise!Init, Results

\* The steps of the calls: the client's own call of a case decides it when it
\* returns, with whatever error; no other step of a call shows.
LEMMA CallsPromise ==
  ASSUME IndInv, NEW c \in Cases, NEW h \in Hops, Progress(c, h)
  PROVE  Promise!Next \/ UNCHANGED Promise!vars
<1>. DEFINE x == call[c][h]
<1>1. x \in CallType /\ (h = 1 => CallOK(c, 1, x))
  BY DEF IndInv, TypeOK
<1>2. CASE Invoke(c, h)
  <2>1. PICK r : r = [x EXCEPT !.caller = "waiting", !.to = Target(c, h),
                               !.wire = "request", !.header = Injected(c, h)]
    OBVIOUS
  <2>2. r.caller = "waiting" /\ x.caller = "idle"
    BY <1>1, <1>2, <2>1 DEF CallType, Invoke
  <2>. QED  BY <1>2, <2>1, <2>2, CallStutters DEF Invoke
<1>3. CASE Accept(c, h)
  <2>1. PICK r : r = [x EXCEPT !.wire = "handling", !.scenario = Captured(x.header), !.handled = TRUE]
    OBVIOUS
  <2>2. r.caller = x.caller /\ r.answer = x.answer
    BY <1>1, <2>1 DEF CallType
  <2>. QED  BY <1>3, <2>1, <2>2, CallStutters DEF Accept
<1>4. CASE Refuse(c, h)
  <2>1. PICK r : r = [x EXCEPT !.wire = "broken"]
    OBVIOUS
  <2>2. r.caller = x.caller /\ r.answer = x.answer
    BY <1>1, <2>1 DEF CallType
  <2>. QED  BY <1>4, <2>1, <2>2, CallStutters DEF Refuse
<1>5. CASE Serve(c, h)
  <2>1. PICK r : r = IF x.caller = "waiting"
                     THEN [x EXCEPT !.wire = "reply", !.answer = HandlerAnswer(c, h)]
                     ELSE [x EXCEPT !.wire = "done"]
    OBVIOUS
  <2>2. r.caller = x.caller /\ (x.caller # "waiting" => r.answer = x.answer)
    BY <1>1, <2>1 DEF CallType
  <2>. QED  BY <1>5, <2>1, <2>2, CallStutters DEF Serve
<1>6. CASE Return(c, h)
  <2>1. PICK r : r = [x EXCEPT !.caller = "returned", !.wire = "done"]
    OBVIOUS
  <2>2. r.caller = "returned" /\ r.answer = x.answer /\ UpdateCall(c, h, r)
    BY <1>1, <1>6, <2>1 DEF CallType, Return
  <2>3. CASE h = 1
    <3>1. ~Dead(c, 1)
      BY DEF Dead, Hops
    <3>2. x.answer \in Good1(c)
      BY <1>1, <1>6, <2>3, <3>1 DEF Return, CallOK, Good
    <3>3. r.answer \in { Verdict(b, Promise!Scenario(c), request[c].token) : b \in Promise!Backends(c) }
                         \cup Promise!Excused(c)
      BY <2>2, <3>2, GoodIsAllowed
    <3>4. call[c][1].caller = "waiting" /\ UpdateCall(c, 1, r)
      BY <1>6, <2>2, <2>3 DEF Return
    <3>. HIDE DEF x
    <3>. QED  BY <2>2, <3>3, <3>4, Decides
  <2>. QED  BY <2>2, <2>3, CallStutters
<1>7. ASSUME x.caller = "waiting", NEW code,
             UpdateCall(c, h, [x EXCEPT !.caller = "returned", !.answer = Failed(code)]),
             h = 1 => Failed(code) \in Good1(c)
      PROVE  Promise!Next \/ UNCHANGED Promise!vars
  <2>1. PICK r : r = [x EXCEPT !.caller = "returned", !.answer = Failed(code)]
    OBVIOUS
  <2>2. r.caller = "returned" /\ r.answer = Failed(code) /\ UpdateCall(c, h, r)
    BY <1>1, <1>7, <2>1 DEF CallType
  <2>3. CASE h = 1
    <3>1. r.answer \in { Verdict(b, Promise!Scenario(c), request[c].token) : b \in Promise!Backends(c) }
                         \cup Promise!Excused(c)
      BY <1>7, <2>2, <2>3, GoodIsAllowed
    <3>2. call[c][1].caller = "waiting" /\ UpdateCall(c, 1, r)
      BY <1>7, <2>2, <2>3
    <3>. HIDE DEF x
    <3>. QED  BY <2>2, <3>1, <3>2, Decides
  <2>. QED  BY <2>2, <2>3, CallStutters
<1>8. CASE Fail(c, h)
  <2>1. h = 1 => Failed("Unavailable") \in Good1(c)
    <3>1. h = 1 => x.to \in Away /\ x.to \in Receivers(c, 1)
      BY <1>1, <1>8 DEF Fail, CallOK
    <3>. QED  BY <3>1 DEF Receivers, Good1, When, Errors
  <2>. QED  BY <1>7, <1>8, <2>1 DEF Fail
<1>9. CASE GiveUp(c, h)
  <2>1. h = 1 => Failed("DeadlineExceeded") \in Good1(c)
    BY <1>9 DEF GiveUp, Ended, Good1, When, Errors
  <2>. QED  BY <1>7, <1>9, <2>1 DEF GiveUp
<1>. HIDE DEF x
<1>. QED  BY <1>2, <1>3, <1>4, <1>5, <1>6, <1>8, <1>9 DEF Progress

\* The steps of the processes: whoever is stopped or crashes departs.
LEMMA ProcessesPromise ==
  ASSUME IndInv, NEW s \in Services,
         StartUp(s) \/ DialFails(s) \/ Stop(s) \/ Drained(s) \/ Crash(s)
  PROVE  Promise!Next \/ UNCHANGED Promise!vars
<1>1. CASE StartUp(s) \/ DialFails(s) \/ Drained(s)
  <2>1. /\ UNCHANGED <<inputVars, routeVars, stopped, crashed, clientVars, call, late>>
    BY <1>1 DEF StartUp, Start, Dial, Listen, DialFails, Drained
  <2>. QED  BY <2>1, Stutters DEF inputVars, routeVars, clientVars, Away, Result
<1>2. CASE Stop(s)
  <2>1. /\ UNCHANGED <<inputVars, routeVars, crashed, clientVars, call, late>>
        /\ stopped' = stopped \cup {s}
    BY <1>2 DEF Stop
  <2>2. Away' = Away \cup {s}
    BY <2>1 DEF Away, inputVars, clientVars
  <2>3. \A c \in Cases : Result(c)' = Result(c)
    BY <2>1 DEF Result
  <2>. QED  BY <2>1, <2>2, <2>3, Departs DEF inputVars, routeVars
<1>3. CASE Crash(s)
  <2>1. /\ UNCHANGED <<inputVars, routeVars, stopped, clientVars, late>>
        /\ crashed' = crashed \cup {s}
    BY <1>3 DEF Crash
  <2>2. Away' = Away \cup {s}
    BY <2>1 DEF Away, inputVars, clientVars
  <2>3. ASSUME NEW c \in Cases
        PROVE  call'[c][1].caller = call[c][1].caller /\ call'[c][1].answer = call[c][1].answer
    <3>. DEFINE Wire(d, h) ==
                  IF Callee(d, h) = s /\ call[d][h].wire \in {"request", "handling", "reply"}
                  THEN "broken" ELSE call[d][h].wire
                End(d, h) ==
                  IF Caller(d, h) = s /\ call[d][h].caller = "waiting"
                  THEN "gone" ELSE call[d][h].caller
                Record(d, h) == [call[d][h] EXCEPT !.wire = Wire(d, h), !.caller = End(d, h)]
    <3>1. call' = [d \in Cases |-> [h \in Hops |-> Record(d, h)]]
      BY <1>3 DEF Crash
    <3>2. End(c, 1) = call[c][1].caller
      BY DEF Caller, Services
    <3>3. call[c][1] \in CallType /\ 1 \in Hops
      BY DEF IndInv, TypeOK, Hops
    <3>. HIDE DEF Wire, End
    <3>4. /\ Record(c, 1).caller = call[c][1].caller
          /\ Record(c, 1).answer = call[c][1].answer
      BY <3>2, <3>3 DEF CallType
    <3>. HIDE DEF Record
    <3>. QED  BY <3>1, <3>3, <3>4
  <2>4. \A c \in Cases : Result(c)' = Result(c)
    BY <2>3 DEF Result
  <2>. QED  BY <2>1, <2>2, <2>4, Departs DEF inputVars, routeVars
<1>. QED  BY <1>1, <1>2, <1>3

LEMMA OthersPromise ==
  ASSUME IndInv,
         Connect \/ Reroute \/ \E c \in Cases : Expire(c) \/ \E h \in Hops : Lose(c, h)
  PROVE  Promise!Next \/ UNCHANGED Promise!vars
<1>1. CASE Connect
  <2>1. /\ UNCHANGED <<inputVars, routeVars, processVars, call, late>>
        /\ unready' = { s \in Services : service[s] # "serving" } /\ unready = {}
    BY <1>1 DEF Connect, IndInv, ProcessesOK
  <2>2. PICK gone \in SUBSET Services :
          gone = IF deployment.mode = "mesh" THEN unready' ELSE {}
    BY <2>1
  <2>3. Away' = Away \cup gone
    BY <2>1, <2>2 DEF Away, inputVars, processVars
  <2>4. \A c \in Cases : Result(c)' = Result(c)
    BY <2>1 DEF Result
  <2>. QED  BY <2>1, <2>3, <2>4, Departs DEF inputVars, routeVars
<1>2. CASE Reroute
  <2>1. /\ UNCHANGED <<inputVars, processVars, clientVars, call, late>>
        /\ offers' = offers \cup {~routed} /\ (~routed) \in BOOLEAN
    BY <1>2 DEF Reroute
  <2>2. Results' = Results /\ Away' = Away
    BY <2>1 DEF Results, Result, Away, inputVars, processVars, clientVars
  <2>3. Promise!Reroute(~routed)
    BY <2>1, <2>2 DEF Promise!Reroute, Results, inputVars
  <2>. QED  BY <2>1, <2>3 DEF Promise!Next
<1>3. ASSUME NEW c \in Cases, Expire(c)  PROVE Promise!Next
  <2>1. /\ UNCHANGED <<inputVars, routeVars, processVars, clientVars, call>>
        /\ late' = [late EXCEPT ![c] = TRUE]
    BY <1>3 DEF Expire
  <2>2. Results' = Results /\ Away' = Away
    BY <2>1 DEF Results, Result, Away, inputVars, processVars, clientVars
  <2>3. Promise!Expire(c)
    BY <2>1, <2>2 DEF Promise!Expire, Results, inputVars, routeVars
  <2>. QED  BY <2>3 DEF Promise!Next
<1>4. ASSUME NEW c \in Cases, NEW h \in Hops, Lose(c, h)  PROVE UNCHANGED Promise!vars
  <2>1. /\ UNCHANGED <<inputVars, routeVars, processVars, clientVars, late>>
        /\ call' = [call EXCEPT ![c][h].wire = "lost"]
    BY <1>4 DEF Lose
  <2>2. call \in [Cases -> [Hops -> CallType]] /\ 1 \in Hops
    BY DEF IndInv, TypeOK, Hops
  <2>3. ASSUME NEW d \in Cases
        PROVE  call'[d][1].caller = call[d][1].caller /\ call'[d][1].answer = call[d][1].answer
    <3>1. call'[d][1] = IF d = c /\ h = 1 THEN [call[d][1] EXCEPT !.wire = "lost"] ELSE call[d][1]
      BY <2>1, <2>2
    <3>2. call[d][1] \in CallType
      BY <2>2
    <3>. QED  BY <3>1, <3>2 DEF CallType
  <2>4. Away' = Away /\ \A d \in Cases : Result(d)' = Result(d)
    BY <2>1, <2>3 DEF Result, Away, inputVars, processVars, clientVars
  <2>. QED  BY <2>1, <2>4, Stutters DEF inputVars, routeVars
<1>. QED  BY <1>1, <1>2, <1>3, <1>4

LEMMA NextPromises ==
  ASSUME IndInv, [Next]_vars
  PROVE  [Promise!Next]_(Promise!vars)
<1>1. CASE UNCHANGED vars
  <2>1. UNCHANGED <<deployment, request, offers, late, call, stopped, crashed, unready>>
    BY <1>1 DEF vars
  <2>. QED  BY <2>1, Stutters DEF Away, Result
<1>2. CASE Next
  BY <1>2, CallsPromise, ProcessesPromise, OthersPromise DEF Next
<1>. QED  BY <1>1, <1>2

\* The services, their calls and their processes implement CheckoutPromise,
\* for any number of concurrent cases, stops, crashes, losses and changes of
\* the route: a client gets the verdict of its own request from a backend the
\* route offered, or a decline that an absent service or its deadline excuses.
THEOREM PromiseKept == Spec => KeepsPromise
<1>1. Init => Promise!Init
  BY InitPromises
<1>2. IndInv /\ [Next]_vars => [Promise!Next]_(Promise!vars)
  BY NextPromises
<1>. QED  BY <1>1, <1>2, IndInvSafe, PTL DEF Spec, KeepsPromise, Promise!Spec

(***************************************************************************)
(* Where an answer comes from                                              *)
(***************************************************************************)

Answered(x) == x.wire = "reply" \/ x.caller = "returned"

\* What the backend that case c was sent to says of it.
Judged(c) == EvaluateRisk(call[c][3].to, Counts(c), request[c].token)

\* An answer a of hop h that is no error goes back to the verdict of the
\* backend that handled hop 3, or names a service that was missing.
Traced(c, h, a) ==
  \/ a \in Failure
  \/ h = 2 /\ a = Decline(100, "RISK_SERVICE_ERROR")
  \/ h = 1 /\ a \in {Declined(0, "FRAUD_CHECK_UNAVAILABLE"), Declined(100, "RISK_SERVICE_ERROR")}
  \/ /\ call[c][3].handled
     /\ a = CASE h = 3 -> Judged(c)
              [] h = 2 -> CheckFraud(Judged(c))
              [] h = 1 -> ProcessCheckout(CheckFraud(Judged(c)))

TraceInv ==
  \A c \in Cases, h \in Hops :
    Answered(call[c][h]) => Traced(c, h, call[c][h].answer)

\* A step from record x to y of hop h keeps where a call went, and an answer is
\* the one that was there, an error, or what the handler has just returned.
Comes(c, h, x, y) ==
  /\ x.handled => y.handled /\ y.to = x.to
  /\ Answered(y) =>
       \/ Answered(x) /\ y.answer = x.answer
       \/ y.answer \in Failure
       \/ x.handled /\ HandlerDone(c, h) /\ y.answer = HandlerAnswer(c, h)

AllCome == \A c \in Cases, h \in Hops : Comes(c, h, call[c][h], call'[c][h])

LEMMA OneComes ==
  ASSUME IndInv, NEW c \in Cases, NEW h \in Hops, NEW r,
         call' = [call EXCEPT ![c][h] = r], Comes(c, h, call[c][h], r)
  PROVE  AllCome
<1>1. call \in [Cases -> [Hops -> CallType]]
  BY DEF IndInv, TypeOK
<1>2. ASSUME NEW d \in Cases, NEW g \in Hops
      PROVE  Comes(d, g, call[d][g], call'[d][g])
  <2>1. CASE d = c /\ g = h
    <3>1. call'[d][g] = r
      BY <1>1, <2>1
    <3>. QED  BY <2>1, <3>1
  <2>2. CASE ~(d = c /\ g = h)
    <3>1. call'[d][g] = call[d][g]
      BY <1>1, <2>2
    <3>. QED  BY <3>1 DEF Comes
  <2>. QED  BY <2>1, <2>2
<1>. QED  BY <1>2 DEF AllCome

LEMMA ProgressComes ==
  ASSUME IndInv, NEW c \in Cases, NEW h \in Hops, Progress(c, h) \/ Lose(c, h)
  PROVE  AllCome
<1>. DEFINE x == call[c][h]
<1>1. x \in CallType /\ CallOK(c, h, x)
  BY DEF IndInv, TypeOK
<1>2. CASE Invoke(c, h)
  <2>1. PICK r : r = [x EXCEPT !.caller = "waiting", !.to = Target(c, h),
                               !.wire = "request", !.header = Injected(c, h)]
    OBVIOUS
  <2>2. x = NoCall
    BY <1>2, Idle DEF Invoke
  <2>3. r.caller = "waiting" /\ r.wire = "request" /\ x.handled = FALSE
    BY <1>1, <2>1, <2>2 DEF CallType, NoCall
  <2>. QED  BY <1>2, <2>1, <2>3, OneComes DEF Comes, Answered, Invoke, UpdateCall
<1>3. CASE Accept(c, h)
  <2>1. PICK r : r = [x EXCEPT !.wire = "handling", !.scenario = Captured(x.header),
                               !.handled = TRUE]
    OBVIOUS
  <2>2. ~x.handled
    BY <1>1, <1>3 DEF CallOK, Accept
  <2>3. r.caller = x.caller /\ r.wire = "handling" /\ r.answer = x.answer
    BY <1>1, <2>1 DEF CallType
  <2>. QED  BY <1>3, <2>1, <2>2, <2>3, OneComes DEF Comes, Answered, Accept, UpdateCall
<1>4. CASE Refuse(c, h)
  <2>1. PICK r : r = [x EXCEPT !.wire = "broken"]
    OBVIOUS
  <2>2. ~x.handled
    BY <1>1, <1>4 DEF CallOK, Refuse
  <2>3. r.caller = x.caller /\ r.wire = "broken" /\ r.answer = x.answer
    BY <1>1, <2>1 DEF CallType
  <2>. QED  BY <1>4, <2>1, <2>2, <2>3, OneComes DEF Comes, Answered, Refuse, UpdateCall
<1>5. CASE Serve(c, h) /\ x.caller = "waiting"
  <2>1. PICK a : a = HandlerAnswer(c, h)
    OBVIOUS
  <2>2. PICK r : r = [x EXCEPT !.wire = "reply", !.answer = a]
    OBVIOUS
  <2>3. x.handled /\ HandlerDone(c, h)
    BY <1>1, <1>5 DEF CallOK, Serve
  <2>4. r.handled = x.handled /\ r.to = x.to /\ r.answer = a
    BY <1>1, <2>2 DEF CallType
  <2>5. call' = [call EXCEPT ![c][h] = r]
    BY <1>5, <2>1, <2>2 DEF Serve, UpdateCall
  <2>6. Comes(c, h, x, r)
    BY <2>1, <2>3, <2>4 DEF Comes
  <2>. QED  BY <2>5, <2>6, OneComes
<1>6. CASE Serve(c, h) /\ x.caller # "waiting"
  <2>1. PICK r : r = [x EXCEPT !.wire = "done"]
    OBVIOUS
  <2>2. /\ r.handled = x.handled /\ r.to = x.to /\ r.answer = x.answer
        /\ r.caller = x.caller /\ r.wire = "done"
    BY <1>1, <2>1 DEF CallType
  <2>3. call' = [call EXCEPT ![c][h] = r]
    BY <1>6, <2>1 DEF Serve, UpdateCall
  <2>. QED  BY <2>2, <2>3, OneComes DEF Comes, Answered
<1>7. CASE Return(c, h)
  <2>1. PICK r : r = [x EXCEPT !.caller = "returned", !.wire = "done"]
    OBVIOUS
  <2>2. r.handled = x.handled /\ r.to = x.to /\ r.answer = x.answer
    BY <1>1, <2>1 DEF CallType
  <2>. QED  BY <1>7, <2>1, <2>2, OneComes DEF Comes, Answered, Return, UpdateCall
<1>8. ASSUME NEW code \in {"Unavailable", "DeadlineExceeded"},
             UpdateCall(c, h, [x EXCEPT !.caller = "returned", !.answer = Failed(code)])
      PROVE  AllCome
  <2>1. PICK r : r = [x EXCEPT !.caller = "returned", !.answer = Failed(code)]
    OBVIOUS
  <2>2. r.handled = x.handled /\ r.to = x.to /\ r.answer \in Failure
    BY <1>1, <2>1, FailureIs DEF CallType
  <2>. QED  BY <1>8, <2>1, <2>2, OneComes DEF Comes, UpdateCall
<1>9. CASE Fail(c, h)
  BY <1>8, <1>9 DEF Fail
<1>10. CASE GiveUp(c, h)
  BY <1>8, <1>10 DEF GiveUp
<1>11. CASE Lose(c, h)
  <2>1. PICK r : r = [x EXCEPT !.wire = "lost"]
    OBVIOUS
  <2>2. /\ r.handled = x.handled /\ r.to = x.to
        /\ r.caller = x.caller /\ r.caller = "waiting" /\ r.wire = "lost"
    BY <1>1, <1>11, <2>1 DEF CallType, Lose
  <2>3. call' = [call EXCEPT ![c][h] = r]
    <3>1. call' = [call EXCEPT ![c][h].wire = "lost"]
      BY <1>11 DEF Lose
    <3>. QED  BY <2>1, <3>1
  <2>. QED  BY <2>2, <2>3, OneComes DEF Comes, Answered
<1>. HIDE DEF x
<1>. QED  BY <1>2, <1>3, <1>4, <1>5, <1>6, <1>7, <1>9, <1>10, <1>11 DEF Progress

LEMMA CrashComes ==
  ASSUME IndInv, NEW s \in Services, Crash(s)
  PROVE  AllCome
<1>. DEFINE Wire(c, h) ==
              IF Callee(c, h) = s /\ call[c][h].wire \in {"request", "handling", "reply"}
              THEN "broken" ELSE call[c][h].wire
            End(c, h) ==
              IF Caller(c, h) = s /\ call[c][h].caller = "waiting"
              THEN "gone" ELSE call[c][h].caller
            Record(c, h) == [call[c][h] EXCEPT !.wire = Wire(c, h), !.caller = End(c, h)]
<1>1. call' = [c \in Cases |-> [h \in Hops |-> Record(c, h)]]
  BY DEF Crash
<1>2. ASSUME NEW c \in Cases, NEW h \in Hops
      PROVE  Comes(c, h, call[c][h], call'[c][h])
  <2>1. call[c][h] \in CallType
    BY DEF IndInv, TypeOK
  <2>2. Wire(c, h) \in {call[c][h].wire, "broken"} /\ End(c, h) \in {call[c][h].caller, "gone"}
    OBVIOUS
  <2>. HIDE DEF Wire, End
  <2>3. /\ Record(c, h).handled = call[c][h].handled /\ Record(c, h).to = call[c][h].to
        /\ Record(c, h).answer = call[c][h].answer
        /\ Record(c, h).wire = Wire(c, h) /\ Record(c, h).caller = End(c, h)
    BY <2>1 DEF CallType
  <2>. HIDE DEF Record
  <2>4. call'[c][h] = Record(c, h)
    BY <1>1
  <2>. QED  BY <2>2, <2>3, <2>4 DEF Comes, Answered
<1>. QED  BY <1>2 DEF AllCome

LEMMA NextComes ==
  ASSUME IndInv, [Next]_vars
  PROVE  AllCome /\ deployment' = deployment /\ request' = request
<1>1. ASSUME call' = call PROVE AllCome
  BY <1>1 DEF AllCome, Comes
<1>2. ASSUME NEW s \in Services,
             StartUp(s) \/ DialFails(s) \/ Stop(s) \/ Drained(s) \/ Crash(s)
      PROVE  AllCome /\ UNCHANGED inputVars
  <2>1. CASE Crash(s)
    BY <2>1, CrashComes DEF Crash
  <2>2. CASE ~Crash(s)
    BY <1>1, <1>2, <2>2 DEF StartUp, Start, Dial, Listen, DialFails, Stop, Drained
  <2>. QED  BY <2>1, <2>2
<1>3. ASSUME NEW c \in Cases, NEW h \in Hops, Progress(c, h) \/ Lose(c, h)
      PROVE  AllCome /\ UNCHANGED inputVars
  BY <1>3, ProgressComes
     DEF Progress, Invoke, Accept, Refuse, Serve, Return, Fail, GiveUp, Lose, UpdateCall
<1>4. ASSUME Connect \/ Reroute \/ (\E c \in Cases : Expire(c)) \/ UNCHANGED vars
      PROVE  AllCome /\ UNCHANGED inputVars
  BY <1>1, <1>4 DEF Connect, Reroute, Expire, vars, inputVars
<1>. QED  BY <1>2, <1>3, <1>4 DEF Next, inputVars

\* The answer a handler has just made up is traced.
LEMMA HandlerTraced ==
  ASSUME IndInv, TraceInv, NEW c \in Cases, NEW h \in Hops,
         call[c][h].handled, HandlerDone(c, h)
  PROVE  Traced(c, h, HandlerAnswer(c, h))
<1>1. \A g \in Hops : CallOK(c, g, call[c][g])
  BY DEF IndInv
<1>2. 1 \in Hops /\ 2 \in Hops /\ 3 \in Hops
  BY DEF Hops
<1>3. CASE h = 3
  <2>1. call[c][3].caller # "idle"
    BY <1>1, <1>3 DEF CallOK, NoCall
  <2>2. call[c][3].scenario = Counts(c) /\ call[c][3].header = Counts(c)
    BY <1>1, <1>2, <1>3, <2>1 DEF CallOK, Header
  <2>3. HandlerAnswer(c, h) = Judged(c)
    BY <1>3, <2>2 DEF HandlerAnswer, ScenarioName, Callee, Judged
  <2>. QED  BY <1>3, <2>3 DEF Traced
<1>4. CASE h = 2
  <2>1. HandlerAnswer(c, h) = CheckFraud(call[c][3].answer) /\ call[c][3].caller = "returned"
    BY <1>4 DEF HandlerAnswer, HandlerDone
  <2>2. Traced(c, 3, call[c][3].answer)
    BY <1>2, <2>1 DEF TraceInv, Answered
  <2>3. CASE call[c][3].answer \in Failure
    <3>1. HandlerAnswer(c, h) = Decline(100, "RISK_SERVICE_ERROR")
      BY <2>1, <2>3 DEF CheckFraud
    <3>. QED  BY <1>4, <3>1 DEF Traced
  <2>4. CASE call[c][3].answer \notin Failure
    <3>1. call[c][3].handled /\ call[c][3].answer = Judged(c)
      BY <2>2, <2>4 DEF Traced
    <3>. QED  BY <1>4, <2>1, <3>1 DEF Traced
  <2>. QED  BY <2>3, <2>4
<1>5. CASE h = 1
  <2>1. HandlerAnswer(c, h) = ProcessCheckout(call[c][2].answer) /\ call[c][2].caller = "returned"
    BY <1>5 DEF HandlerAnswer, HandlerDone
  <2>2. Traced(c, 2, call[c][2].answer)
    BY <1>2, <2>1 DEF TraceInv, Answered
  <2>3. CASE call[c][2].answer \in Failure
    <3>1. HandlerAnswer(c, h) = Declined(0, "FRAUD_CHECK_UNAVAILABLE")
      BY <2>1, <2>3 DEF ProcessCheckout
    <3>. QED  BY <1>5, <3>1 DEF Traced
  <2>4. CASE call[c][2].answer = Decline(100, "RISK_SERVICE_ERROR")
    <3>1. HandlerAnswer(c, h) = Declined(100, "RISK_SERVICE_ERROR")
      BY <2>1, <2>4, ServiceErrorDeclines
    <3>. QED  BY <1>5, <3>1 DEF Traced
  <2>5. CASE call[c][2].answer \notin Failure \cup {Decline(100, "RISK_SERVICE_ERROR")}
    <3>1. call[c][3].handled /\ call[c][2].answer = CheckFraud(Judged(c))
      BY <2>2, <2>5 DEF Traced
    <3>. QED  BY <1>5, <2>1, <3>1 DEF Traced
  <2>. QED  BY <2>3, <2>4, <2>5
<1>. QED  BY <1>3, <1>4, <1>5 DEF Hops

LEMMA TraceHolds ==
  ASSUME IndInv, TraceInv, [Next]_vars
  PROVE  TraceInv'
<1>1. AllCome /\ deployment' = deployment /\ request' = request
  BY NextComes
<1>2. ASSUME NEW c \in Cases, NEW h \in Hops, NEW a, Traced(c, h, a) PROVE Traced(c, h, a)'
  <2>1. call[c][3].handled => call'[c][3].handled /\ call'[c][3].to = call[c][3].to
    BY <1>1 DEF AllCome, Comes, Hops
  <2>2. call[c][3].handled => Judged(c)' = Judged(c)
    BY <1>1, <2>1 DEF Judged, Counts
  <2>. QED  BY <1>2, <2>1, <2>2 DEF Traced
<1>3. ASSUME NEW c \in Cases, NEW h \in Hops, Answered(call'[c][h])
      PROVE  Traced(c, h, call[c][h].answer)'
  <2>1. PICK a : a = call'[c][h].answer
    OBVIOUS
  <2>2. Traced(c, h, a)
    <3>1. CASE Answered(call[c][h]) /\ a = call[c][h].answer
      BY <3>1 DEF TraceInv
    <3>2. CASE a \in Failure
      BY <3>2 DEF Traced
    <3>3. CASE call[c][h].handled /\ HandlerDone(c, h) /\ a = HandlerAnswer(c, h)
      BY <3>3, HandlerTraced
    <3>. QED  BY <1>1, <1>3, <2>1, <3>1, <3>2, <3>3 DEF AllCome, Comes
  <2>3. Traced(c, h, a)'
    BY <1>2, <2>2
  <2>. QED  BY <2>1, <2>3
<1>. QED  BY <1>3 DEF TraceInv, Answered

LEMMA TraceSafe == Spec => []TraceInv
<1>1. Init => TraceInv
  BY DEF Init, TraceInv, Answered, NoCall
<1>2. IndInv /\ TraceInv /\ [Next]_vars => TraceInv'
  BY TraceHolds
<1>. QED  BY <1>1, <1>2, IndInvSafe, PTL DEF Spec

\* A client's verdict that names no missing service is the one of the backend
\* its request was sent to, and that backend's handler ran.
LEMMA DecidedBy ==
  ASSUME IndInv, TraceInv, NEW c \in Cases, Responded(Result(c)),
         \/ Result(c).status = "APPROVED"
         \/ Result(c).reason \notin {"FRAUD_CHECK_UNAVAILABLE", "RISK_SERVICE_ERROR"}
  PROVE  /\ call[c][3].handled
         /\ call[c][3].to \in Offered(c)
         /\ Result(c) = Verdict(call[c][3].to, Counts(c), request[c].token)
<1>1. call[c][1].caller = "returned" /\ Result(c) = call[c][1].answer /\ Result(c) \notin Failure
  BY DEF Responded, Result
<1>2. Traced(c, 1, Result(c))
  BY <1>1 DEF TraceInv, Answered, Hops
<1>3. Result(c) \notin {Declined(0, "FRAUD_CHECK_UNAVAILABLE"), Declined(100, "RISK_SERVICE_ERROR")}
  BY DEF Declined
<1>4. call[c][3].handled /\ Result(c) = Verdict(call[c][3].to, Counts(c), request[c].token)
  BY <1>1, <1>2, <1>3 DEF Traced, Judged, Verdict
<1>5. CallOK(c, 3, call[c][3])
  BY DEF IndInv, Hops
<1>6. call[c][3].caller # "idle"
  BY <1>4, <1>5 DEF CallOK, NoCall
<1>7. call[c][3].to \in Offered(c)
  BY <1>5, <1>6 DEF CallOK, Receivers
<1>. QED  BY <1>4, <1>7

\* runner.go:144: when the demo confirms the virtualization, for any pair of
\* its cases with one token, whatever runs beside them, the virtual backend
\* was called for the second one.
THEOREM DemoSafe == Spec => []DemoTruthful
<1>1. ASSUME IndInv, TraceInv PROVE DemoTruthful
  <2>. SUFFICES ASSUME NEW c \in DOMAIN request, NEW d \in DOMAIN request,
                       request[c].scenario = NoScenario, request[c].token = request[d].token,
                       VirtualizationConfirmed(Result(c), Result(d)),
                       Result(d).reason \notin {"FRAUD_CHECK_UNAVAILABLE", "RISK_SERVICE_ERROR"}
                PROVE  Callee(d, 3) = "microcks" /\ call[d][3].handled
    BY DEF DemoTruthful
  <2>1. c \in Cases /\ d \in Cases
    BY <1>1, ChainAssumption DEF ChainAssumption, IndInv, TypeOK
  <2>2. /\ Responded(Result(c)) /\ Result(c).status = "APPROVED"
        /\ Responded(Result(d)) /\ Result(d).status = "DECLINED"
    BY DEF VirtualizationConfirmed
  <2>3. Offered(c) \subseteq {"external"}
    <3>1. Counts(c) = NoScenario
      BY DEF Counts
    <3>. QED  BY <3>1 DEF Offered, Resolve, Divert
  <2>4. /\ call[c][3].to \in Offered(c)
        /\ Result(c) = Verdict(call[c][3].to, Counts(c), request[c].token)
    BY <1>1, <2>1, <2>2, DecidedBy
  <2>5. /\ call[d][3].handled /\ call[d][3].to \in Offered(d)
        /\ Result(d) = Verdict(call[d][3].to, Counts(d), request[d].token)
    BY <1>1, <2>1, <2>2, DecidedBy
  <2>6. Offered(d) \subseteq {"external", "microcks"}
    BY <1>1, CountsTyped DEF IndInv
  <2>7. \A sc1, sc2, token : Verdict("external", sc1, token) = Verdict("external", sc2, token)
    BY DEF Verdict, EvaluateRisk
  <2>8. call[d][3].to # "external"
    <3>. SUFFICES ASSUME call[d][3].to = "external" PROVE FALSE
      OBVIOUS
    <3>1. Result(d) = Result(c)
      BY <2>3, <2>4, <2>5, <2>7
    <3>. QED  BY <2>2, <3>1
  <2>. QED  BY <2>5, <2>6, <2>8 DEF Callee
<1>. QED  BY <1>1, IndInvSafe, TraceSafe, PTL
=============================================================================
