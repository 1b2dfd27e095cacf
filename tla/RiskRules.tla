------------------------------ MODULE RiskRules ------------------------------
(***************************************************************************)
(* What each service of the reference application decides about one        *)
(* request, without the calls between them: the resolver and CheckFraud of *)
(* fraud-checker, ProcessCheckout of checkout-gateway, and EvaluateRisk of *)
(* the two risk backends.                                                  *)
(*                                                                         *)
(* An answer of a service is a record.  An answer of a gRPC call may also  *)
(* be an error, which is its status code; the callers never look at it.    *)
(***************************************************************************)
EXTENDS Integers

\* sim.ScenarioFromContext of a context without a scenario.
NoScenario == ""

Tokens == {"nft_high_risk", "nft_low_risk", "other"}

Failed(code) == [code |-> code]
Failure == { Failed(code) : code \in {"Unavailable", "DeadlineExceeded", "NotFound"} }

-----------------------------------------------------------------------------

\* LocalRiskResolver.Resolve.  main sets External always and Microcks in local
\* mode, so neither nil check of the resolver can fail.
Resolve(mode, scenario) ==
  IF mode = "local" /\ scenario # NoScenario THEN "microcks" ELSE "external"

\* What runs where: SIMULATION_MODE of fraud-checker, whether requests come in
\* through an ingress that strips the header, and whether the services have
\* the interceptors of internal/sim.
Deployments == [mode : {"local", "mesh"}, strip : BOOLEAN, interceptors : BOOLEAN]

\* The VirtualService of the third party: a request with a non-empty header
\* goes to the virtual backend, any other one to the host it was sent to.
Divert(host, header, installed) ==
  IF installed /\ header # NoScenario THEN "microcks" ELSE host

\* DefaultScenarios, the catalogue of microcks-mock.
DefaultScenarios ==
  [name \in {"fraud-approved", "fraud-declined"} |->
     IF name = "fraud-approved" THEN [score |-> 5, decision |-> "APPROVE"]
                                ELSE [score |-> 92, decision |-> "DECLINE"]]

\* VirtualService.EvaluateRisk.
EvaluateVirtual(scenario) ==
  IF scenario \in DOMAIN DefaultScenarios THEN DefaultScenarios[scenario]
                                          ELSE Failed("NotFound")

\* TokenPrefixScorer.Score, the rule of external-risk.
Score(token) ==
  CASE token = "nft_high_risk" -> [score |-> 85, decision |-> "DECLINE"]
    [] token = "nft_low_risk"  -> [score |-> 10, decision |-> "APPROVE"]
    [] OTHER                   -> [score |-> 20, decision |-> "APPROVE"]

EvaluateRisk(backend, scenario, token) ==
  IF backend = "microcks" THEN EvaluateVirtual(scenario) ELSE Score(token)

-----------------------------------------------------------------------------

DeclineThreshold == 70

Decline(score, reason) ==
  [recommendation |-> "DECLINE", score |-> score, reason |-> reason]

\* MapRiskToRecommendation.
MapRisk(risk) ==
  IF risk.score >= DeclineThreshold \/ risk.decision = "DECLINE"
  THEN Decline(risk.score, "HIGH_RISK_SCORE")
  ELSE [recommendation |-> "APPROVE", score |-> risk.score, reason |-> ""]

\* Checker.CheckFraud once EvaluateRisk has returned: never an error of its own.
CheckFraud(risk) ==
  IF risk \in Failure THEN Decline(100, "RISK_SERVICE_ERROR") ELSE MapRisk(risk)

Declined(score, reason) ==
  [status |-> "DECLINED", score |-> score, reason |-> reason]

\* Gateway.ProcessCheckout once CheckFraud has returned: never an error either.
ProcessCheckout(fraud) ==
  CASE fraud \in Failure                  -> Declined(0, "FRAUD_CHECK_UNAVAILABLE")
    [] fraud \notin Failure /\ fraud.recommendation = "DECLINE"
                                          -> Declined(fraud.score, fraud.reason)
    [] OTHER -> [status |-> "APPROVED", score |-> fraud.score, reason |-> ""]

\* What a request gets from a backend when every service answers.
Verdict(backend, scenario, token) ==
  ProcessCheckout(CheckFraud(EvaluateRisk(backend, scenario, token)))
=============================================================================
