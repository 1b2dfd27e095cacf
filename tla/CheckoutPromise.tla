--------------------------- MODULE CheckoutPromise ---------------------------
(***************************************************************************)
(* What the chain of services promises a client: a request is decided      *)
(* once, as if checkout, fraud check and risk evaluation were one function *)
(* of the request and of the backend its route offers, whatever other      *)
(* requests are under way.  Only a service that has been away, or the      *)
(* request's own deadline, excuses another answer; then it is never an     *)
(* approval, and its reason names the service that was away.               *)
(***************************************************************************)
EXTENDS RiskRules

CONSTANT Cases, Pending

VARIABLES
  deployment, \* SIMULATION_MODE, the ingress filter, the interceptors
  request,    \* the request of each case
  offers,     \* whether the VirtualService has been in place, and been absent
  result,     \* what the client got for each case
  away,       \* services that were stopped, have crashed or were never there
  late        \* cases whose deadline has passed

vars == <<deployment, request, offers, result, away, late>>

\* The scenario that counts: an ingress that strips the header, or services
\* that do not hand it on, make every request a real one.
Scenario(c) ==
  IF deployment.interceptors /\ ~deployment.strip THEN request[c].scenario ELSE NoScenario

\* The risk service that decides: the resolver's in local mode, the route's in
\* mesh mode.
Backends(c) ==
  LET host == Resolve(deployment.mode, Scenario(c))
  IN  IF deployment.mode = "mesh" THEN { Divert(host, Scenario(c), installed) : installed \in offers }
      ELSE {host}

\* The answers that each excuse allows.  An absent gateway and a deadline both
\* excuse either error of the client's call, although one error would do each.
Excused(c) ==
  LET Excuse(excuse, answers) == IF excuse \/ late[c] THEN answers ELSE {}
  IN  Excuse("gateway" \in away, {Failed("Unavailable"), Failed("DeadlineExceeded")})
      \cup Excuse("fraud" \in away, {Declined(0, "FRAUD_CHECK_UNAVAILABLE")})
      \cup Excuse(Backends(c) \cap away # {}, {Declined(100, "RISK_SERVICE_ERROR")})

Init ==
  /\ result = [c \in Cases |-> Pending]
  /\ offers \in {{TRUE}, {FALSE}}
  /\ away = {}
  /\ late = [c \in Cases |-> FALSE]

Decide(c) ==
  /\ c \in DOMAIN request
  /\ result[c] = Pending
  /\ \E answer \in { Verdict(b, Scenario(c), request[c].token) : b \in Backends(c) }
                   \cup Excused(c) :
       result' = [result EXCEPT ![c] = answer]
  /\ UNCHANGED <<deployment, request, offers, away, late>>

\* Before anything is decided several services may be found missing at once.
Depart(services) ==
  /\ away' = away \cup services
  /\ UNCHANGED <<deployment, request, offers, result, late>>

Reroute(installed) ==
  /\ offers' = offers \cup {installed}
  /\ UNCHANGED <<deployment, request, result, away, late>>

Expire(c) ==
  /\ late' = [late EXCEPT ![c] = TRUE]
  /\ UNCHANGED <<deployment, request, offers, result, away>>

Next ==
  \/ \E c \in Cases : Decide(c) \/ Expire(c)
  \/ \E services \in SUBSET {"gateway", "fraud", "external", "microcks"} : Depart(services)
  \/ \E installed \in BOOLEAN : Reroute(installed)

Spec == Init /\ [][Next]_vars
=============================================================================
