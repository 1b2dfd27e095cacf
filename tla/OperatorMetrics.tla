--------------------------- MODULE OperatorMetrics ---------------------------
(***************************************************************************)
(* What the operator's metrics say beside what it does                     *)
(* (internal/metrics, called by Reconcile): the generated_objects gauge of *)
(* each manifest, and the result label each call of Reconcile is counted   *)
(* under.  The counters themselves only grow; what can be wrong is the     *)
(* label, so the last one counted for each manifest is kept.               *)
(*                                                                         *)
(* Every action of Operator is taken with what it does to the metrics; the *)
(* metrics never change what the operator does.                            *)
(***************************************************************************)
EXTENDS OperatorProperties

VARIABLES
  gauge,     \* operator -> manifest -> generated_objects, 0 if not set
  counted    \* operator -> manifest -> the last result, "" if none

metricVars == <<gauge, counted>>
allVars == <<vars, metricVars>>

Results == {"success", "error", "forbidden", "deleted", "requeue"}

ObserveReconcile(op, m, result) == counted' = [counted EXCEPT ![op][m] = result]
SetGenerated(op, m, n) == gauge' = [gauge EXCEPT ![op][m] = n]

\* Mutant: the label keeps its default when the validation fails.
StatusResult_Default(w) ==
  CASE w.status.phase = "Forbidden" -> "forbidden"
    [] OTHER -> IF w.retry THEN "error" ELSE "success"

\* resultLabel as patchStatus is called: set before, and not looked at again
\* when the patch fails.
StatusResult(w) ==
  CASE w.status.phase = "Forbidden" -> "forbidden"
    [] w.status.phase = "Error"     -> "error"
    [] OTHER                        -> "success"

(***************************************************************************)
(* The actions of Operator, measured                                       *)
(***************************************************************************)

MeasuredNothing(op, m) ==
  /\ ReconcileNothing(op, m)
  /\ ObserveReconcile(op, m, "deleted")
  /\ UNCHANGED gauge

\* After the last object, before the status is patched.
MeasuredApply(op) ==
  LET w == work[op]
  IN  /\ ApplyObject(op)
      /\ IF work'[op].status.phase = "Ready"
         THEN SetGenerated(op, w.m, Len(work'[op].status.res)) ELSE UNCHANGED gauge
      /\ UNCHANGED counted

MeasuredStatus(op) ==
  LET w == work[op]
  IN  /\ PatchStatus(op) \/ (w.pc = "status" /\ CallFails(op))
      /\ ObserveReconcile(op, w.m, StatusResult(w))
      /\ UNCHANGED gauge

\* The update may have been accepted although its answer was lost.
MeasuredAddFinalizer(op) ==
  LET w == work[op]
  IN  /\ AddFinalizer(op)
      /\ \E result \in {"requeue", "error"} :
           /\ UpdateAccepted(w) \/ result = "error"
           /\ ObserveReconcile(op, w.m, result)
      /\ UNCHANGED gauge

\* Mutant: the gauge of a deleted manifest is left alone.
MeasuredRemoval_Forgotten(op) ==
  /\ RemoveFinalizer(op)
  /\ ObserveReconcile(op, work[op].m, "deleted")
  /\ UNCHANGED gauge

\* The gauge goes back to 0 only when the answer arrives.
MeasuredRemoval(op) ==
  LET w == work[op]
  IN  /\ RemoveFinalizer(op)
      /\ IF UpdateAccepted(w) /\ budget' = budget
         THEN SetGenerated(op, w.m, 0) /\ ObserveReconcile(op, w.m, "deleted")
         ELSE UNCHANGED gauge /\ ObserveReconcile(op, w.m, "error")

\* Sweeping: a call that ends the pass is an error.
MeasuredSweep(op) ==
  LET w == work[op]
  IN  /\ ListOwned(op) \/ ListNoMatch(op) \/ \E k \in w.items : DeleteOwned(op, k)
      /\ IF work'[op].pc = "idle" THEN ObserveReconcile(op, w.m, "error") ELSE UNCHANGED counted
      /\ UNCHANGED gauge

MeasuredFailure(op) ==
  /\ work[op].pc # "status" /\ CallFails(op)
  /\ ObserveReconcile(op, work[op].m, "error")
  /\ UNCHANGED gauge

\* A new process starts with an empty registry.
MeasuredRestart(op) ==
  /\ Restart(op)
  /\ gauge' = [gauge EXCEPT ![op] = [m \in Manifests |-> 0]]
  /\ counted' = [counted EXCEPT ![op] = [m \in Manifests |-> ""]]

Unmeasured(op) ==
  /\ \/ ApplyFails(op)
     \/ \E m \in Manifests :
          \/ Deliver(op, m) \/ ReconcileForbidden(op, m) \/ ReconcileDeleting(op, m)
          \/ ReconcileUnfinalized(op, m) \/ ReconcileInvalid(op, m) \/ ReconcileValid(op, m)
  /\ UNCHANGED metricVars

MetricsInit ==
  /\ Init
  /\ gauge = [op \in Operators |-> [m \in Manifests |-> 0]]
  /\ counted = [op \in Operators |-> [m \in Manifests |-> ""]]

MetricsNext ==
  \/ (Users \/ CollectGarbage) /\ UNCHANGED metricVars
  \/ \E op \in Operators :
       \/ \E m \in Manifests : MeasuredNothing(op, m)
       \/ MeasuredApply(op) \/ MeasuredStatus(op) \/ MeasuredAddFinalizer(op)
       \/ MeasuredRemoval(op) \/ MeasuredSweep(op) \/ MeasuredFailure(op)
       \/ MeasuredRestart(op) \/ Unmeasured(op)

MetricsSpec == MetricsInit /\ [][MetricsNext]_allVars

(***************************************************************************)
(* Properties                                                              *)
(***************************************************************************)

\* When the loop rests, the gauge of a Ready manifest is the number of
\* resources its status lists, whatever failed passes and restarts came
\* before; and a manifest that is gone has none, unless a call failed: the
\* removal whose answer is lost is never followed by SetGenerated(0).
GaugeTrue ==
  Quiescent =>
    \A op \in Operators, m \in Manifests :
      /\ api[m].exists /\ api[m].status.phase = "Ready" =>
           gauge[op][m] = Len(api[m].status.res)
      /\ ~api[m].exists /\ budget["fault"] = Budget["fault"] => gauge[op][m] = 0

\* When the loop rests, the last result counted for each manifest agrees with
\* what became of it, although a pass is counted before, and whether or not,
\* its status could be written: an alert on the counter is no false alarm.
ResultTrue ==
  Quiescent =>
    \A op \in Operators, m \in Manifests :
      LET v == api[m]
      IN  IF ~v.exists THEN counted[op][m] \in {"", "deleted"}
          ELSE counted[op][m] = CASE v.status.phase = "Ready"     -> "success"
                                  [] v.status.phase = "Forbidden" -> "forbidden"
                                  [] OTHER                        -> "error"
=============================================================================
