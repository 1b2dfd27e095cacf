------------------------------ MODULE Operator ------------------------------
(***************************************************************************)
(* The operator's control loop against the Kubernetes API                  *)
(* (internal/controller/simulationmanifest_controller.go, registered by    *)
(* cmd/operator/main.go).                                                  *)
(*                                                                         *)
(* The API server holds the manifests (api) and the generated Istio        *)
(* objects (objs).  Each operator process reads manifests from its         *)
(* informer cache, which trails api by the watch events still in flight,   *)
(* and works on one manifest at a time: work[op] is the Reconcile call in  *)
(* progress, with the cached copy it read at its start.  Istio objects are *)
(* read and written at the API server directly.                            *)
(*                                                                         *)
(* Every write carries or bumps the manifest's resource version rv.  A     *)
(* step of a worker is one call to the API server with all local work up   *)
(* to the next call.                                                       *)
(***************************************************************************)
EXTENDS Generator, Admission

CONSTANTS
  Operators,      \* operator processes (two during a rollout)
  Manifests,      \* namespaced names, records [ns, name]
  Specs,          \* specs users submit; all satisfy the CRD schema
  NoSpec,         \* the spec of a manifest that does not exist
  ProdLabels,     \* subset of BOOLEAN: may users set a production label?
  Environments,   \* values of ENVIRONMENT an operator is started with
  Hooks,          \* subset of BOOLEAN: may the webhooks be registered?
  Foreign,        \* Istio objects that exist before the operator does
  Budget          \* bounds: how many events of each kind may happen

VARIABLES
  api,       \* manifest -> its current version at the API server
  objs,      \* the Istio objects at the API server
  hook,      \* are the admission webhooks registered?
  env,       \* operator -> its ENVIRONMENT
  cache,     \* operator -> manifest -> version in the informer cache
  watch,     \* operator -> manifest -> versions still to be delivered
  queue,     \* operator -> manifests waiting in the work queue
  work,      \* operator -> the Reconcile call in progress
  budget     \* what is left of Budget

vars == <<api, objs, hook, env, cache, watch, queue, work, budget>>

Events == {"write", "fault", "outage", "restart", "tamper"}

ASSUME OperatorAssumption ==
  /\ Manifests # {} /\ Manifests \subseteq [ns : STRING, name : STRING \ {""}]
  /\ NoSpec \notin Specs \cup { ApplyDefaults(s) : s \in Specs }
  /\ ProdLabels \subseteq BOOLEAN
  /\ Hooks \subseteq BOOLEAN
  /\ Budget \in [Events -> Nat]

ASSUME SpecsAssumption == \A s \in Specs : IsSpec(s)

ASSUME ForeignAssumption ==
  \A x \in Foreign :
     x = [obj |-> x.obj, refs |-> {}] /\ x.obj.kind \in Kinds /\ x.obj.owner = ""

(***************************************************************************)
(* Data                                                                    *)
(***************************************************************************)

Status(phase, msg, res, obs) == [phase |-> phase, msg |-> msg, res |-> res, obs |-> obs]
NoStatus == Status("", <<>>, <<>>, 0)

\* A manifest's version: uid tells incarnations of one name apart (it is the
\* rv of the creation), gen is metadata.generation, fin the finalizer and del
\* the deletion timestamp.
NoManifest(rv) ==
  [exists |-> FALSE, rv |-> rv, uid |-> 0, gen |-> 0, spec |-> NoSpec,
   prod |-> FALSE, fin |-> FALSE, del |-> FALSE, status |-> NoStatus]

Fresh(rv, s, p) ==
  [NoManifest(rv) EXCEPT !.exists = TRUE, !.uid = rv, !.gen = 1, !.spec = s, !.prod = p]

Desired(m, s) == Generate(m.ns, m.name, s)

\* Mutant: no owner references at all.
OwnerRefs_None(m, copy, o) == {}

\* SetControllerReference refuses an owner in another namespace and the
\* caller drops the error: an object in the system namespace has no owner.
OwnerRefs(m, copy, o) == IF o.ns = m.ns THEN {<<m, copy.uid>>} ELSE {}

\* Mutant: the routes are deleted last.
KindOrder_RoutesLast == <<"ServiceEntry", "DestinationRule", "EnvoyFilter", "VirtualService">>

\* The namespaces and kinds deleteOwned goes through, in its order.
KindOrder == <<"VirtualService", "ServiceEntry", "DestinationRule", "EnvoyFilter">>
\* Mutant: the system namespace is forgotten.
Namespaces_AppOnly(m) == <<m.ns>>

Namespaces(m) ==
  IF SystemNamespace = m.ns THEN <<m.ns>> ELSE <<m.ns, SystemNamespace>>
SweepPlan(m) ==
  [ i \in 1..(4 * Len(Namespaces(m))) |->
      <<Namespaces(m)[((i - 1) \div 4) + 1], KindOrder[((i - 1) % 4) + 1]>> ]

\* Mutant: the label of the framework instead of the manifest's.
Labelled_ManagedBy(m, place) ==
  { Key(x.obj) : x \in {y \in objs : /\ y.obj.ns = place[1]
                                     /\ y.obj.kind = place[2]
                                     /\ y.obj.owner # ""} }

\* What List returns: label simulation.io/manifest is the name alone.
Labelled(m, place) ==
  { Key(x.obj) : x \in {y \in objs : /\ y.obj.ns = place[1]
                                     /\ y.obj.kind = place[2]
                                     /\ y.obj.owner = m.name} }

Without(k) == { x \in objs : Key(x.obj) # k }

\* client.MergeFrom(base): only fields that differ from the cached status are
\* sent, and the server merges them into whatever status it has by now.
Merge(current, base, new) == IF new # base THEN new ELSE current
\* Mutant: an empty resource list is left out of the patch instead of nulled.
MergePatch_OmitEmpty(current, base, new) ==
  Status(Merge(current.phase, base.phase, new.phase), Merge(current.msg, base.msg, new.msg),
         IF new.res = <<>> THEN current.res ELSE Merge(current.res, base.res, new.res),
         Merge(current.obs, base.obs, new.obs))

MergePatch(current, base, new) ==
  Status(Merge(current.phase, base.phase, new.phase), Merge(current.msg, base.msg, new.msg),
         Merge(current.res, base.res, new.res), Merge(current.obs, base.obs, new.obs))

Message(what, n) == <<Err(what, n, "", "")>>
ForbiddenMessage == Message("forbidden", 0)

Idle == [pc |-> "idle", m |-> CHOOSE m \in Manifests : TRUE, copy |-> NoManifest(0),
         i |-> 0, items |-> {}, status |-> NoStatus, retry |-> FALSE]

Spend(e) ==
  /\ budget[e] > 0
  /\ budget' = [budget EXCEPT ![e] = @ - 1]

(***************************************************************************)
(* The API server                                                          *)
(***************************************************************************)

\* A write that changes something gets a new rv and is sent to every watcher.
Write(m, v) ==
  IF v = api[m] THEN UNCHANGED <<api, watch>>
  ELSE LET new == [v EXCEPT !.rv = api[m].rv + 1]
       IN  /\ api' = [api EXCEPT ![m] = new]
           /\ watch' = [op \in Operators |-> [watch[op] EXCEPT ![m] = Append(@, new)]]

\* The mutating and the validating webhook, when registered, see every create
\* and update of a manifest but not of its status.
Incoming(s) == IF hook THEN ApplyDefaults(s) ELSE s
WebhookAdmits(s, p) == hook => \E op \in Operators : Admitted(Incoming(s), p, env[op])

\* metadata.generation counts changes of the spec.
WithSpec(v, s) == [v EXCEPT !.spec = s, !.gen = IF s = v.spec THEN @ ELSE @ + 1]

\* Deleting a manifest that has a finalizer only marks it.
Discard(m, v) ==
  Write(m, IF v.fin THEN [v EXCEPT !.del = TRUE, !.gen = @ + 1] ELSE NoManifest(v.rv))

(***************************************************************************)
(* Users                                                                   *)
(***************************************************************************)

CreateManifest(m, s, p) ==
  /\ Spend("write")
  /\ ~api[m].exists
  /\ WebhookAdmits(s, p)
  /\ Write(m, Fresh(api[m].rv + 1, Incoming(s), p))
  /\ UNCHANGED <<objs, hook, env, cache, queue, work>>

EditManifest(m, s, p) ==
  /\ Spend("write")
  /\ api[m].exists
  /\ <<Incoming(s), p>> # <<api[m].spec, api[m].prod>>
  /\ WebhookAdmits(s, p)
  /\ Write(m, [WithSpec(api[m], Incoming(s)) EXCEPT !.prod = p])
  /\ UNCHANGED <<objs, hook, env, cache, queue, work>>

DeleteManifest(m) ==
  /\ Spend("write")
  /\ api[m].exists /\ ~api[m].del
  /\ Discard(m, api[m])
  /\ UNCHANGED <<objs, hook, env, cache, queue, work>>

\* Somebody deletes an Istio object behind the operator's back.
Tamper ==
  /\ Spend("tamper")
  /\ \E x \in objs : objs' = objs \ {x}
  /\ UNCHANGED <<api, hook, env, cache, watch, queue, work>>

\* The garbage collector removes an object whose owners are all gone.
CollectGarbage ==
  /\ \E x \in objs :
        /\ x.refs # {}
        /\ \A r \in x.refs : ~(api[r[1]].exists /\ api[r[1]].uid = r[2])
        /\ objs' = objs \ {x}
  /\ UNCHANGED <<api, hook, env, cache, watch, queue, work, budget>>

(***************************************************************************)
(* The informer and the work queue                                         *)
(***************************************************************************)

Deliver(op, m) ==
  /\ watch[op][m] # <<>>
  /\ cache' = [cache EXCEPT ![op][m] = Head(watch[op][m])]
  /\ watch' = [watch EXCEPT ![op][m] = Tail(@)]
  /\ queue' = [queue EXCEPT ![op] = @ \cup {m}]
  /\ UNCHANGED <<api, objs, hook, env, work, budget>>

\* Whatever a process knew is lost; the new one lists the manifests and
\* enqueues each.  Its environment and the webhooks may have changed.
Restart(op) ==
  /\ Spend("restart")
  /\ env' \in [Operators -> Environments]
  /\ \A other \in Operators \ {op} : env'[other] = env[other]
  /\ hook' \in Hooks
  /\ cache' = [cache EXCEPT ![op] = api]
  /\ watch' = [watch EXCEPT ![op] = [m \in Manifests |-> <<>>]]
  /\ queue' = [queue EXCEPT ![op] = {m \in Manifests : api[m].exists}]
  /\ work' = [work EXCEPT ![op] = Idle]
  /\ UNCHANGED <<api, objs>>

(***************************************************************************)
(* Reconcile: the local decisions up to the first call                     *)
(***************************************************************************)

\* Take m off the queue and set the Reconcile call to w.
Take(op, m, w) ==
  /\ work[op].pc = "idle"
  /\ m \in queue[op]
  /\ queue' = [queue EXCEPT ![op] = @ \ {m}]
  /\ work' = [work EXCEPT ![op] = w]
  /\ UNCHANGED <<api, objs, hook, env, cache, watch, budget>>

\* A call about m, read from the cache, that goes on at pc.
Call(op, m, pc) ==
  [Idle EXCEPT !.pc = pc, !.m = m, !.copy = cache[op][m], !.i = 1]

\* The call to patchStatus, and whether Reconcile returns an error after it.
StatusCall(w, phase, msg, res, retry) ==
  [w EXCEPT !.pc = "status", !.retry = retry,
            !.status = Status(phase, msg, res, w.copy.gen)]

\* Not found, or deleted and no finalizer of ours: nothing to do.
ReconcileNothing(op, m) ==
  LET c == cache[op][m]
  IN  /\ ~(c.exists /\ (IsProd(env[op]) \/ ~c.del \/ c.fin))
      /\ Take(op, m, Idle)

\* Mutant: production lets a deleted manifest go without a sweep.
ReconcileForbidden_Releases(op, m) ==
  /\ cache[op][m].exists
  /\ IsProd(env[op])
  /\ Take(op, m,
          IF cache[op][m].del THEN Call(op, m, "removeFinalizer")
          ELSE StatusCall(Call(op, m, "status"), "Forbidden", ForbiddenMessage, <<>>, FALSE))

\* The production check comes first, before the deletion is looked at.
ReconcileForbidden(op, m) ==
  /\ cache[op][m].exists
  /\ IsProd(env[op])
  /\ Take(op, m, StatusCall(Call(op, m, "status"), "Forbidden", ForbiddenMessage, <<>>, FALSE))

\* Mutant: the deletion timestamp is not looked at.
ReconcileDeleting_AnyFinalized(op, m) ==
  /\ cache[op][m].fin /\ ~IsProd(env[op])
  /\ Take(op, m, Call(op, m, "list"))

ReconcileDeleting(op, m) ==
  LET c == cache[op][m]
  IN  /\ c.exists /\ ~IsProd(env[op]) /\ c.del /\ c.fin
      /\ Take(op, m, Call(op, m, "list"))

ReconcileUnfinalized(op, m) ==
  LET c == cache[op][m]
  IN  /\ c.exists /\ ~IsProd(env[op]) /\ ~c.del /\ ~c.fin
      /\ Take(op, m, Call(op, m, "addFinalizer"))

\* Mutant: the spec error is also returned, and so the manifest queued again.
ReconcileInvalid_Retry(op, m) ==
  LET c == cache[op][m]
  IN  /\ c.exists /\ ~IsProd(env[op]) /\ ~c.del /\ c.fin
      /\ \E msg \in Denials(c.spec, c.prod, env[op]) :
            Take(op, m, StatusCall(Call(op, m, "status"), "Error", msg, <<>>, TRUE))

\* A spec error is reported and not retried.
ReconcileInvalid(op, m) ==
  LET c == cache[op][m]
  IN  /\ c.exists /\ ~IsProd(env[op]) /\ ~c.del /\ c.fin
      /\ \E msg \in Denials(c.spec, c.prod, env[op]) :
            Take(op, m, StatusCall(Call(op, m, "status"), "Error", msg, <<>>, FALSE))

\* Mutant: a failed validation is reported but does not end the pass.
ReconcileValid_Unchecked(op, m) ==
  LET c == cache[op][m]
  IN  /\ c.exists /\ ~IsProd(env[op]) /\ ~c.del /\ c.fin
      /\ Take(op, m, Call(op, m, "apply"))

\* Generate cannot fail on an admitted spec (AdmittedGenerates).
ReconcileValid(op, m) ==
  LET c == cache[op][m]
  IN  /\ c.exists /\ ~IsProd(env[op]) /\ ~c.del /\ c.fin
      /\ Admitted(c.spec, c.prod, env[op])
      /\ Take(op, m, Call(op, m, "apply"))

Begin(op, m) ==
  \/ ReconcileNothing(op, m) \/ ReconcileForbidden(op, m) \/ ReconcileDeleting(op, m)
  \/ ReconcileUnfinalized(op, m) \/ ReconcileInvalid(op, m) \/ ReconcileValid(op, m)

(***************************************************************************)
(* Reconcile: one call to the API server per step                          *)
(***************************************************************************)

GoOn(op, w) ==
  /\ work' = [work EXCEPT ![op] = w]
  /\ UNCHANGED queue

Finish(op) == GoOn(op, Idle)

\* Mutant: the error is swallowed.
Requeue_Swallowed(op) ==
  /\ work' = [work EXCEPT ![op] = Idle]
  /\ UNCHANGED queue

\* Reconcile returns an error, or asks to be called again.
Requeue(op) ==
  /\ work' = [work EXCEPT ![op] = Idle]
  /\ queue' = [queue EXCEPT ![op] = @ \cup {work[op].m}]

\* The server did what was asked, and the answer arrived or was lost.
Answered(ok, lost) ==
  \/ ok /\ UNCHANGED budget
  \/ lost /\ Spend("fault")

\* Update(&m) is refused on a stale resource version or by the webhook.
UpdateAccepted(w) ==
  /\ api[w.m].rv = w.copy.rv
  /\ WebhookAdmits(w.copy.spec, w.copy.prod)

\* Success, conflict and denial all lead to another Reconcile.
AddFinalizer(op) ==
  LET w == work[op]
  IN  /\ w.pc = "addFinalizer"
      /\ IF UpdateAccepted(w)
         THEN Write(w.m, [WithSpec(w.copy, Incoming(w.copy.spec)) EXCEPT !.fin = TRUE])
         ELSE UNCHANGED <<api, watch>>
      /\ Requeue(op)
      /\ UNCHANGED <<objs, hook, env, cache, budget>>

\* The object at hand is applied; patch the status after the last one.
AfterApply(w) ==
  LET desired == Desired(w.m, w.copy.spec)
  IN  IF w.i < Len(desired) THEN [w EXCEPT !.i = @ + 1]
      ELSE StatusCall(w, "Ready", Message("generated", Len(desired)), Names(desired), FALSE)

ApplyFailed(w) ==
  StatusCall(w, "Error", Message("apply", w.i), Names(Desired(w.m, w.copy.spec)), TRUE)

\* Get, then Create or Update, whoever the existing object belongs to.  A
\* change of the object between the two calls makes the second one fail.
ApplyObject(op) ==
  LET w == work[op]
  IN  /\ w.pc = "apply"
      /\ objs' = LET o == Desired(w.m, w.copy.spec)[w.i]
                 IN  Without(Key(o)) \cup {[obj |-> o, refs |-> OwnerRefs(w.m, w.copy, o)]}
      /\ Answered(GoOn(op, AfterApply(w)), GoOn(op, ApplyFailed(w)))
      /\ UNCHANGED <<api, hook, env, cache, watch>>

ApplyFails(op) ==
  /\ work[op].pc = "apply"
  /\ Spend("fault")
  /\ GoOn(op, ApplyFailed(work[op]))
  /\ UNCHANGED <<api, objs, hook, env, cache, watch>>

\* Where the patch fails for a reason other than a fault, the manifest is
\* gone and the fallback Update fails as well.
PatchStatus(op) ==
  LET w == work[op]
      v == api[w.m]
  IN  /\ w.pc = "status"
      /\ IF v.exists
         THEN Write(w.m, [v EXCEPT !.status = MergePatch(@, w.copy.status, w.status)])
         ELSE UNCHANGED <<api, watch>>
      /\ Answered(IF v.exists /\ ~w.retry THEN Finish(op) ELSE Requeue(op), Requeue(op))
      /\ UNCHANGED <<objs, hook, env, cache>>

\* Mutant: one place too many.
NextPlace_OffByOne(w) ==
  IF w.i <= Len(SweepPlan(w.m)) THEN [w EXCEPT !.pc = "list", !.i = @ + 1, !.items = {}]
  ELSE [w EXCEPT !.pc = "removeFinalizer", !.items = {}]

\* Mutant: the last place of the plan is never listed.
NextPlace_LastSkipped(w) ==
  IF w.i + 1 < Len(SweepPlan(w.m)) THEN [w EXCEPT !.pc = "list", !.i = @ + 1, !.items = {}]
  ELSE [w EXCEPT !.pc = "removeFinalizer", !.items = {}]

\* The next namespace and kind to sweep, or the finalizer after the last.
NextPlace(w) ==
  IF w.i < Len(SweepPlan(w.m)) THEN [w EXCEPT !.pc = "list", !.i = @ + 1, !.items = {}]
  ELSE [w EXCEPT !.pc = "removeFinalizer", !.items = {}]

ListOwned(op) ==
  LET w     == work[op]
      items == Labelled(w.m, SweepPlan(w.m)[w.i])
  IN  /\ w.pc = "list"
      /\ GoOn(op, IF items = {} THEN NextPlace(w)
                  ELSE [w EXCEPT !.pc = "delete", !.items = items])
      /\ UNCHANGED <<api, objs, hook, env, cache, watch, budget>>

\* The kind is not served for the moment: metaNoMatch, skip it.
ListNoMatch(op) ==
  /\ work[op].pc = "list"
  /\ Spend("outage")
  /\ GoOn(op, NextPlace(work[op]))
  /\ UNCHANGED <<api, objs, hook, env, cache, watch>>

\* Delete by name; an object that is gone already counts as deleted.
DeleteOwned(op, k) ==
  LET w    == work[op]
      rest == w.items \ {k}
  IN  /\ w.pc = "delete"
      /\ k \in w.items
      /\ objs' = Without(k)
      /\ Answered(GoOn(op, IF rest = {} THEN NextPlace(w) ELSE [w EXCEPT !.items = rest]),
                  Requeue(op))
      /\ UNCHANGED <<api, hook, env, cache, watch>>

\* The manifest disappears with its last finalizer.
RemoveFinalizer(op) ==
  LET w == work[op]
  IN  /\ w.pc = "removeFinalizer"
      /\ IF UpdateAccepted(w)
         THEN Discard(w.m, [w.copy EXCEPT !.fin = FALSE])
         ELSE UNCHANGED <<api, watch>>
      /\ Answered(IF UpdateAccepted(w) THEN Finish(op) ELSE Requeue(op), Requeue(op))
      /\ UNCHANGED <<objs, hook, env, cache>>

\* Any other call fails without effect; patchStatus only when both of its
\* calls do.
CallFails(op) ==
  /\ work[op].pc \in {"addFinalizer", "status", "list", "delete", "removeFinalizer"}
  /\ Spend("fault")
  /\ Requeue(op)
  /\ UNCHANGED <<api, objs, hook, env, cache, watch>>

Work(op) ==
  \/ AddFinalizer(op) \/ ApplyObject(op) \/ ApplyFails(op) \/ PatchStatus(op)
  \/ ListOwned(op) \/ ListNoMatch(op) \/ RemoveFinalizer(op) \/ CallFails(op)
  \/ \E k \in work[op].items : DeleteOwned(op, k)

(***************************************************************************)
(* The specification                                                       *)
(***************************************************************************)

Init ==
  /\ api = [m \in Manifests |-> NoManifest(0)]
  /\ objs = Foreign
  /\ hook \in Hooks
  /\ env \in [Operators -> Environments]
  /\ cache = [op \in Operators |-> api]
  /\ watch = [op \in Operators |-> [m \in Manifests |-> <<>>]]
  /\ queue = [op \in Operators |-> {}]
  /\ work = [op \in Operators |-> Idle]
  /\ budget = Budget

Users ==
  \/ \E m \in Manifests, s \in Specs, p \in ProdLabels :
        CreateManifest(m, s, p) \/ EditManifest(m, s, p)
  \/ \E m \in Manifests : DeleteManifest(m)
  \/ Tamper

Next ==
  \/ Users
  \/ CollectGarbage
  \/ \E op \in Operators :
        \/ \E m \in Manifests : Deliver(op, m) \/ Begin(op, m)
        \/ Work(op)
        \/ Restart(op)

Spec == Init /\ [][Next]_vars

\* The API server delivers every event, a Reconcile call makes progress, and
\* the work queue, a FIFO, hands out every manifest in it again and again.
\* (What Begin needs of the worker and the queue is repeated before it, so that
\* a spec is only validated where a call can begin.)
Fairness ==
  /\ \A op \in Operators, m \in Manifests :
        /\ WF_vars(Deliver(op, m))
        /\ SF_vars(work[op].pc = "idle" /\ m \in queue[op] /\ Begin(op, m))
  /\ \A op \in Operators : WF_vars(Work(op))
  /\ WF_vars(CollectGarbage)

FairSpec == Spec /\ Fairness

\* Go ranges over the responses in a random order, so that a spec with several
\* errors may be reported in another text by each pass; the loop feeds itself
\* as long as the texts differ, and two passes in a row come to the same one
\* sooner or later.  This assumption makes it no later than the resource
\* version patience: from then on a pass on a copy that carries one of the
\* texts draws that one.
DrawsAgree(patience) ==
  \A op \in Operators :
     LET w == work'[op]
         denials == Denials(w.copy.spec, w.copy.prod, env[op])
     IN  /\ work[op].pc = "idle" /\ w.pc = "status" /\ w.copy.rv > patience
         /\ w.status.msg \in denials /\ w.copy.status.msg \in denials
         => w.status.msg = w.copy.status.msg
=============================================================================
