# Virtualization framework: TLA+ models, checks and proofs

This directory holds the formal verification of the simulation framework: an
operator that turns `SimulationManifest` resources into Istio objects, and a
small gRPC application whose third-party calls those objects divert to a
virtual backend when a request carries a simulation header.

Paths are relative to the repository; `VF/` stands for
`apps/virtualization-framework/`, `RA/` for `apps/reference-app/`.

## 1. Inventory

### Components, their state and their operations

| Component | Code | State it keeps | Operations | Modelled in |
|---|---|---|---|---|
| Manifest reconciler | `VF/internal/controller` | none of its own: the manifest (finalizer, status) and Istio objects at the API server, the informer cache, the work queue, the call in progress | `Reconcile`, `applyUnstructured`, `deleteOwned`, `patchStatus` | `Operator` |
| Object generator | `VF/internal/generator` | none (pure) | `Generate` and one function per kind of object | `Generator` |
| Admission | `VF/internal/admission` | none (pure) | `Default`, `ValidateCreate/Update/Delete`, `ValidateSpec`, `ValidateForAdmission` | `Admission`, `AdmissionPipeline` |
| Operator process | `VF/cmd/operator`, `VF/internal/config` | environment, webhook switch, fixed at start | start, restart | `Operator` (`Restart`, `env`, `hook`), `Contract` |
| API types, CRD | `VF/api`, `VF/config/crd` | the stored manifest | schema checks, status subresource | `AdmissionPipeline`, `Operator` |
| Shared contract | `packages/virtualization-contract` | constants | – | `Contract` |
| Metrics, events | `VF/internal/metrics`, `events` | counters, a gauge per manifest | observe, set | `OperatorMetrics` |
| Istio support matrix | `VF/internal/istiosupport` | none (pure) | version comparison | not modelled (§6) |
| Scenario propagation | `RA/internal/sim` | the scenario in a request's context | client and server interceptor | `RequestChain` |
| Checkout gateway, fraud checker, risk services | `RA/internal/checkout`, `fraud`, `risk` | whether it serves, and the calls in progress | one unary handler each, a resolver that picks the backend, start, graceful stop | `RiskRules`, `RequestChain` |
| Demo client | `RA/internal/demo` | results of concurrent cases | `Run`, `VirtualizationConfirmed` | `RequestChain` |
| Dialling | `RA/internal/grpcx` | a deadline | `DialInsecureRetry`: attempt, sleep, give up | `StartUp` (timed), `RequestChain` (untimed) |
| Mesh data plane | `RA/kube/kustomize/overlays` and the Lua of the generator | the route at the sidecar, header captured per stream | capture, inject, rewrite, strip, divert | `RequestChain`, `RiskRules` |
| Packaging, scripts, examples, generated code | | | | no logic |

### How they interact

* Users write manifests at the API server. When the webhooks are registered
  (`WEBHOOK_ENABLED`), it calls `Default` and then `Validate*` of the operator
  on each create and update, the operator's own updates included, but not on
  patches of the status. In between it checks the CRD schema.
* The API server sends each new version of a manifest to each operator process;
  a version becomes visible in the informer cache and its name enters the work
  queue in the same step. Generated Istio objects are **not** watched.
* A worker takes a name, reads the manifest from the *cache*, and then calls the
  API server: `Update` (finalizer; refused on a stale resource version), `Get` +
  `Create`/`Update` per generated object, `List`/`Delete` per kind and namespace,
  a merge patch of the status. Each of these writes may produce the event that
  triggers the next `Reconcile`.
* The reconciler calls the admission rules again before it generates, and the
  generator repeats the webhook's defaulting: both exist because the webhooks
  are optional.
* Kubernetes' garbage collector deletes objects by owner reference; the code
  ignores that no such reference can be set across namespaces, so an object in
  the system namespace is found by its label or not at all.
* Each pass of the reconciler is counted under a result label, and the number of
  generated objects is set before the status is written; both live in the
  process and are gone with it.
* In the application a request travels test-client → checkout-gateway →
  fraud-checker → risk service; the scenario travels as metadata, injected and
  captured on every hop. In local mode the resolver of fraud-checker picks the
  backend. In mesh mode every call passes two sidecars: the VirtualService that
  the operator installs and sweeps diverts a call of the third party that carries
  the header, and an ingress filter of production removes the header.
* Each main dials its peers, one after the other and with retries, before it
  listens; the peers may themselves still be waiting for theirs. A sidecar
  accepts such a dial whether its peer is there or not.

### What is hard here, and what makes each component correct

* **Stale reads.** `Reconcile` works on a copy that may be several versions old,
  even from an earlier incarnation of the name, and computes the status patch
  against it. Correct means: when the loop rests, the status is true of the
  current generation (`RestIsTruthful`), and no stale pass deletes an object of
  a live manifest (`SweepsDeletedOnly`).
* **Partial failure, lost answers, crashes.** A call may fail, or succeed and
  lose its answer, and the process may die between any two calls. Correct
  means: no object is ever left without a manifest that still holds the
  finalizer and so will still be swept (`NoOrphans`).
* **Feedback.** Status patches are events. Correct means: every one of them ends
  in a patch that changes nothing, on valid and on rejected specs (`ComesToRest`).
* **Deletion** passes a production check, a sweep, an optimistic lock and a
  webhook. Correct means: it completes (`DeletionCompletes`), and a kind that
  is not served for a moment leaves nothing behind in the manifest's namespace
  (`NamespaceCleaned`).
* **Shared names.** The capture and inject filters and the microcks-grpc rule have
  one name per namespace, and the rewriting filter one name in the one system
  namespace (`VF/internal/generator/generator.go:255`): all manifests with the
  Microcks backend share that object, whatever their names and namespaces. Correct
  would mean: none takes it from another (`ReadyAtRest`, which the code does not
  keep); manifests that share no object do not disturb each other
  (`RestIsTruthful`, `SweepsDeletedOnly` in `operator_strangers`).
* **Two validations, two defaultings**, that look at names and hosts raw in one
  place and trimmed in another. Correct means: what is admitted can be
  generated (`AdmittedGenerates`), into distinct objects (`KeysDistinct`), one
  route per host (`HostsDistinct`), each to the place asked for
  (`EveryPartyRouted`), whether or not the webhook was there
  (`WebhookTransparent`).
* **Several operators** during a rollout, because leader election is off: each
  patches the status from its own cache. Correct means: once both rest, the
  status and both processes' last results are true (`RestIsTruthful`,
  `ResultTrue`).
* **Order of applies and sweeps.** Objects come and go one by one, with failures
  and crashes in between. Correct means: there is never a route without what it
  routes through (`RoutesAreSupported`).
* **What is reported.** The result label is chosen before the status is written and
  counted whether or not that succeeds; the gauge is set before it. Correct means: at rest they agree with what happened
  (`GaugeTrue`, `ResultTrue`), and an error is written once (`ErrorWrittenOnce`).
* **Start-up.** Four processes start in any order, wait for each other in a chain,
  and look at their deadline only between attempts. Correct means: nobody gives
  up on a peer that is still waiting for its own (`NobodyGivesUp`), all serve in
  time (`ServesInTime`), and giving up is neither early nor much too late
  (`GivesUpLate`, `EveryStartEnds`).
* **Requests** of different scenarios side by side, on three hops, while services
  start before their peers, are stopped, crash and come back, the route comes or
  goes, answers are lost and deadlines pass. Correct means: as if the whole chain
  were one function of the request and of a backend its route offered, except
  where a service was away, and then a decline that says which
  (`KeepsPromise`); a graceful stop costs no call (`StopLosesNothing`) and ends
  (`StopEnds`); nobody waits for ever (`EveryCaseAnswered`, `AllServe`); and the
  demo only reports virtualization where it took place (`DemoTruthful`).

`PROJECT.json` lists each hazard at its line with the properties that cover it.

## 2. Modules

| Module | What it is | Built on |
|---|---|---|
| `Contract` | vocabulary: abstract strings and host:port values, the operator's configuration | – |
| `Generator` | `Generate` and its helpers as operators | `Contract` |
| `Admission` | defaulting and validation as operators, with *all* error texts a spec can get | `Contract` |
| `GeneratorProofs` | what validation lets through, and what `Generate` makes of it | `Generator`, `Admission` |
| `AdmissionPipeline` | one manifest through webhook, schema, webhook, controller | `Generator`, `Admission` |
| `AdmissionProofs` | proof of the pipeline's properties for specs of any length | `AdmissionPipeline`, `GeneratorProofs` |
| `Operator` | the control loop against the API server | `Generator`, `Admission` |
| `OperatorProperties` | its type invariant, safety, inductive invariant, action and liveness properties | `Operator` |
| `OperatorProofs` | proof of type correctness | `OperatorProperties` |
| `OperatorMetrics` | every action of `Operator` with what it does to the gauge and the result counter | `OperatorProperties` |
| `OrphanProofs` | proof that nothing is orphaned | `OperatorProofs` |
| `SweepProofs` | proof that only objects of deleted manifests disappear | `OrphanProofs` |
| `RestProofs` | proofs of what holds at rest, that routes are supported, that an error is reported once, and that the metrics are true | `OperatorMetrics`, `SweepProofs`, `GeneratorProofs` |
| `RiskRules` | the decisions of the reference application's services as operators | – |
| `CheckoutPromise` | abstract specification: one decision per request, and what excuses another answer | `RiskRules` |
| `RequestChain` | the services, the mesh between them and their calls; implements `CheckoutPromise` | `RiskRules`, instance of `CheckoutPromise` |
| `RequestChainProofs` | proof of that refinement, that a graceful stop loses nothing, and that the demo's report is true | `RequestChain` |
| `StartUp` | the mains' dials with retries, against the clock | – |
| `StartUpProofs` | proof of its safety properties for every schedule | `StartUp` |
| `MC*` | small instances for TLC | the module of that name |

**Abstractions.** A string is a value and a flag for surrounding white space,
which is all the code's trims and comparisons can tell apart; which values match
a regular expression is a constant (`DnsLabels`, `Hostnames`). A generated
object is its kind, namespace, name, label and the destinations it names; Lua
text and constant bodies are left out. Names that the code builds by
concatenation are tuples of their parts, so that distinct parts stay distinct
names. An error text is the sequence of its entries.

**State of `Operator`.** `api` is the current version of each manifest: existence,
resource version, uid, generation, spec, a production label, finalizer, deletion
mark and status. `objs` is the set of Istio objects with their owner references.
`cache`, `watch` and `queue` are the informer cache, the events in flight and the
work queue of each operator; `work` is the call in progress, with the manifest
copy read at its start, and `pc` naming the next call to the API server. `env`
and `hook` are the settings a process was started with.

**Actions of `Operator`.** One per user operation (`CreateManifest`,
`EditManifest`, `DeleteManifest`, `Tamper`), `CollectGarbage`, `Deliver`,
`Restart`; one per way `Reconcile` decides before its first call
(`ReconcileNothing`, `…Forbidden`, `…Deleting`, `…Unfinalized`, `…Invalid`,
`…Valid`), in the order of its conditions; and one per call to the API server
with the local work up to the next one (`AddFinalizer`, `ApplyObject`,
`ApplyFails`, `PatchStatus`, `ListOwned`, `ListNoMatch`, `DeleteOwned`,
`RemoveFinalizer`, `CallFails`). `Get` and `Create`/`Update` of one object are one
step: a change of the object between the two makes the second one fail, which is
`ApplyFails`. Any call that succeeds may lose its answer (`Answered`).
Items of one list are deleted in any order.

**`OperatorMetrics`** takes each action of `Operator` together with its calls of
`ObserveReconcile` and `SetGenerated`, where the code makes them: the gauge after
the last apply, the result after the status write whether or not that succeeded,
the gauge of a removed manifest only if the answer of the removal arrived.
`MeasuredRestart` empties the registry. It keeps the last result per manifest
and process; the counters themselves only add up.

The constant `Budget` bounds, per kind of event, how often users write, calls
fail or lose their answer, a kind is not served, a process restarts, and an
object is deleted by hand. It is the only bound in the module; resource
versions, generations and queues are bounded by it in effect.

**State of `RequestChain`.** `deployment` says what runs: local or mesh mode,
whether the ingress strips the header, and whether the services have the
interceptors. `routed` is whether the VirtualService is in place at
fraud-checker's sidecar, `offers` the values that has had. `service` is the state of each process (`down`,
`dialling`, `serving`, `draining`), `dialled` how far a starting one has come
with its peers; `unready` are the services that did not serve when the client
connected, of which in mesh mode nobody's dial has told. `call[c][h]` is hop `h` of case `c` with the two ends that a gRPC
call has: `caller` (idle, waiting, returned, gone with its process) and `wire`
(the request, the handler, the reply, or what became of them); `header` is the
metadata sent, `scenario` what the callee's interceptor captured. `late` are the
cases whose ten seconds are over. `stopped` and `crashed` remember who was away;
they are what the promise excuses, and what puts a channel into back-off.

**Actions of `RequestChain`.** `Start`, `Dial`, `DialFails`, `Listen`, `Stop`,
`Drained`, `Crash` of a process; `Connect` and `Expire` of the client; `Reroute`
of the operator, who installs or sweeps the route; and per hop
`Invoke`, `Accept`, `Refuse`, `Serve`, `Return`, `Fail`, `GiveUp`, `Lose`. A
context ends with the client's deadline, which gRPC sends along, or when the
handler has lost its own caller; whoever waits under it then gives up, at once
or after other things happened.

In mesh mode `Dial` succeeds at the sidecar, whether the peer serves or not;
`Injected` is the metadata after the ingress filter, the interceptor and the
outbound filter; `Target` is the resolver's host after `Divert`, the match of the
VirtualService; `ScenarioName` falls back on the header and its rewritten copy.
The capture filter stores the header in the metadata of *its* stream and the
inject filter reads that of *its own*, so that `StreamMetadata` is always empty
and without the interceptors nothing is handed on (the deployment `Bare`).

**The promise.** `CheckoutPromise` knows no calls: it decides each request once,
with `Verdict`, the composition of the services' functions on the request's own
scenario and token. Another answer needs an excuse: the gateway away or the
deadline over for an error, fraud-checker away for `FRAUD_CHECK_UNAVAILABLE`, the
*chosen* backend away for `RISK_SERVICE_ERROR`. In mesh mode the backend may be
either one that the route offered since the start, and a service that never
came up counts as away, since its callers' dials succeeded. There is no excuse for an
approval. In local mode a gateway that starts before its peers do is no excuse either.

**`StartUp`** has the dials with time and nothing else: `Begin`, `Connected`,
`AttemptFails`, `Wake`, `Crash` per service, and `Tick`, which waits for whoever
has something to do now. An attempt ends when connected or after
`AttemptTimeout`; one that began before its peer served may still fail (gRPC's
back-off). Only a failed attempt looks at the deadline, and the sleep that
follows may pass it. `By` is a schedule: when a service's first *n* dials are
done at the latest. `ScheduleAssumption` says what makes one sound; `MCBy` is the
tightest for the four services.

## 3. Runs

Passing runs:

| Run | Instance | What it shows |
|---|---|---|
| `admission_pipeline` | 25 third-party lists × 9 scenario lists × 8 host:port forms × 5 backends, dev and prod, label and webhooks on and off | the six properties of the pipeline, for each rule of the validation one value that breaks it and the pairs of entries that break the rules about two |
| `operator_core` | 1 operator, 1 manifest, one valid and one rejected spec with an object in the system namespace; 3 writes, 1 fault, 1 restart | types, the inductive invariant, no orphans, truthful rest, supported routes, sweeps of deleted manifests only, one report per error, true metrics |
| `operator_strangers` | 2 manifests: `m` of an application namespace, with Microcks and so with its rewriting filter in the system namespace, and `n` that lives in the system namespace; webhooks registered and defaulting; 4 writes, 1 fault | both sweeps visit objects of both manifests in the system namespace and tell them apart by the manifest's label alone; neither takes or changes what is the other's |
| `operator_prod` | restarts into and out of production, production label allowed; 2 writes, 1 fault, 2 restarts, 1 object deleted by hand | the same promises across environments, with one report per error as long as the label stays |
| `operator_rollout` | 2 operators of one environment, one manifest in the system namespace; 2 writes | at rest, status and results are true although both wrote |
| `operator_liveness` | fair specification; one valid spec, one rejected for one reason, one rejected for two with two texts; webhooks registered or not; 2 writes, 1 fault, 1 unserved kind | deletion completes, the namespace is cleaned, the loop rests, also after a status write of a rejection |
| `request_chain` | local mode: one request with two faults of different kinds; mesh mode: one request with one fault and one change of the route, in production, without interceptors, during start-up, and recovery from a crash; the demo's two requests side by side | the promise of `CheckoutPromise`, graceful stops, answers, recovery, the demo's report |
| `startup` | 4 services started within 2 units, attempt and sleep of 2, wait of 12; the three that others dial may crash once they serve | nobody gives up, all serve in time, giving up is late, every start ends |

Three writes are create, edit and delete, or create, delete and create again:
the shortest histories with a stale copy from an earlier generation or
incarnation. `operator_liveness` has two, create and edit or create and delete: what
feeds the loop, or holds a deletion up, is there with two, and the cost is in the
length of the lassos. In it, specs with several texts rest under `DrawsAgree` only (§4). In
`operator_strangers` each user keeps to the spec of their manifest (the action
constraint `OneSpecEach`):
two specs are needed so that only one has the shared filter, and with both free the
manifests would share its key, which is what `shared_filters` is about. One fault at any call, before or after its effect, reaches every
retry from every state; a second one repeats it. One restart at any point loses
whatever a process can lose. Two generated lists (with and without an object in
the system namespace) cover both lengths of the sweep.

`operator_rollout` has no faults and two writes (about 490 000 states): what it
adds to the other runs is the two processes. As a change of an object between
`Get` and `Update` (`ApplyFails`) takes a fault, TLC does not meet in this run an
operator whose write the other one spoils; it meets the failed call in
`operator_core`, and `RestSafe` covers both together. Its manifest lives in the system
namespace, so that the sweep has one place less to visit. With two operators
three properties of `operator_core` are false and not checked there: one may
re-apply an object while the other has swept past it (`NoOrphans`), sweep with a
copy of the deleted incarnation while the other has applied the next one
(`SweepsDeletedOnly`), and each may report what its own cache shows
(`ErrorWrittenOnce`).

In `request_chain` two faults are enough for one service to come back while
another one goes; two requests suffice for one to see the other's scenario, and
share nothing else but the processes, whose faults the single requests explore.
In `startup` attempts and sleeps overlap in every way that the real 5 s and 2 s
can, and the wait is the shortest that covers the schedule. `Horizon` is past the
last deadline.

`CHECK_DEADLOCK FALSE`: users may stop writing and the loop then rests; a
pipeline, and a start-up, ends.

Runs that find a disagreement between the code and what its documents or
comments say (the quotes are in `PROJECT.json`):

| Run | What happens |
|---|---|
| `ready_without_objects` | a pass on a copy older than the reconciler's own last patch rejects the new spec; the merge patch carries the new `observedGeneration` but not the phase (it equals the stale one), so the manifest reads Ready for a rejected generation until the next event |
| `prod_blocks_deletion` | the production check comes before the deletion branch: a manifest finalized in development can never be deleted in production |
| `stale_children` | objects of a third party dropped from the spec stay, labelled and unlisted |
| `shared_filters` | deleting one of two manifests of a namespace deletes the EnvoyFilters the other one needs; that one stays Ready |

`prod_blocks_deletion` uses the fair specification: its counterexample is a
manifest that stays for ever although every component keeps working.

Seen while modelling, and not given a run of their own: removing the finalizer
is an update, which the webhook, registered later, denies for ever for a stored
spec it does not admit (the same promise broken as in `prod_blocks_deletion`:
`FairSpec` with `Specs = {Broken}` and both values in `Hooks` shows it); the demo
reports "Scenario controlled entirely by header" also when the second case is
declined with `RISK_SERVICE_ERROR`; a manifest turned
Forbidden keeps its development objects; any two manifests with Microcks share the
rewriting filter in the system namespace, in whatever namespaces they are, and
namesakes share the label as well, so that either sweep takes the other's objects
there (no run has namesakes, `DistinctNames` excludes them in the proofs); an existing
object with a generated name is overwritten and relabelled; an object deleted by
hand stays away until the manifest changes, because generated objects are not
watched (hence `Untouched` in `StatusTrue`).

Further: `validateHostPort` admits a port that is a word or 70000 (the VirtualService
then routes to the whole string, or to that port, which is why `EveryPartyRouted`
speaks of a backend given with a port in range); a spec with several errors has
several texts, because validation ranges over maps, and as long as two passes in a
row draw different ones each status patch is the event of the next pass, although
`VF/internal/controller/simulationmanifest_controller.go:105` says "do not hot-loop
requeue" (each patch is a new resource version, so no finite instance shows the loop
for ever, and with random draws it ends: hence `DrawsAgree`, and no run of its
own); two operators of different environments write `Ready` and
`Forbidden` over each other for as long as both run; the capture and inject
filters never carry a header from an inbound to an outbound stream, although
`RA/kube/kustomize/overlays/dev/envoyfilter-inbound-capture.yaml:4` says that they
replace the interceptor; `admission_denied_total` is never incremented,
`phase_transitions_total` counts every patch, a pass is counted as success
although its status write failed (and corrected by the retry, `ResultTrue`), and
the gauge of a removed manifest stays up when the answer of the removal is lost
(hence the exception in `GaugeTrue`).

## 4. Fairness

`FairSpec` of `Operator` assumes of users, faults, restarts and tampering nothing. It assumes
* `WF(Deliver)`: a watch delivers every event;
* `WF(Work)`: a call in progress makes its next request (a failing one spends
  the budget, so failures end);
* `SF(Begin)` per manifest: controller-runtime's queue is a FIFO, so a name in
  the queue is handed out although others keep entering; weak fairness is too
  little because `Begin` is disabled while the one worker is busy;
* `WF(CollectGarbage)`: the garbage collector runs.

Back-off is not modelled: it delays a requeued name but does not drop it. The
fairness of `Begin` is conditioned on an idle worker and a queued name, which is
when it is enabled.

`operator_liveness` checks `FairSpec` with one more assumption on its steps,
`DrawsAgree` (the action constraint `Settling`): Go ranges over a map in random order, so two passes in a row
draw the same text of a spec with several errors sooner or later. It is
stated as a bound: once the copy is of a resource version greater than `Patience` = 5 a pass
draws the text that is in the copy's status, if that is one of the spec's. Up to then every draw is
possible, and creation, finalizer, an edit and two texts written over each other fit in.
It assumes nothing of other specs.

`FairSpec` of `RequestChain` assumes that time passes and what can be delivered
or handled is (`WF` per case; a case has finitely many steps), that a graceful
stop with nothing left to wait for ends, and, in mesh mode only, that a process
that has exited is started again: Deployments do that, the compose file (which has no
restart policy) and the local script do not. It assumes nothing of stops,
crashes and losses, nor of the client's start, nor of the route.

`FairSpec` of `StartUp` assumes that time passes and the mains run.

## 5. Proofs

All proofs are checked by TLAPS for arbitrary sets of manifests, specs,
environments and objects, arbitrary bounds, and the named assumptions of the
modules: constants have their types (`ConfigAssumption`, `OperatorAssumption`);
specs are what decodes from a manifest, with lists of any length
(`SpecsAssumption`, `InputsAssumption`); an object that is there before the
operator carries no label of it and no owner (`ForeignAssumption`). Hypotheses of
a single theorem stand in its statement:

| Hypothesis | Meaning | Without it |
|---|---|---|
| `OneOperator` | one process, as deployed | two interleave a sweep and an apply |
| `AlwaysServed` | no kind is found unserved | `ListNoMatch` skips a kind by design |
| `NoTampering` | nobody deletes generated objects by hand | they are not watched |
| `DistinctNames` | no namesakes in two namespaces | the label is the name without the namespace |
| `Apart` | no manifest generates an object of another one's key, or where another one's sweep would take it | the run `shared_filters` |

`Apart` means at most one manifest per namespace and one with an object in the
system namespace. TLC evaluates it to true in the passing instances of the
operator but for `operator_strangers`, whose `Specs` has both specs and whose
manifests keep to one each; and to false in that of `shared_filters`.

### Admission and the generator

* **`AdmittedWellFormed`** (`GeneratorProofs`): a spec for which
  `ValidateForAdmission` returns no error is `WellFormed`: names are labels, hosts are
  hostnames, both distinct after trimming, ports in range. The code collects errors
  in one list of flattened lists; the proof takes the empty list apart check by check
  (`FlattenEmpty`). That a flattened list of any length is empty only if its parts
  are is induction over data, for which no theorem of the library can be cited
  here; it is proved from `LeastNumber`, that a non-empty set of naturals
  has a least element, on the library's recursive function (`FlattenUnfolds`).
* On it rest the facts about what `Generate` returns: its length and the object at each
  place, keys that are distinct (`WellFormedKeys`), places of the objects that
  parties share (`SharedPlaces`), and that everything a route needs comes before it
  (`RouteComesAfter`).
* **`AdmittedIsGenerated`**, **`PipelineTypeCorrect`**, **`PipelineKeysDistinct`**,
  **`PipelineHostsDistinct`**, **`PipelineTransparent`**,
  **`PipelineRoutesEveryParty`** (`AdmissionProofs`): the properties of
  `AdmissionPipeline`, for specs of any length. `PipelineInvariant` says what is known at each stage
  of the spec in relation to the one asked for; the rest is the facts above.
  `PipelineTypeCorrect` says that the manifest keeps the shape of a spec, that the
  webhook leaves none of the defaults blank (`DefaultsFillBlanks`), that what is
  stored satisfies the schema, and that objects exist exactly when generated, each of the manifest's
  label, of a kind and in a namespace that a sweep visits (`GeneratedOwned`).
  `PipelineRoutesEveryParty` names the backend's endpoint as given in the manifest, and does not put it
  through the generator's own split (`GeneratedBackend`, `SplitAtColon`).
  Transparency is idempotence of defaulting: the generator's own defaulting undoes
  what the webhook did or did not do.

### The control loop

* **`TypeCorrect`** (`OperatorProofs`): `Spec => []TypeOK`, for any set of
  operators. `TypeOK` is inductive because it carries, in `CallOK`, what a call
  knows at each stage: `apply` works on a finalized undeleted copy and within
  its list, a sweep on a deleted copy and within its plan; without it neither
  `AfterApply` nor `NextPlace` stays in range. The lemmas below it say that the
  generator returns objects of the manifest's label and of two namespaces
  (`DesiredOwned`), that defaulting is idempotent (`ApplyDefaultsIdempotent`), so
  that specs stored through any number of webhook calls stay in `StoredSpecs`
  (`StoredSpecsClosed`), and that each action keeps each record's type.
* **`NoOrphansSafe`** (`OrphanProofs`):
  `OneOperator /\ AlwaysServed => (Spec => []NoOrphans)`. `NoOrphans` is not
  inductive: a call about to apply could work on a copy of a manifest that is
  gone, and a call about to remove the finalizer could have missed an object.
  `OrphanInvariant` adds
  - *versions* (`VersionOK`, `InOrder`): whatever an operator has read or will
    read is older than, or equal to, what the API server has; it is read in the
    order written; and as long as anything live and finalized can still be read,
    the finalizer is there. So an apply finds its manifest alive. Removing the
    finalizer keeps this because the optimistic lock makes the copy current and
    then everything still to be read is current as well (`RemovalCurrent`) —
    the one place where a second operator would break the argument;
  - *the sweep* (`SweptBy`): behind the sweep's position nothing labelled for
    the manifest is left; together with `SweepCovers` (the plan visits every kind
    in both namespaces) and `KindKnown` (there is no other kind), nothing is left
    when the finalizer goes.

  Both assumptions are needed. Two operators can interleave a sweep and an
  apply; and `ListNoMatch` skips a kind by design, after which only objects with
  an owner reference are collected (`NamespaceCleaned`), not the one in the
  system namespace.

TLC checks `OrphanInvariant` in `operator_core`.

* **`OrphanInvariantSafe`** states that invariant, which TLC checks in
  `operator_core`, as a theorem of its own; `NoOrphansSafe` follows from it.
* **`SweepsSafe`** (`SweepProofs`): in the same setting, with nobody deleting
  objects by hand and manifests of distinct names,
  `Spec => SweepsDeletedOnly`. A pass may sweep with a copy that is arbitrarily old,
  so the argument is about what such a copy can be. `SweepInvariant` adds to
  `OrphanInvariant`
  - `ReadOK`: a copy that is marked deleted is of a manifest that is deleted, has
    lost its finalizer, or is gone. A new incarnation gets its finalizer, and so
    its objects, only from a pass on a current copy, after which all that can be
    read is of the new one (`StepKept`, `ReadStep`);
  - `ItemsOwned`: what a sweep has listed and not deleted yet still carries the
    label it was listed for, since only this operator applies, and not meanwhile;
  - `LabelsUnique`, `RefsCurrent`: owner references name the manifest of the label
    in its current incarnation, so the garbage collector takes nothing of a live
    one. Here `NoOrphans` is used: a labelled object has its manifest.

  `DistinctNames` is needed because the label is the name without the namespace.

* **`RestSafe`** (`RestProofs`): `Apart => (Spec => []RestIsTruthful)`, for any
  number of operators of any environments, all faults, unserved kinds, restarts
  and lost answers. At rest every copy is current, but the invariant has to
  say what is owed while it is not:
  - `StatusInvariant`: what a watcher will read in the end is what is stored (`Sync`);
    a call works on what is cached, unless the manifest is queued again (`Reading`); an operator that has nothing
    queued, on the way or in hand for a manifest gave it the status its own
    environment calls for (`SettledRight`), because whatever wrote a different one
    sent an event to everybody. A patch that changes nothing sends none, and needs
    none. `CallRight` says that a call reports what is right for its copy or will be repeated.
  - `ObjectsInvariant`: unless somebody deleted by hand, every object a stored version
    calls for is there, or some operator still owes it (`Covered`, `Owes`): it
    has the manifest queued or on its way, or a call in hand that has not come
    to it. No sweep takes it (`ItemsApart`); no garbage collector either, since an
    owner reference on it is that of its manifest.
* **`RoutesSafe`** (`RestProofs`): with one operator and all five hypotheses,
  `Spec => []RoutesAreSupported`: at no moment, a crash in the middle of a pass or a
  sweep included, is there a VirtualService without the ServiceEntry, filters and
  rule it leads through. `RoutesInvariant` adds that what the pass in hand has applied
  so far is there (`AppliedSoFar`) and that a sweep deletes one kind at a time
  (`ItemsOfKind`). A route is applied after what it needs (`RouteNeeds`); a sweep
  visits VirtualServices first, and nothing applies in between; the garbage
  collector finds nothing, as by `NoOrphans` and `RefsCurrent` every owner is there.
* **`ErrorsSafe`** (`RestProofs`): `OneOperator => (Spec => ErrorWrittenOnce)`, with faults,
  lost answers, unserved kinds, deletions by hand, restarts in any environment and
  re-created manifests. A patch merges what a pass made of a copy, which may be
  old, into a status that a later copy may have led to. `ErrorsInvariant` says
  - `Generations`: among the versions of one incarnation that may still be read,
    generations do not fall, and the one of the current generation has the current spec;
  - `ReportOK`: a call is about to report for the generation of its copy, which is
    live and finalized, hence of the current incarnation (`ReadOK`);
  - `ReportedOK`: no version that a development operator may still read is behind the
    generation that was reported last, and a production operator reports no errors.
    It keeps, since versions are read in order and the copy of a call is the
    oldest of them (`CopyOldest`).

  So a pass that still reports for the generation has its very spec, and comes to
  the same text. A production operator may report the generation of an earlier
  incarnation, which is why `ReportedOK` excepts what is no error.
  `SpecErrorsSpeakOfSpec` (`GeneratorProofs`) is the fact about validation this
  needs: no error list of a spec is the refusal of an environment. The invariant
  was checked with TLC on the instances of `operator_core`, `operator_strangers` and
  `operator_prod` before it was proved. The two exceptions in the property, a spec
  whose errors have several texts and copies under another production label, are
  real: a change of labels makes no new generation.
* **`ResultSafe`**, **`GaugeSafe`** (`RestProofs`): `MetricsSpec => []ResultTrue` for any
  number of operators, `OneOperator => (MetricsSpec => []GaugeTrue)`. A step of
  `OperatorMetrics` is one of `Operator`, so that all of the above holds.
  `MetricsInvariant` says that whoever is settled has counted its last pass as what
  it was and shows the gauge of a Ready manifest; the gauge is set before the
  status is written, which `GaugeRight` carries through the write. `GaugeOwned` is for the
  gauge of a removed manifest. With two operators that clause is false: one removes
  the finalizer, and the other keeps its gauge.

### The reference application

* **`PromiseKept`** (`RequestChainProofs`): `Spec => KeepsPromise`, that is,
  `RequestChain` implements `CheckoutPromise`, for any cases, setups and bounds. The
  step simulation is short once it is known which answers can be under way at
  each hop: `Good(c, 3)` are the answers of a backend that was offered, or an error
  if such a backend was away or the deadline is over; `Good(c, 2)` and `Good(c, 1)`
  are what `CheckFraud` and `ProcessCheckout` make of these, or of an error of
  their own. `CallOK` says that what is on the wire or returned is in `Good`,
  unless nobody is there to take it (`Dead`), and that header and scenario are the
  request's own; `ProcessesOK` says that in local mode whoever serves has peers
  that serve, or have been stopped or have crashed. `IndInv` is `TypeOK` with these
  two. The excuses only grow (`Monotone`), so that an answer stays good
  (`GoodGrows`, `Stable`) until the client has it.
* **`StopSafe`**: `Spec => []StopLosesNothing`, from the same invariant.
* **`DemoSafe`**: `Spec => []DemoTruthful`, which compares two cases. `TraceInv` traces
  every answer of a single one, unless it is an error, back to the verdict of the backend
  that handled it or to a service that was missing.
* **`TypeCorrect`** (both modules; that of `StartUp` is in `StartUpProofs`).
* **`NobodyGivesUpSafe`**, **`ServesInTimeSafe`**, **`GivesUpLateSafe`**
  (`StartUpProofs`), for any services, peers and timeouts with a schedule that
  satisfies `ScheduleAssumption`. `Timely` says what holds whatever crashes: time
  does not pass a service that has something to do, and a sleep begins before the
  deadline. `OnTime` says that without crashes an attempt begins early enough for
  its dial to be done on schedule. The interesting case is an attempt that fails
  although its peer serves: the peer came up after it began, hence no later than
  `ReadyBy`, and the next attempt begins one sleep later (`DialSchedule`).
  With the code's 5 s, 2 s and 2 min there is such a schedule for services started
  within 98 s of each other. The assumption also forbids a circle of dials, since a schedule of one would
  have to increase along it.

### Model-checked only

Liveness (`DeletionCompletes`, `NamespaceCleaned`, `ComesToRest`, `StopEnds`,
`EveryCaseAnswered`, `AllServe`, `EveryStartEnds`) is out of the prover's reach.
Every invariant and every action property that a passing run checks is stated by
a theorem. No RECURSIVE definition is used.

## 6. Not modelled

* **Istio support matrix** (`VF/internal/istiosupport`): regular expressions over
  image names and a comparison of two numbers, without state and without a
  caller in the program; its tests enumerate what there is to check.
* **Packaging, charts, scripts, examples, generated code** (deep copies and
  protobuf): no logic of the program. The settings they fix (one replica, no
  leader election, restart policies) are the ones the models assume.
* **Leader election, flags, probes** of `VF/cmd/operator`: off, or of no effect on
  the reconciler, in the shipped deployment. `operator_rollout` is what happens
  without leader election.
* **Texts**: of events, logs, error messages beyond their entries, and the report of
  the demo beyond its verdict; the random order code of the gateway.
* **Durations and sums** in the metrics: counters only grow; what can be wrong is
  the label they are counted under.
* **Widths and lengths**: `int32(p)` of a port matters beyond 2^31, which is past the
  integers TLC computes with; a name longer than a label value makes every apply
  fail, and the model has apply failures.
* **Two manifests that claim one host**: which VirtualService wins is decided by
  Istio, and nothing in the code promises an order.
* **TLS, DNS capture, connection pools** of the mesh; the time a sidecar takes to
  see a new route is covered by `Reroute` at any moment.
* **SIGTERM between `Serve` and `signal.Notify`**: the mains start to serve in a
  goroutine just before they ask for the signal (`RA/cmd/fraud-checker/main.go:74-82`);
  a process killed in that moment crashes without a graceful stop.
* **Back-off and rate limits** of the work queue: they delay a name and do not drop
  it.
