-------------------------- MODULE OperatorProperties --------------------------
(***************************************************************************)
(* What the control loop of Operator promises.                             *)
(***************************************************************************)
EXTENDS Operator

(***************************************************************************)
(* Types                                                                   *)
(***************************************************************************)

\* A spec at the API server: as submitted, or defaulted by the webhook.
StoredSpecs == Specs \cup { ApplyDefaults(s) : s \in Specs }

\* Everything the generator returns for some manifest.
DesiredLists == { Desired(m, s) : m \in Manifests, s \in StoredSpecs }

\* Every object there can be: generated, or there before.
ForeignObjects == { x.obj : x \in Foreign }
GeneratedObjects == UNION { ToSet(d) : d \in DesiredLists }
Objects == GeneratedObjects \cup ForeignObjects

\* The reconciler's own messages and the error texts of a spec.
GeneratedMessages == { Message("generated", Len(d)) : d \in DesiredLists }
ApplyMessages == UNION { { Message("apply", i) : i \in 1..Len(d) } : d \in DesiredLists }
SpecMessages ==
  UNION { Denials(x[1], x[2], x[3]) : x \in StoredSpecs \X BOOLEAN \X Environments }
Messages ==
  {<<>>, ForbiddenMessage} \cup GeneratedMessages \cup ApplyMessages \cup SpecMessages

Phases == {"", "Ready", "Error", "Forbidden"}
Resources == {<<>>} \cup { Names(d) : d \in DesiredLists }

Statuses == [phase : Phases, msg : Messages, res : Resources, obs : Nat]

Records ==
  [exists : BOOLEAN, rv : Nat, uid : Nat, gen : Nat, spec : StoredSpecs \cup {NoSpec},
   prod : BOOLEAN, fin : BOOLEAN, del : BOOLEAN, status : Statuses]

\* Only a live manifest has a spec, and a deleted one waits for its finalizer.
Versions ==
  { v \in Records : /\ v.exists => v.spec \in StoredSpecs
                    /\ v.fin => v.exists
                    /\ v.del => v.fin }

Keys == { Key(o) : o \in Objects }

Calls ==
  [pc : {"idle", "addFinalizer", "apply", "status", "list", "delete", "removeFinalizer"},
   m : Manifests, copy : Versions, i : Nat, items : SUBSET Keys,
   status : Statuses, retry : BOOLEAN]

\* What a call knows of the copy it works on, and how far it is.
CallOK(w) ==
  /\ w.pc # "idle" => w.copy.exists
  /\ w.pc = "addFinalizer" => ~w.copy.fin
  /\ w.pc = "apply" =>
       w.copy.fin /\ ~w.copy.del /\ w.i \in 1..Len(Desired(w.m, w.copy.spec))
  /\ w.pc \in {"list", "delete", "removeFinalizer"} => w.copy.del
  /\ w.pc \in {"list", "delete"} => w.i \in 1..Len(SweepPlan(w.m))

TypeOK ==
  /\ api \in [Manifests -> Versions]
  /\ objs \subseteq [obj : Objects, refs : SUBSET (Manifests \X Nat)]
  /\ hook \in Hooks
  /\ env \in [Operators -> Environments]
  /\ cache \in [Operators -> [Manifests -> Versions]]
  /\ watch \in [Operators -> [Manifests -> Seq(Versions)]]
  /\ queue \in [Operators -> SUBSET Manifests]
  /\ work \in [Operators -> Calls]
  /\ \A op \in Operators : CallOK(work[op])
  /\ budget \in [Events -> Nat]

(***************************************************************************)
(* Safety                                                                  *)
(***************************************************************************)

\* Every object labelled by the operator belongs to a manifest that still
\* exists and still holds the finalizer: the operator will get to delete it.
\* The labels are all there is to find the object in the system namespace.
NoOrphans ==
  \A x \in objs \ Foreign : \E m \in Manifests :
     /\ api[m].exists /\ api[m].fin
     /\ x.obj.owner = m.name
     /\ x.obj.ns \in {m.ns, SystemNamespace}

\* Nothing is going on: all events delivered, queue empty, no call running.
Quiescent ==
  \A op \in Operators :
     /\ queue[op] = {} /\ work[op].pc = "idle"
     /\ \A m \in Manifests : watch[op][m] = <<>>

\* Every desired object is there, as generated and owned.
Applied(m) ==
  \A o \in ToSet(Desired(m, api[m].spec)) :
     [obj |-> o, refs |-> OwnerRefs(m, api[m], o)] \in objs

\* Nobody has deleted objects by hand: the operator watches none of them and
\* would not notice.
Untouched == budget["tamper"] = Budget["tamper"]

\* The status tells the truth about the current generation.
StatusTrue(m, environment) ==
  LET v == api[m]
      denials == Denials(v.spec, v.prod, environment)
  IN  /\ v.status.obs = v.gen
      /\ CASE IsProd(environment) -> v.status.phase = "Forbidden" /\ v.status.res = <<>>
           [] denials = {} -> /\ v.status.phase = "Ready"
                              /\ v.status.res = Names(Desired(m, v.spec))
                              /\ Untouched => Applied(m)
           [] OTHER -> v.status.phase = "Error" /\ v.status.msg \in denials
                       /\ v.status.res = <<>>

\* When the loop has come to rest, whatever faults and stale reads it went
\* through, no deleted manifest is left and each status is true.
RestIsTruthful ==
  Quiescent =>
    \A op \in Operators, m \in Manifests : api[m].exists =>
       /\ StatusTrue(m, env[op])
       /\ IsProd(env[op]) \/ (api[m].fin /\ ~api[m].del)

\* OPERATOR.md:172 and types.go:86: phase Ready with the current generation
\* observed means the resources of that generation are applied.
ReadyMeansApplied ==
  \A m \in Manifests :
     LET v == api[m]
     IN  v.exists /\ ~v.del /\ v.status.phase = "Ready" /\ v.status.obs = v.gen =>
           Admitted(v.spec, v.prod, "dev") /\ Applied(m)

\* OPERATOR.md:172 again, at rest only: a Ready manifest has its resources,
\* whichever manifest they are labelled with.
ReadyAtRest ==
  Quiescent =>
    \A m \in Manifests : api[m].exists /\ api[m].status.phase = "Ready" =>
      \A o \in ToSet(Desired(m, api[m].spec)) : \E x \in objs : Key(x.obj) = Key(o)

\* types.go:82: generatedResources lists what the operator created, so at
\* rest a Ready manifest has no labelled object beside them.
NothingUnlisted ==
  Quiescent =>
    \A m \in Manifests : api[m].exists /\ api[m].status.phase = "Ready" =>
      \A x \in objs : x.obj.owner = m.name /\ x.obj.ns \in {m.ns, SystemNamespace} =>
         <<x.obj.kind, x.obj.name>> \in ToSet(api[m].status.res)

\* The mesh never diverts a request it cannot carry: whenever a
\* VirtualService of the manifest is in place, so are the ServiceEntry of its
\* third party, the capture and inject filters and the rule of the virtual
\* backend, which the order of Generate and the order of the sweep see to,
\* whatever fails or dies in between.  The DestinationRule of the third party
\* itself is not among them: Generate puts it after the VirtualService, and it
\* bears on the requests that are not diverted.
RoutesAreSupported ==
  \A x \in objs, m \in Manifests : x.obj.kind = "VirtualService" /\ x.obj.owner = m.name =>
    \A needed \in { <<"ServiceEntry", <<x.obj.name[1], "-serviceentry">>>>,
                    <<"EnvoyFilter", <<"", "vf-inbound-capture">>>>,
                    <<"EnvoyFilter", <<"", "vf-outbound-inject">>>>,
                    <<"DestinationRule", <<"", "microcks-grpc">>>> } :
      \E y \in objs : <<y.obj.kind, y.obj.name>> = needed /\ y.obj.ns = x.obj.ns

(***************************************************************************)
(* Why there are no orphans                                                *)
(***************************************************************************)

\* The versions of m an operator has read or is still to read.
Known(op, m) ==
  {cache[op][m]} \cup ToSet(watch[op][m])
    \cup (IF work[op].pc # "idle" /\ work[op].m = m THEN {work[op].copy} ELSE {})

\* An old version may be stale but not contradict the current one, and while
\* an operator can still see a live finalized version, the finalizer is there.
VersionOK(m, v) ==
  /\ v.rv <= api[m].rv
  /\ v.rv = api[m].rv => v = api[m]
  /\ v.fin /\ ~v.del => api[m].exists /\ api[m].fin

\* Versions are read in the order they were written.
InOrder(op, m) ==
  LET seen == cache[op][m]
      coming == watch[op][m]
  IN  /\ \A i \in 1..Len(coming) : seen.rv <= coming[i].rv
      /\ \A i, j \in 1..Len(coming) : i < j => coming[i].rv <= coming[j].rv
      /\ work[op].pc # "idle" /\ work[op].m = m => work[op].copy.rv <= seen.rv

\* Nothing of the manifest is left at the places the sweep w is through with.
SweptBy(w) ==
  LET plan == SweepPlan(w.m)
  IN  /\ w.pc \in {"list", "delete"} => \A j \in 1..(w.i - 1) : Labelled(w.m, plan[j]) = {}
      /\ w.pc = "delete" => Labelled(w.m, plan[w.i]) \subseteq w.items
      /\ w.pc = "removeFinalizer" => \A j \in 1..Len(plan) : Labelled(w.m, plan[j]) = {}

\* The inductive invariant under NoOrphans, for one operator process and kinds
\* that are always served.
OrphanInvariant ==
  /\ NoOrphans
  /\ \A op \in Operators :
        /\ \A m \in Manifests : InOrder(op, m) /\ \A v \in Known(op, m) : VersionOK(m, v)
        /\ SweptBy(work[op])
  /\ budget["outage"] = 0

(***************************************************************************)
(* Action properties                                                       *)
(***************************************************************************)

\* A sweep deletes no object of a live manifest: whatever disappears was
\* labelled with the name of a manifest that is deleted or gone.
SweepsDeletedOnly ==
  [][ \A x \in objs :
        (\A y \in objs' : Key(y.obj) # Key(x.obj)) =>
           \A m \in Manifests :
              x.obj.owner = m.name /\ x.obj.ns \in {m.ns, SystemNamespace} =>
                 ~api[m].exists \/ api[m].del ]_vars

\* controller.go:105: a permanent spec error is surfaced and does not keep
\* the loop busy: once it is reported for a generation, no later pass,
\* whatever copy it works on, reports anything else for that generation.  (The
\* list of resources may still be corrected; a spec with several errors, which
\* has several texts, is excepted, and so is a copy under another production
\* label, which users change without a new generation.)
ErrorWrittenOnce ==
  [][ \A m \in Manifests, op \in Operators :
        LET v == api[m]
        IN  /\ v.status.phase = "Error" /\ v.status.obs = v.gen /\ api'[m].gen = v.gen
            /\ Denials(v.spec, v.prod, env[op]) = {v.status.msg}
            /\ \A u \in Known(op, m) : u.exists => u.prod = v.prod
            => api'[m].status = [v.status EXCEPT !.res = api'[m].status.res] ]_vars

(***************************************************************************)
(* Liveness                                                                *)
(***************************************************************************)

\* A deleted manifest goes away.
DeletionCompletes ==
  \A m \in Manifests : (api[m].exists /\ api[m].del) ~> ~(api[m].exists /\ api[m].del)

\* Whatever a sweep skipped because its kind was not served, nothing of a
\* deleted manifest stays in the manifest's own namespace: the owner
\* references hand it to the garbage collector.
NamespaceCleaned ==
  <>[](\A x \in objs : x.obj.ns # SystemNamespace =>
         \E m \in Manifests : api[m].exists /\ x.obj.owner = m.name /\ x.obj.ns = m.ns)

\* When users and faults stop, the loop comes to rest: no update, status
\* patch or requeue feeds another one for ever, neither on a valid spec nor on
\* one that is rejected; on one with several texts as soon as the draws of the
\* map order agree (DrawsAgree).
ComesToRest == <>[]Quiescent
=============================================================================
