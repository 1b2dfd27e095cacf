------------------------------ MODULE SweepProofs ------------------------------
(***************************************************************************)
(* One operator process deletes no object of a live manifest: the proof of *)
(* SweepsDeletedOnly, stale copies and re-created manifests included.      *)
(***************************************************************************)
EXTENDS OrphanProofs

\* Nobody deletes objects by hand.
NoTampering == Budget["tamper"] = 0

\* The label is the name alone: namesakes in two namespaces sweep each other's
\* objects in the system namespace.
DistinctNames == \A m, n \in Manifests : m.name = n.name => m = n

(***************************************************************************)
(* The invariant                                                           *)
(***************************************************************************)

\* A version that may still be read knows whether its manifest is deleted,
\* unless the manifest has lost its finalizer since (it may be another one by
\* now), and a live finalized one is of the current incarnation.
ReadOK(m, v) ==
  /\ v.del /\ Alive(m) => api[m].del
  /\ v.fin /\ ~v.del => v.uid = api[m].uid

\* No two objects of one key carry a label.
LabelsUnique ==
  \A x, y \in objs : Key(x.obj) = Key(y.obj) => x = y \/ (x.obj.owner = "" /\ y.obj.owner = "")

\* Owner references name the manifest of the label, in its current incarnation.
RefsCurrent ==
  \A x \in objs : \A r \in x.refs :
     r[1] \in Manifests /\ r[1].name = x.obj.owner /\ r[2] = api[r[1]].uid

\* What a sweep is about to delete carries the label of its manifest.
ItemsOwned(w) ==
  w.pc = "delete" => \A x \in objs : Key(x.obj) \in w.items => x.obj.owner = w.m.name

SweepInvariant ==
  /\ \A op \in Operators, m \in Manifests : \A v \in Known(op, m) : ReadOK(m, v)
  /\ LabelsUnique
  /\ RefsCurrent
  /\ \A op \in Operators : ItemsOwned(work[op])

(***************************************************************************)
(* What is read                                                            *)
(***************************************************************************)

\* A write makes at most the new version known.
LEMMA WriteKnown ==
  ASSUME TypeOK, KeepsCopies, cache' = cache, NEW k \in Manifests, NEW u \in Versions, Write(k, u)
  PROVE  \A op \in Operators, m \in Manifests : Known(op, m)' \subseteq Known(op, m) \cup {api'[m]}
<1>. SUFFICES ASSUME NEW op \in Operators, NEW m \in Manifests
              PROVE  Known(op, m)' \subseteq Known(op, m) \cup {api'[m]}
  OBVIOUS
<1>1. CASE u = api[k]
  BY <1>1 DEF Write, Known, KeepsCopies
<1>2. CASE u # api[k]
  <2>. DEFINE n   == api[k].rv + 1
              new == [u EXCEPT !.rv = n]
  <2>1. /\ api' = [api EXCEPT ![k] = new]
        /\ watch' = [o \in Operators |-> [watch[o] EXCEPT ![k] = Append(@, new)]]
    BY <1>2 DEF Write
  <2>2. n \in Nat
    <3>1. api[k] \in Versions
      BY DEF TypeOK
    <3>. QED  BY <3>1 DEF Versions, Records
  <2>. HIDE DEF n
  <2>3. new \in Versions
    BY <2>2 DEF Versions, Records
  <2>. HIDE DEF new
  <2>4. watch[op][m] \in Seq(Versions)
    BY DEF TypeOK
  <2>5. CASE m = k
    <3>1. watch'[op][m] = Append(watch[op][m], new) /\ api'[m] = new
      BY <2>1, <2>5 DEF TypeOK
    <3>2. ToSet(watch'[op][m]) \subseteq ToSet(watch[op][m]) \cup {new}
      BY <2>3, <2>4, <3>1, AppendElements
    <3>. QED  BY <3>1, <3>2 DEF Known, KeepsCopies
  <2>6. CASE m # k
    <3>1. watch'[op][m] = watch[op][m]
      BY <2>1, <2>6 DEF TypeOK
    <3>. QED  BY <3>1 DEF Known, KeepsCopies
  <2>. QED  BY <2>5, <2>6
<1>. QED  BY <1>1, <1>2

\* So does every step.
LEMMA KnownGrows ==
  ASSUME TypeOK, Versioned, [Next]_vars
  PROVE  \A op \in Operators, m \in Manifests : Known(op, m)' \subseteq Known(op, m) \cup {api'[m]}
<1>. DEFINE Goal == \A op \in Operators, m \in Manifests :
                       Known(op, m)' \subseteq Known(op, m) \cup {api'[m]}
<1>1. ASSUME KeepsCopies, cache' = cache,
             KeepingWrite \/ \E m \in Manifests, v \in Versions : Write(m, v)
      PROVE  Goal
  <2>1. CASE UNCHANGED <<api, watch>>
    BY <1>1, <2>1 DEF Known, KeepsCopies
  <2>. HIDE DEF Goal
  <2>2. ASSUME NEW m \in Manifests, NEW v \in Versions, Write(m, v)  PROVE Goal
    BY <1>1, <2>2, WriteKnown DEF Goal
  <2>. QED  BY <1>1, <2>1, <2>2 DEF KeepingWrite
<1>2. CASE Users
  <2>1. KeepsCopies
    BY <1>2, UsersKeep DEF KeepsCopies
  <2>. QED  BY <1>1, <1>2, <2>1, UsersKeep
<1>3. CASE CollectGarbage \/ UNCHANGED vars
  <2>1. KeepsCopies /\ UNCHANGED <<api, cache, watch>>
    BY <1>3 DEF CollectGarbage, vars, KeepsCopies
  <2>. QED  BY <1>1, <2>1 DEF KeepingWrite
<1>4. ASSUME NEW o \in Operators, NEW k \in Manifests, Deliver(o, k)
      PROVE  Goal
  <2>1. /\ watch[o][k] # <<>> /\ work' = work
        /\ cache' = [cache EXCEPT ![o][k] = Head(watch[o][k])]
        /\ watch' = [watch EXCEPT ![o][k] = Tail(@)]
        /\ watch[o][k] \in Seq(Versions)
    BY <1>4 DEF Deliver, TypeOK
  <2>2. ToSet(Tail(watch[o][k])) \subseteq ToSet(watch[o][k]) /\ Head(watch[o][k]) \in ToSet(watch[o][k])
    BY <2>1, TailElements
  <2>3. ASSUME NEW op \in Operators, NEW m \in Manifests
        PROVE  Known(op, m)' \subseteq Known(op, m)
    <3>1. CASE op = o /\ m = k
      <4>1. cache'[op][m] = Head(watch[o][k]) /\ watch'[op][m] = Tail(watch[o][k])
        BY <2>1, <3>1 DEF TypeOK
      <4>. QED  BY <2>1, <2>2, <3>1, <4>1 DEF Known
    <3>2. CASE ~(op = o /\ m = k)
      <4>1. cache'[op][m] = cache[op][m] /\ watch'[op][m] = watch[op][m]
        BY <2>1, <3>2 DEF TypeOK
      <4>. QED  BY <2>1, <4>1 DEF Known
    <3>. QED  BY <3>1, <3>2
  <2>. QED  BY <2>3
<1>5. ASSUME NEW o \in Operators, NEW k \in Manifests, Begin(o, k)
      PROVE  Goal
  <2>1. PICK w : Take(o, k, w) /\ (w.pc # "idle" => w.m = k /\ w.copy = cache[o][k])
    BY <1>5, BeginTakes
  <2>2. cache' = cache /\ watch' = watch /\ work' = [work EXCEPT ![o] = w]
    BY <2>1 DEF Take
  <2>. QED  BY <2>1, <2>2 DEF Known, TypeOK
<1>6. ASSUME NEW o \in Operators, Restart(o)
      PROVE  Goal
  <2>1. /\ api' = api /\ work' = [work EXCEPT ![o] = Idle]
        /\ cache' = [cache EXCEPT ![o] = api]
        /\ watch' = [watch EXCEPT ![o] = [m \in Manifests |-> <<>>]]
    BY <1>6 DEF Restart
  <2>2. ASSUME NEW op \in Operators, NEW m \in Manifests
        PROVE  Known(op, m)' \subseteq Known(op, m) \cup {api'[m]}
    <3>1. CASE op = o
      <4>1. cache'[op][m] = api[m] /\ watch'[op][m] = <<>> /\ work'[op].pc = "idle"
        BY <2>1, <3>1 DEF TypeOK, Idle
      <4>. QED  BY <2>1, <4>1 DEF Known, ToSet
    <3>2. CASE op # o
      <4>1. cache'[op] = cache[op] /\ watch'[op] = watch[op] /\ work'[op] = work[op]
        BY <2>1, <3>2 DEF TypeOK
      <4>. QED  BY <4>1 DEF Known
    <3>. QED  BY <3>1, <3>2
  <2>. QED  BY <2>2
<1>7. ASSUME NEW o \in Operators, Work(o)
      PROVE  Goal
  <2>1. KeepsCopies /\ cache' = cache
    BY <1>7, WorkCopies
  <2>2. CASE AddFinalizer(o) \/ PatchStatus(o)
    BY <1>1, <2>1, <2>2, UpdatesKeep
  <2>3. CASE RemoveFinalizer(o)
    <3>. DEFINE w == work[o]
                u == [w.copy EXCEPT !.fin = FALSE]
    <3>1. CASE UpdateAccepted(w)
      <4>1. Discard(w.m, u) /\ w.copy \in Versions /\ w.m \in Manifests
        BY <2>3, <3>1 DEF RemoveFinalizer, TypeOK, Calls
      <4>2. ~u.fin /\ u.rv \in Nat
        BY <4>1 DEF Versions, Records
      <4>. HIDE DEF u
      <4>3. Write(w.m, NoManifest(u.rv)) /\ NoManifest(u.rv) \in Versions
        BY <4>1, <4>2, NoManifestTyped DEF Discard
      <4>. QED  BY <1>1, <2>1, <4>1, <4>3
    <3>2. CASE ~UpdateAccepted(w)
      BY <1>1, <2>1, <2>3, <3>2 DEF RemoveFinalizer, KeepingWrite
    <3>. QED  BY <3>1, <3>2
  <2>4. CASE ~(AddFinalizer(o) \/ PatchStatus(o) \/ RemoveFinalizer(o))
    <3>1. UNCHANGED <<api, watch>>
      BY <1>7, <2>4 DEF Work, ApplyObject, ApplyFails, ListOwned, ListNoMatch, CallFails, DeleteOwned
    <3>. QED  BY <1>1, <2>1, <3>1 DEF KeepingWrite
  <2>. HIDE DEF Goal
  <2>. QED  BY <2>2, <2>3, <2>4
<1>. HIDE DEF Goal
<1>. QED  BY <1>2, <1>3, <1>4, <1>5, <1>6, <1>7 DEF Next, Goal

(***************************************************************************)
(* What a write keeps                                                      *)
(***************************************************************************)

\* A manifest that holds the finalizer after v is written for m has kept its
\* incarnation, and its deletion mark; and it held the finalizer before, or
\* everything known of it was current.
Keeps(m, v) ==
  v.exists /\ v.fin =>
    /\ v.uid = api[m].uid
    /\ api[m].del => v.del
    /\ Alive(m) \/ \A op \in Operators : \A u \in Known(op, m) : u = api[m]

Kept(m) ==
  Alive(m)' =>
    /\ api'[m].uid = api[m].uid
    /\ api[m].del => api'[m].del
    /\ Alive(m) \/ \A op \in Operators : \A u \in Known(op, m) : u = api[m]

LEMMA WriteKeeps ==
  ASSUME TypeOK, NEW k \in Manifests, NEW u \in Versions, Write(k, u), Keeps(k, u),
         NEW m \in Manifests
  PROVE  Kept(m)
<1>1. CASE u = api[k]
  BY <1>1 DEF Write, Kept, Alive
<1>2. CASE u # api[k]
  <2>. DEFINE n   == api[k].rv + 1
              new == [u EXCEPT !.rv = n]
  <2>1. api' = [api EXCEPT ![k] = new]
    BY <1>2 DEF Write
  <2>. HIDE DEF n
  <2>2. new.fin = u.fin /\ new.exists = u.exists /\ new.uid = u.uid /\ new.del = u.del
    BY DEF Versions, Records
  <2>. HIDE DEF new
  <2>3. CASE m = k
    <3>1. api'[m] = new
      BY <2>1, <2>3 DEF TypeOK
    <3>. QED  BY <2>2, <2>3, <3>1 DEF Kept, Keeps, Alive
  <2>4. CASE m # k
    <3>1. api'[m] = api[m]
      BY <2>1, <2>4 DEF TypeOK
    <3>. QED  BY <3>1 DEF Kept, Alive
  <2>. QED  BY <2>3, <2>4
<1>. QED  BY <1>1, <1>2

LEMMA QuietKeeps ==
  ASSUME api' = api
  PROVE  \A m \in Manifests : Kept(m)
BY DEF Kept, Alive

LEMMA UsersKept ==
  ASSUME TypeOK, Users, NEW m \in Manifests
  PROVE  Kept(m)
<1>1. ASSUME NEW k \in Manifests, NEW s \in Specs, NEW p \in ProdLabels, CreateManifest(k, s, p)
      PROVE  Kept(m)
  <2>. DEFINE n == api[k].rv + 1
  <2>1. n \in Nat
    <3>1. api[k] \in Versions
      BY DEF TypeOK
    <3>. QED  BY <3>1 DEF Versions, Records
  <2>2. p \in BOOLEAN
    BY OperatorAssumption, Zenon DEF OperatorAssumption
  <2>3. Incoming(s) \in StoredSpecs
    BY IncomingTyped DEF StoredSpecs
  <2>4. Write(k, Fresh(n, Incoming(s), p))
    BY <1>1 DEF CreateManifest
  <2>. HIDE DEF n
  <2>5. Fresh(n, Incoming(s), p) \in Versions /\ ~Fresh(n, Incoming(s), p).fin
    BY <2>1, <2>2, <2>3, FreshTyped DEF Fresh, NoManifest
  <2>. QED  BY <2>4, <2>5, WriteKeeps DEF Keeps
<1>2. ASSUME NEW k \in Manifests, NEW s \in Specs, NEW p \in ProdLabels, EditManifest(k, s, p)
      PROVE  Kept(m)
  <2>. DEFINE w == WithSpec(api[k], Incoming(s))
              v == [w EXCEPT !.prod = p]
  <2>1. api[k] \in Versions /\ api[k].exists /\ p \in BOOLEAN
    BY <1>2, OperatorAssumption DEF OperatorAssumption, TypeOK, EditManifest
  <2>2. Incoming(s) \in StoredSpecs
    BY IncomingTyped DEF StoredSpecs
  <2>3. v \in Versions /\ w \in Versions
    BY <2>1, <2>2, WithSpecTyped
  <2>4. w.fin = api[k].fin /\ w.uid = api[k].uid /\ w.del = api[k].del
    BY <2>1 DEF WithSpec, Versions, Records
  <2>5. Write(k, v)
    BY <1>2 DEF EditManifest
  <2>6. v.fin = api[k].fin /\ v.uid = api[k].uid /\ v.del = api[k].del
    <3>. HIDE DEF w
    <3>. QED  BY <2>3, <2>4 DEF Versions, Records
  <2>. HIDE DEF v
  <2>7. Keeps(k, v)
    BY <2>1, <2>6 DEF Keeps, Alive
  <2>. QED  BY <2>3, <2>5, <2>7, WriteKeeps
<1>3. ASSUME NEW k \in Manifests, DeleteManifest(k)
      PROVE  Kept(m)
  <2>. DEFINE n == api[k].gen + 1
              v == [api[k] EXCEPT !.del = TRUE, !.gen = n]
  <2>1. api[k] \in Versions /\ n \in Nat /\ api[k].rv \in Nat /\ api[k].exists
    <3>1. api[k] \in Versions
      BY DEF TypeOK
    <3>. QED  BY <1>3, <3>1 DEF Versions, Records, DeleteManifest
  <2>2. CASE api[k].fin
    <3>1. Write(k, v)
      BY <1>3, <2>2 DEF DeleteManifest, Discard
    <3>2. v \in Versions /\ v.uid = api[k].uid /\ v.del
      <4>. HIDE DEF n
      <4>. QED  BY <2>1, <2>2 DEF Versions, Records
    <3>. HIDE DEF v
    <3>3. Keeps(k, v)
      BY <2>1, <2>2, <3>2 DEF Keeps, Alive
    <3>. QED  BY <3>1, <3>2, <3>3, WriteKeeps
  <2>3. CASE ~api[k].fin
    <3>1. Write(k, NoManifest(api[k].rv))
      BY <1>3, <2>3 DEF DeleteManifest, Discard
    <3>2. NoManifest(api[k].rv) \in Versions /\ ~NoManifest(api[k].rv).fin
      BY <2>1, NoManifestTyped DEF NoManifest
    <3>. QED  BY <3>1, <3>2, WriteKeeps DEF Keeps
  <2>. QED  BY <2>2, <2>3
<1>4. CASE Tamper
  BY <1>4, QuietKeeps DEF Tamper
<1>. QED  BY <1>1, <1>2, <1>3, <1>4 DEF Users

LEMMA WorkKept ==
  ASSUME TypeOK, Versioned, OneOperator, NEW op \in Operators, Work(op), NEW m \in Manifests
  PROVE  Kept(m)
<1>. DEFINE w == work[op]
            c == w.copy
            a == api[w.m]
<1>0. /\ w \in Calls /\ w.m \in Manifests /\ c \in Versions /\ a \in Versions
      /\ w.status \in Statuses /\ CallOK(w)
  BY DEF TypeOK, Calls
<1>1. ASSUME AddFinalizer(op), UpdateAccepted(w)
      PROVE  Kept(m)
  <2>. DEFINE s == WithSpec(c, Incoming(c.spec))
              v == [s EXCEPT !.fin = TRUE]
  <2>1. c.exists /\ c.spec \in StoredSpecs /\ w.pc # "idle"
    BY <1>0, <1>1 DEF AddFinalizer, CallOK, Versions
  <2>2. s \in Versions /\ v \in Versions
    <3>1. Incoming(c.spec) \in StoredSpecs
      BY <2>1, IncomingTyped
    <3>. QED  BY <1>0, <2>1, <3>1, WithSpecTyped
  <2>3. s.uid = c.uid /\ s.del = c.del
    BY <1>0 DEF WithSpec, Versions, Records
  <2>4. Write(w.m, v)
    BY <1>1 DEF AddFinalizer
  <2>5. v.uid = c.uid /\ v.del = c.del
    <3>. HIDE DEF s
    <3>. QED  BY <2>2, <2>3 DEF Versions, Records
  <2>6. c = a /\ \A o \in Operators : \A u \in Known(o, w.m) : u = a
    BY <1>1, <2>1, UpdateCurrent
  <2>. HIDE DEF v, w, s
  <2>7. Keeps(w.m, v)
    BY <2>5, <2>6 DEF Keeps
  <2>. QED  BY <1>0, <2>2, <2>4, <2>7, WriteKeeps
<1>2. ASSUME PatchStatus(op), a.exists
      PROVE  Kept(m)
  <2>. DEFINE st == MergePatch(a.status, c.status, w.status)
              v  == [a EXCEPT !.status = st]
  <2>1. st \in Statuses
    BY <1>0, MergeTyped DEF Versions, Records
  <2>2. v \in Versions /\ v.fin = a.fin /\ v.uid = a.uid /\ v.del = a.del
    <3>. HIDE DEF st
    <3>. QED  BY <1>0, <2>1 DEF Versions, Records
  <2>3. Write(w.m, v)
    BY <1>2 DEF PatchStatus
  <2>. HIDE DEF v
  <2>4. Keeps(w.m, v)
    BY <1>2, <2>2 DEF Keeps, Alive
  <2>. QED  BY <1>0, <2>2, <2>3, <2>4, WriteKeeps
<1>3. ASSUME RemoveFinalizer(op), UpdateAccepted(w)
      PROVE  Kept(m)
  <2>. DEFINE u == [c EXCEPT !.fin = FALSE]
  <2>1. Discard(w.m, u)
    BY <1>3 DEF RemoveFinalizer
  <2>2. ~u.fin /\ u.rv \in Nat
    BY <1>0 DEF Versions, Records
  <2>. HIDE DEF u
  <2>3. Write(w.m, NoManifest(u.rv)) /\ NoManifest(u.rv) \in Versions /\ ~NoManifest(u.rv).fin
    BY <2>1, <2>2, NoManifestTyped DEF Discard, NoManifest
  <2>. HIDE DEF w
  <2>. QED  BY <1>0, <2>3, WriteKeeps DEF Keeps
<1>4. ASSUME api' = api
      PROVE  Kept(m)
  BY <1>4, QuietKeeps
<1>5. CASE ~(AddFinalizer(op) \/ PatchStatus(op) \/ RemoveFinalizer(op))
  BY <1>4, <1>5 DEF Work, ApplyObject, ApplyFails, ListOwned, ListNoMatch, CallFails, DeleteOwned
<1>. QED  BY <1>1, <1>2, <1>3, <1>4, <1>5 DEF AddFinalizer, PatchStatus, RemoveFinalizer

LEMMA StepKept ==
  ASSUME TypeOK, Versioned, OneOperator, [Next]_vars, NEW m \in Manifests
  PROVE  Kept(m)
<1>1. CASE Users
  BY <1>1, UsersKept
<1>2. CASE ~Users /\ ~\E op \in Operators : Work(op)
  <2>1. api' = api
    BY <1>2, BeginTakes DEF Next, vars, CollectGarbage, Deliver, Restart, Take
  <2>. QED  BY <2>1, QuietKeeps
<1>. QED  BY <1>1, <1>2, WorkKept

\* So what may be read stays in agreement with the API server.
LEMMA ReadStep ==
  ASSUME TypeOK, OneOperator, Versioned, Versioned', [Next]_vars,
         \A op \in Operators, m \in Manifests : \A v \in Known(op, m) : ReadOK(m, v)
  PROVE  (\A op \in Operators, m \in Manifests : \A v \in Known(op, m) : ReadOK(m, v))'
<1>. SUFFICES ASSUME NEW op \in Operators, NEW m \in Manifests, NEW v \in Known(op, m)'
              PROVE  ReadOK(m, v)'
  OBVIOUS
<1>1. CASE v = api'[m]
  BY <1>1 DEF ReadOK
<1>2. CASE v \in Known(op, m)
  <2>1. ReadOK(m, v) /\ Kept(m)
    BY <1>2, StepKept
  <2>2. v.del /\ Alive(m)' => api'[m].del
    BY <1>2, <2>1 DEF ReadOK, Kept
  <2>3. v.fin /\ ~v.del => v.uid = api'[m].uid
    <3>1. v.fin /\ ~v.del => Alive(m)'
      BY DEF Versioned, VersionOK, Alive
    <3>. QED  BY <2>1, <3>1 DEF ReadOK, Kept
  <2>. QED  BY <2>2, <2>3 DEF ReadOK
<1>. QED  BY <1>1, <1>2, KnownGrows

(***************************************************************************)
(* Labels and owners                                                       *)
(***************************************************************************)

LEMMA NamesGiven ==
  \A m \in Manifests : m.name # ""
BY OperatorAssumption DEF OperatorAssumption

\* What a call applies: an object of its manifest, owned by the current
\* incarnation, in the place of the one of that key.
LEMMA AppliesOwn ==
  ASSUME TypeOK, SweepInvariant, NEW op \in Operators, ApplyObject(op)
  PROVE  /\ api' = api
         /\ \E x : /\ objs' = Without(Key(x.obj)) \cup {x}
                   /\ \A r \in x.refs : r[1] \in Manifests /\ r[1].name = x.obj.owner
                                        /\ r[2] = api[r[1]].uid
<1>. DEFINE w == work[op]
            m == w.m
            o == Desired(m, w.copy.spec)[w.i]
<1>1. /\ m \in Manifests /\ w.copy.spec \in StoredSpecs /\ w.pc = "apply"
      /\ w.copy.fin /\ ~w.copy.del /\ w.i \in 1..Len(Desired(m, w.copy.spec))
  BY DEF TypeOK, CallOK, Calls, Versions, ApplyObject
<1>2. w.copy.uid = api[m].uid
  BY <1>1 DEF SweepInvariant, ReadOK, Known
<1>3. o.owner = m.name
  BY <1>1, DesiredOwned
<1>4. PICK x : x = [obj |-> o, refs |-> OwnerRefs(m, w.copy, o)]
  OBVIOUS
<1>5. objs' = Without(Key(x.obj)) \cup {x} /\ api' = api
  BY <1>4 DEF ApplyObject
<1>6. ASSUME NEW r \in x.refs
      PROVE  r[1] \in Manifests /\ r[1].name = x.obj.owner /\ r[2] = api[r[1]].uid
  <2>1. r = <<m, w.copy.uid>>
    BY <1>4 DEF OwnerRefs
  <2>2. r[1] = m /\ r[2] = w.copy.uid
    BY <2>1
  <2>. HIDE DEF m, w, o
  <2>. QED  BY <1>1, <1>2, <1>3, <1>4, <2>2
<1>. QED  BY <1>5, <1>6

\* Objects appear only so.
LEMMA ObjectsShrink ==
  ASSUME TypeOK, [Next]_vars, ~\E op \in Operators : ApplyObject(op)
  PROVE  objs' \subseteq objs
<1>1. CASE Users
  BY <1>1, UsersKeep
<1>2. CASE CollectGarbage \/ UNCHANGED vars
  BY <1>2 DEF CollectGarbage, vars
<1>3. CASE \E op \in Operators, m \in Manifests : Deliver(op, m) \/ Begin(op, m)
  BY <1>3, BeginTakes DEF Deliver, Take
<1>4. CASE \E op \in Operators : Restart(op)
  BY <1>4 DEF Restart
<1>5. CASE \E op \in Operators : Work(op)
  BY <1>5 DEF Work, AddFinalizer, ApplyFails, PatchStatus, ListOwned, ListNoMatch, CallFails,
       DeleteOwned, RemoveFinalizer, Without
<1>. QED  BY <1>1, <1>2, <1>3, <1>4, <1>5 DEF Next

LEMMA LabelsStep ==
  ASSUME TypeOK, SweepInvariant, [Next]_vars
  PROVE  LabelsUnique'
<1>1. CASE \E op \in Operators : ApplyObject(op)
  <2>1. PICK x : objs' = Without(Key(x.obj)) \cup {x}
    BY <1>1, AppliesOwn
  <2>. QED  BY <2>1 DEF SweepInvariant, LabelsUnique, Without
<1>2. CASE objs' \subseteq objs
  BY <1>2 DEF SweepInvariant, LabelsUnique
<1>. QED  BY <1>1, <1>2, ObjectsShrink

LEMMA ForeignParts ==
  ASSUME NEW x \in Foreign
  PROVE  x.refs = {} /\ x.obj.owner = ""
<1>. DEFINE o == x.obj
<1>1. x = [obj |-> o, refs |-> {}] /\ o.owner = ""
  BY ForeignAssumption DEF ForeignAssumption
<1>. HIDE DEF o
<1>2. x.refs = {} /\ x.obj = o
  BY <1>1
<1>. QED  BY <1>1, <1>2

\* An owner reference is to a manifest that is there, so its incarnation has
\* not changed in this step.
LEMMA RefsStep ==
  ASSUME TypeOK, OneOperator, DistinctNames, Versioned, NoOrphans', SweepInvariant, [Next]_vars
  PROVE  RefsCurrent'
<1>1. CASE \E op \in Operators : ApplyObject(op)
  <2>1. PICK x : /\ objs' = Without(Key(x.obj)) \cup {x} /\ api' = api
                 /\ \A r \in x.refs : r[1] \in Manifests /\ r[1].name = x.obj.owner
                                      /\ r[2] = api[r[1]].uid
    BY <1>1, AppliesOwn
  <2>2. \A y \in Without(Key(x.obj)) : y \in objs
    BY DEF Without
  <2>. QED  BY <2>1, <2>2 DEF SweepInvariant, RefsCurrent
<1>2. CASE objs' \subseteq objs
  <2>. SUFFICES ASSUME NEW x \in objs', NEW r \in x.refs
                PROVE  r[1] \in Manifests /\ r[1].name = x.obj.owner /\ r[2] = api'[r[1]].uid
    BY DEF RefsCurrent
  <2>1. x \in objs /\ r[1] \in Manifests /\ r[1].name = x.obj.owner /\ r[2] = api[r[1]].uid
    BY <1>2 DEF SweepInvariant, RefsCurrent
  <2>2. x \notin Foreign
    <3>. SUFFICES ASSUME x \in Foreign PROVE FALSE
      OBVIOUS
    <3>. QED  BY ForeignParts
  <2>3. PICK m \in Manifests : Alive(m)' /\ x.obj.owner = m.name
    BY <2>2 DEF NoOrphans, Alive
  <2>4. m = r[1]
    BY <2>1, <2>3 DEF DistinctNames
  <2>5. Kept(m)
    BY StepKept
  <2>. QED  BY <2>1, <2>3, <2>4, <2>5 DEF Kept
<1>. QED  BY <1>1, <1>2, ObjectsShrink

LEMMA NextPlacePc ==
  ASSUME NEW w \in Calls
  PROVE  NextPlace(w).pc \in {"list", "removeFinalizer"}
BY DEF NextPlace, Calls

\* Between List and the last Delete of a place nothing of a listed key appears.
LEMMA ItemsStep ==
  ASSUME TypeOK, OneOperator, SweepInvariant, [Next]_vars, NEW op \in Operators
  PROVE  ItemsOwned(work[op])'
<1>. DEFINE w == work[op]
<1>1. ASSUME objs' \subseteq objs, work'[op].m = w.m, work'[op].items \subseteq w.items, w.pc = "delete"
      PROVE  ItemsOwned(work[op])'
  BY <1>1 DEF SweepInvariant, ItemsOwned
<1>2. ASSUME work'[op].pc # "delete"
      PROVE  ItemsOwned(work[op])'
  BY <1>2 DEF ItemsOwned
<1>3. ASSUME work' = work, objs' \subseteq objs
      PROVE  ItemsOwned(work[op])'
  BY <1>3 DEF SweepInvariant, ItemsOwned
<1>4. ASSUME NEW o \in Operators, NEW m \in Manifests, Begin(o, m)
      PROVE  ItemsOwned(work[op])'
  <2>1. PICK c : /\ Take(o, m, c)
                 /\ c.pc \in {"list", "delete", "removeFinalizer"} => c.pc = "list" /\ c.i = 1
    BY <1>4, BeginTakes
  <2>2. work'[op] = c
    BY <2>1 DEF Take, TypeOK, OneOperator
  <2>. QED  BY <1>2, <2>1, <2>2
<1>5. ASSUME NEW o \in Operators, Restart(o)
      PROVE  ItemsOwned(work[op])'
  <2>1. work'[op].pc = "idle"
    BY <1>5 DEF Restart, TypeOK, OneOperator, Idle
  <2>. QED  BY <1>2, <2>1
<1>6. ASSUME NEW o \in Operators, Work(o)
      PROVE  ItemsOwned(work[op])'
  <2>1. o = op /\ w \in Calls
    BY DEF OneOperator, TypeOK
  <2>2. CASE AddFinalizer(op) \/ PatchStatus(op) \/ RemoveFinalizer(op) \/ CallFails(op)
    <3>1. Finish(op) \/ Requeue(op)
      BY <2>2 DEF AddFinalizer, PatchStatus, RemoveFinalizer, CallFails, Answered
    <3>. QED  BY <1>2, <3>1, EndCopies
  <2>3. CASE ApplyObject(op) \/ ApplyFails(op)
    <3>1. w.pc = "apply" /\ (GoOn(op, AfterApply(w)) \/ GoOn(op, ApplyFailed(w)))
      BY <2>3 DEF ApplyObject, ApplyFails, Answered
    <3>2. work'[op] = AfterApply(w) \/ work'[op] = ApplyFailed(w)
      BY <3>1 DEF GoOn, TypeOK
    <3>3. work'[op].pc \in {"apply", "status"}
      BY <2>1, <3>1, <3>2, CallCarried
    <3>. QED  BY <1>2, <3>3
  <2>4. CASE ListOwned(op)
    <3>. DEFINE items == Labelled(w.m, SweepPlan(w.m)[w.i])
                c     == [w EXCEPT !.pc = "delete", !.items = items]
    <3>1. CASE items = {}
      <4>1. work'[op] = NextPlace(w)
        BY <2>4, <3>1 DEF ListOwned, GoOn, TypeOK
      <4>. QED  BY <1>2, <2>1, <4>1, NextPlacePc
    <3>2. CASE items # {}
      <4>1. work'[op] = c /\ objs' = objs
        BY <2>4, <3>2 DEF ListOwned, GoOn, TypeOK
      <4>2. \A k \in items : \E y \in objs : Key(y.obj) = k /\ y.obj.owner = w.m.name
        BY DEF Labelled
      <4>. HIDE DEF items
      <4>3. c.m = w.m /\ c.items = items
        BY <2>1, CallCarried
      <4>4. w.m.name # ""
        BY <2>1, NamesGiven DEF Calls
      <4>. HIDE DEF c
      <4>. QED  BY <4>1, <4>2, <4>3, <4>4 DEF SweepInvariant, LabelsUnique, ItemsOwned
    <3>. QED  BY <3>1, <3>2
  <2>5. CASE ListNoMatch(op)
    <3>1. work'[op] = NextPlace(w)
      BY <2>5 DEF ListNoMatch, GoOn, TypeOK
    <3>. QED  BY <1>2, <2>1, <3>1, NextPlacePc
  <2>6. ASSUME NEW k \in w.items, DeleteOwned(op, k)
        PROVE  ItemsOwned(work[op])'
    <3>. DEFINE rest == w.items \ {k}
                c    == [w EXCEPT !.items = rest]
    <3>1. w.pc = "delete" /\ objs' \subseteq objs
      BY <2>6 DEF DeleteOwned, Without
    <3>2. CASE Requeue(op)
      BY <1>2, <3>2, EndCopies
    <3>3. CASE GoOn(op, NextPlace(w))
      <4>1. work'[op] = NextPlace(w)
        BY <3>3 DEF GoOn, TypeOK
      <4>. QED  BY <1>2, <2>1, <4>1, NextPlacePc
    <3>4. CASE GoOn(op, c)
      <4>1. work'[op] = c
        BY <3>4 DEF GoOn, TypeOK
      <4>2. rest \subseteq w.items
        OBVIOUS
      <4>. HIDE DEF rest
      <4>3. c.m = w.m /\ c.items = rest
        BY <2>1, CallCarried
      <4>. HIDE DEF c
      <4>. QED  BY <1>1, <3>1, <4>1, <4>2, <4>3
    <3>. QED  BY <2>6, <3>2, <3>3, <3>4 DEF DeleteOwned, Answered
  <2>. QED  BY <1>6, <2>1, <2>2, <2>3, <2>4, <2>5, <2>6 DEF Work
<1>7. CASE Users \/ CollectGarbage \/ UNCHANGED vars \/ \E o \in Operators, m \in Manifests : Deliver(o, m)
  <2>1. work' = work /\ objs' \subseteq objs
    BY <1>7, UsersKeep DEF CollectGarbage, vars, Deliver
  <2>. QED  BY <1>3, <2>1
<1>. QED  BY <1>4, <1>5, <1>6, <1>7 DEF Next

(***************************************************************************)
(* Sweeps                                                                  *)
(***************************************************************************)

LEMMA SweepInit ==
  ASSUME Init
  PROVE  SweepInvariant
<1>1. ASSUME NEW op \in Operators, NEW m \in Manifests, NEW v \in Known(op, m)
      PROVE  ReadOK(m, v)
  <2>1. /\ api[m] = NoManifest(0) /\ cache[op][m] = NoManifest(0)
        /\ watch[op][m] = <<>> /\ work[op] = Idle
    BY DEF Init
  <2>2. v = NoManifest(0)
    BY <2>1 DEF Known, ToSet, Idle
  <2>. QED  BY <2>1, <2>2 DEF ReadOK
<1>2. \A x \in objs : x.refs = {} /\ x.obj.owner = ""
  <2>1. ASSUME NEW x \in objs
        PROVE  x.refs = {} /\ x.obj.owner = ""
    BY ForeignParts DEF Init
  <2>. QED  BY <2>1
<1>3. \A op \in Operators : ItemsOwned(work[op])
  BY DEF Init, ItemsOwned, Idle
<1>. QED  BY <1>1, <1>2, <1>3 DEF SweepInvariant, LabelsUnique, RefsCurrent

LEMMA SweepStep ==
  ASSUME TypeOK, OneOperator, DistinctNames, OrphanInvariant, OrphanInvariant',
         SweepInvariant, [Next]_vars
  PROVE  SweepInvariant'
<1>1. Versioned /\ Versioned' /\ NoOrphans'
  BY DEF OrphanInvariant, Versioned
<1>2. (\A op \in Operators, m \in Manifests : \A v \in Known(op, m) : ReadOK(m, v))'
  BY <1>1, ReadStep DEF SweepInvariant
<1>3. LabelsUnique' /\ RefsCurrent'
  BY <1>1, LabelsStep, RefsStep
<1>4. \A op \in Operators : ItemsOwned(work[op])'
  BY ItemsStep
<1>. QED  BY <1>2, <1>3, <1>4 DEF SweepInvariant

\* An object disappears when its manifest is swept or has gone.
LEMMA DisappearsDeleted ==
  ASSUME TypeOK, DistinctNames, OrphanInvariant, SweepInvariant, budget["tamper"] = 0, Next,
         NEW x \in objs, \A y \in objs' : Key(y.obj) # Key(x.obj),
         NEW m \in Manifests, x.obj.owner = m.name
  PROVE  ~api[m].exists \/ api[m].del
<1>1. x \notin objs'
  OBVIOUS
<1>2. ASSUME NEW op \in Operators, ApplyObject(op)
      PROVE  FALSE
  <2>1. PICK y : objs' = Without(Key(y.obj)) \cup {y}
    BY <1>2, AppliesOwn
  <2>. QED  BY <1>1, <2>1 DEF Without
<1>3. CASE CollectGarbage
  <2>1. /\ x.refs # {}
        /\ \A r \in x.refs : ~(api[r[1]].exists /\ api[r[1]].uid = r[2])
    BY <1>1, <1>3 DEF CollectGarbage
  <2>2. PICK r \in x.refs : ~(api[r[1]].exists /\ api[r[1]].uid = r[2])
    BY <2>1
  <2>3. r[1] = m /\ r[2] = api[m].uid
    BY <2>2 DEF SweepInvariant, RefsCurrent, DistinctNames
  <2>. QED  BY <2>2, <2>3
<1>4. ASSUME NEW op \in Operators, NEW k \in work[op].items, DeleteOwned(op, k)
      PROVE  ~api[m].exists \/ api[m].del
  <2>. DEFINE w == work[op]
  <2>1. w.pc = "delete" /\ Key(x.obj) = k
    BY <1>1, <1>4 DEF DeleteOwned, Without
  <2>2. x.obj.owner = w.m.name
    BY <2>1 DEF SweepInvariant, ItemsOwned
  <2>3. w.m = m
    BY <2>2 DEF TypeOK, Calls, DistinctNames
  <2>4. w.copy.del
    BY <2>1 DEF TypeOK, CallOK
  <2>5. w.copy \in Known(op, m)
    BY <2>1, <2>3 DEF Known
  <2>6. Alive(m) => api[m].del
    BY <2>4, <2>5 DEF SweepInvariant, ReadOK
  <2>7. Alive(m)
    <3>1. x \notin Foreign
      <4>. SUFFICES ASSUME x \in Foreign PROVE FALSE
        OBVIOUS
      <4>. QED  BY ForeignParts, NamesGiven
    <3>. QED  BY <3>1 DEF OrphanInvariant, NoOrphans, Alive, DistinctNames
  <2>. QED  BY <2>6, <2>7
<1>5. CASE Users
  <2>1. CASE Tamper
    BY <2>1 DEF Tamper, Spend
  <2>2. CASE ~Tamper
    <3>1. objs' = objs
      BY <1>5, <2>2 DEF Users, CreateManifest, EditManifest, DeleteManifest
    <3>. QED  BY <1>1, <3>1
  <2>. QED  BY <2>1, <2>2
<1>6. CASE objs' = objs
  BY <1>1, <1>6
<1>7. CASE \E op \in Operators, k \in Manifests : Deliver(op, k) \/ Begin(op, k)
  <2>1. objs' = objs
    BY <1>7, BeginTakes DEF Deliver, Take
  <2>. QED  BY <1>6, <2>1
<1>8. CASE \E op \in Operators : Restart(op)
  BY <1>6, <1>8 DEF Restart
<1>9. ASSUME NEW op \in Operators, Work(op)
      PROVE  ~api[m].exists \/ api[m].del
  <2>1. CASE ~ApplyObject(op) /\ ~\E k \in work[op].items : DeleteOwned(op, k)
    <3>1. objs' = objs
      BY <1>9, <2>1 DEF Work, AddFinalizer, ApplyFails, PatchStatus, ListOwned, ListNoMatch,
           CallFails, RemoveFinalizer
    <3>. QED  BY <1>6, <3>1
  <2>. QED  BY <1>2, <1>4, <2>1
<1>. QED  BY <1>3, <1>5, <1>7, <1>8, <1>9 DEF Next

\* deleteOwned (simulationmanifest_controller.go:181-203): one operator whose
\* kinds are always served deletes no object of a live manifest, whatever
\* stale copy its pass works on, and owner references never hand one to the
\* garbage collector, for any number of manifests of distinct names, users,
\* faults and restarts.
THEOREM SweepsSafe ==
  OneOperator /\ AlwaysServed /\ NoTampering /\ DistinctNames => (Spec => SweepsDeletedOnly)
<1>. SUFFICES ASSUME OneOperator, AlwaysServed, NoTampering, DistinctNames
              PROVE  Spec => SweepsDeletedOnly
  OBVIOUS
<1>. DEFINE Swept ==
              \A x \in objs :
                 (\A y \in objs' : Key(y.obj) # Key(x.obj)) =>
                    \A m \in Manifests :
                       x.obj.owner = m.name /\ x.obj.ns \in {m.ns, SystemNamespace} =>
                          ~api[m].exists \/ api[m].del
            NotTampered == budget["tamper"] = 0
<1>1. Init => SweepInvariant /\ NotTampered
  BY SweepInit DEF Init, NoTampering
<1>2. TypeOK /\ OrphanInvariant /\ OrphanInvariant' /\ SweepInvariant /\ NotTampered /\ [Next]_vars
      => SweepInvariant' /\ NotTampered'
  BY SweepStep, NeverHappens DEF Events
<1>3. TypeOK /\ OrphanInvariant /\ SweepInvariant /\ NotTampered /\ [Next]_vars => [Swept]_vars
  BY DisappearsDeleted
<1>4. Spec => []OrphanInvariant
  BY OrphanInvariantSafe
<1>5. [][Swept]_vars => SweepsDeletedOnly
  BY DEF SweepsDeletedOnly
<1>. HIDE DEF Swept, NotTampered
<1>. QED  BY <1>1, <1>2, <1>3, <1>4, <1>5, TypeCorrect, PTL DEF Spec
=============================================================================
