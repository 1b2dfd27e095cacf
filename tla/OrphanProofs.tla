----------------------------- MODULE OrphanProofs -----------------------------
(***************************************************************************)
(* One operator process leaves no labelled object behind: the proof that   *)
(* OrphanInvariant is inductive.                                           *)
(***************************************************************************)
EXTENDS OperatorProofs

\* No rollout puts two processes side by side.
OneOperator == \A a, b \in Operators : a = b

\* No kind is unserved while a sweep lists it (metaNoMatch).
AlwaysServed == Budget["outage"] = 0

(***************************************************************************)
(* Sequences and the sweep plan                                            *)
(***************************************************************************)

\* The elements of a sequence of watch events, one appended.
LEMMA AppendElements ==
  ASSUME NEW S, NEW s \in Seq(S), NEW e \in S
  PROVE  /\ ToSet(Append(s, e)) \subseteq ToSet(s) \cup {e}
         /\ Len(Append(s, e)) = Len(s) + 1
         /\ Len(s) \in Nat
         /\ \A i \in 1..Len(s) : Append(s, e)[i] = s[i] /\ s[i] \in ToSet(s)
         /\ Append(s, e)[Len(s) + 1] = e
  BY DEF ToSet

\* The same, the first delivered.
LEMMA TailElements ==
  ASSUME NEW S, NEW s \in Seq(S), s # <<>>
  PROVE  /\ Len(s) \in Nat /\ 1 \in 1..Len(s) /\ Head(s) = s[1] /\ Head(s) \in ToSet(s)
         /\ Len(Tail(s)) = Len(s) - 1
         /\ \A i \in 1..Len(Tail(s)) : Tail(s)[i] = s[i + 1] /\ i + 1 \in 1..Len(s)
         /\ ToSet(Tail(s)) \subseteq ToSet(s)
<1>1. /\ Len(s) \in Nat /\ 1 \in 1..Len(s) /\ Head(s) = s[1]
      /\ Len(Tail(s)) = Len(s) - 1 /\ Tail(s) \in Seq(S)
      /\ \A i \in 1..Len(Tail(s)) : Tail(s)[i] = s[i + 1] /\ i + 1 \in 1..Len(s)
  BY HeadTailProperties, EmptySeq
<1>2. DOMAIN s = 1..Len(s) /\ DOMAIN Tail(s) = 1..Len(Tail(s))
  BY <1>1
<1>. QED  BY <1>1, <1>2 DEF ToSet

\* deleteOwned goes through every kind in both namespaces.
LEMMA SweepCovers ==
  ASSUME NEW m, NEW ns \in {m.ns, SystemNamespace}, NEW kind \in Kinds
  PROVE  \E j \in 1..Len(SweepPlan(m)) : SweepPlan(m)[j] = <<ns, kind>>
<1>. DEFINE l == Len(Namespaces(m))
            place(i) == <<Namespaces(m)[((i - 1) \div 4) + 1], KindOrder[((i - 1) % 4) + 1]>>
<1>1. SweepPlan(m) = [i \in 1..(4 * l) |-> place(i)]
  BY DEF SweepPlan
<1>2. l \in {1, 2} /\ \E n \in 1..l : Namespaces(m)[n] = ns
  BY DEF Namespaces
<1>3. \E k \in 1..4 : KindOrder[k] = kind
  <2>1. KindOrder[1] = "VirtualService" /\ KindOrder[2] = "ServiceEntry"
        /\ KindOrder[3] = "DestinationRule" /\ KindOrder[4] = "EnvoyFilter"
    BY DEF KindOrder
  <2>. QED  BY <2>1 DEF Kinds
<1>4. PICK n \in 1..l, k \in 1..4 : Namespaces(m)[n] = ns /\ KindOrder[k] = kind
  BY <1>2, <1>3
<1>. DEFINE j == 4 * (n - 1) + k
<1>5. j \in 1..(4 * l) /\ ((j - 1) \div 4) + 1 = n /\ ((j - 1) % 4) + 1 = k
  <2>. HIDE DEF l
  <2>1. n \in {1, 2} /\ k \in {1, 2, 3, 4} /\ n <= l
    BY <1>2, <1>4
  <2>2. CASE n = 1
    BY <1>2, <2>1, <2>2
  <2>3. CASE n = 2
    BY <1>2, <2>1, <2>3
  <2>. QED  BY <2>1, <2>2, <2>3
<1>6. place(j) = <<ns, kind>>
  BY <1>4, <1>5
<1>7. Len(SweepPlan(m)) = 4 * l
  BY SweepPlanLength
<1>. HIDE DEF place, l, j
<1>. QED  BY <1>1, <1>5, <1>6, <1>7

\* There is no object of another kind.
LEMMA KindKnown ==
  ASSUME TypeOK, NEW x \in objs
  PROVE  x.obj.kind \in Kinds
<1>1. x.obj \in Objects
  BY DEF TypeOK
<1>2. CASE x.obj \in ForeignObjects
  BY <1>2, ForeignAssumption DEF ForeignObjects, ForeignAssumption
<1>3. CASE x.obj \in GeneratedObjects
  <2>1. PICK m \in Manifests, s \in StoredSpecs : x.obj \in ToSet(Desired(m, s))
    BY <1>3 DEF GeneratedObjects, DesiredLists
  <2>. DEFINE d == Desired(m, s)
  <2>2. PICK i \in DOMAIN d : x.obj = d[i]
    BY <2>1 DEF ToSet
  <2>3. i \in 1..Len(d) /\ d[i].kind \in Kinds
    BY DesiredOwned
  <2>. QED  BY <2>2, <2>3
<1>. QED  BY <1>1, <1>2, <1>3 DEF Objects

(***************************************************************************)
(* Versions                                                                *)
(***************************************************************************)

\* No operator has read or will read anything that contradicts the API server.
Versioned ==
  \A op \in Operators, m \in Manifests :
     InOrder(op, m) /\ \A v \in Known(op, m) : VersionOK(m, v)

\* No call starts or changes its copy.
KeepsCopies ==
  \A op \in Operators : work'[op].pc # "idle" =>
     /\ work[op].pc # "idle" /\ work'[op].m = work[op].m /\ work'[op].copy = work[op].copy

\* Where the API server writes nothing.
LEMMA QuietVersions ==
  ASSUME Versioned, KeepsCopies, UNCHANGED <<api, cache, watch>>
  PROVE  Versioned'
<1>. SUFFICES ASSUME NEW op \in Operators, NEW m \in Manifests
              PROVE  (InOrder(op, m) /\ \A v \in Known(op, m) : VersionOK(m, v))'
  BY DEF Versioned
<1>1. InOrder(op, m) /\ \A v \in Known(op, m) : VersionOK(m, v)
  BY DEF Versioned
<1>2. Known(op, m)' \subseteq Known(op, m)
  BY DEF Known, KeepsCopies
<1>3. \A v \in Known(op, m)' : VersionOK(m, v)'
  BY <1>1, <1>2 DEF VersionOK
<1>4. InOrder(op, m)'
  BY <1>1 DEF InOrder, KeepsCopies
<1>. QED  BY <1>3, <1>4

\* A write does not break the order, if it keeps the finalizer whenever some
\* operator can still see a live finalized version.
LEMMA WriteVersions ==
  ASSUME TypeOK, Versioned, KeepsCopies, cache' = cache,
         NEW m \in Manifests, NEW v \in Versions, Write(m, v),
         \A op \in Operators : \A u \in Known(op, m) : u.fin /\ ~u.del => v.fin
  PROVE  Versioned'
<1>1. CASE v = api[m]
  BY <1>1, QuietVersions DEF Write
<1>2. CASE v # api[m]
  <2>. DEFINE n   == api[m].rv + 1
              new == [v EXCEPT !.rv = n]
  <2>1. /\ api' = [api EXCEPT ![m] = new]
        /\ watch' = [o \in Operators |-> [watch[o] EXCEPT ![m] = Append(@, new)]]
    BY <1>2 DEF Write
  <2>2. api[m] \in Versions /\ api[m].rv \in Nat
    BY DEF TypeOK, Versions, Records
  <2>3. n \in Nat /\ n > api[m].rv
    BY <2>2
  <2>4. new \in Versions /\ new.rv = n /\ new.fin = v.fin /\ (new.fin => new.exists)
    <3>. HIDE DEF n
    <3>. QED  BY <2>3 DEF Versions, Records
  <2>. HIDE DEF n, new
  <2>5. SUFFICES ASSUME NEW op \in Operators, NEW k \in Manifests
                 PROVE  (InOrder(op, k) /\ \A u \in Known(op, k) : VersionOK(k, u))'
    BY DEF Versioned
  <2>6. /\ InOrder(op, k) /\ \A u \in Known(op, k) : VersionOK(k, u)
        /\ watch[op][k] \in Seq(Versions) /\ cache[op][k] \in Known(op, k)
        /\ ToSet(watch[op][k]) \subseteq Known(op, k)
    BY DEF Versioned, TypeOK, Known
  <2>7. CASE k # m
    <3>1. api'[k] = api[k] /\ watch'[op][k] = watch[op][k]
      BY <2>1, <2>7 DEF TypeOK
    <3>2. Known(op, k)' \subseteq Known(op, k)
      BY <3>1 DEF Known, KeepsCopies
    <3>3. \A u \in Known(op, k)' : VersionOK(k, u)'
      BY <2>6, <3>1, <3>2 DEF VersionOK
    <3>4. InOrder(op, k)'
      BY <2>6, <3>1 DEF InOrder, KeepsCopies
    <3>. QED  BY <3>3, <3>4
  <2>8. CASE k = m
    <3>. DEFINE s == watch[op][m]
                t == watch'[op][m]
    <3>1. api'[m] = new /\ t = Append(s, new)
      BY <2>1 DEF TypeOK
    <3>2. /\ ToSet(t) \subseteq ToSet(s) \cup {new}
          /\ Len(t) = Len(s) + 1 /\ Len(s) \in Nat
          /\ \A i \in 1..Len(s) : t[i] = s[i] /\ s[i] \in ToSet(s)
          /\ t[Len(s) + 1] = new
      <4>1. s \in Seq(Versions)
        BY <2>6, <2>8
      <4>. HIDE DEF s
      <4>. QED  BY <2>4, <3>1, <4>1, AppendElements
    <3>3. Known(op, m)' \subseteq Known(op, m) \cup {new}
      BY <3>2 DEF Known, KeepsCopies
    <3>4. \A u \in Known(op, m) : u.rv <= api[m].rv /\ (u.fin /\ ~u.del => v.fin)
      BY <2>6, <2>8 DEF VersionOK
    <3>5. \A u \in Known(op, m) : u \in Versions
      BY DEF Known, TypeOK, Calls, ToSet
    <3>6. ASSUME NEW u \in Known(op, m)'
          PROVE  VersionOK(m, u)'
      <4>1. CASE u = new
        BY <2>4, <3>1, <4>1 DEF VersionOK, Versions, Records
      <4>2. CASE u \in Known(op, m)
        <5>1. u.rv \in Nat
          BY <3>5, <4>2 DEF Versions, Records
        <5>2. u.rv < new.rv
          BY <2>2, <2>3, <2>4, <3>4, <4>2, <5>1
        <5>3. u.fin /\ ~u.del => new.exists /\ new.fin
          BY <2>4, <3>4, <4>2
        <5>. QED  BY <2>3, <2>4, <3>1, <5>1, <5>2, <5>3 DEF VersionOK
      <4>. QED  BY <3>3, <4>1, <4>2
    <3>7. InOrder(op, m)'
      <4>1. \A i \in 1..Len(s) : cache[op][m].rv <= s[i].rv
        BY <2>6, <2>8 DEF InOrder
      <4>2. \A i, j \in 1..Len(s) : i < j => s[i].rv <= s[j].rv
        BY <2>6, <2>8 DEF InOrder
      <4>3. \A i \in 1..Len(s) : s[i].rv <= new.rv
        <5>1. \A i \in 1..Len(s) : s[i].rv <= api[m].rv /\ s[i].rv \in Nat
          BY <2>6, <2>8, <3>2, <3>4, <3>5 DEF Versions, Records
        <5>. QED  BY <2>2, <2>3, <2>4, <5>1
      <4>4. cache[op][m].rv <= new.rv
        <5>1. cache[op][m].rv <= api[m].rv /\ cache[op][m].rv \in Nat
          BY <2>6, <2>8, <3>4, <3>5 DEF Versions, Records
        <5>. QED  BY <2>2, <2>3, <2>4, <5>1
      <4>5. work'[op].pc # "idle" /\ work'[op].m = m => work'[op].copy.rv <= cache'[op][m].rv
        BY <2>6, <2>8 DEF InOrder, KeepsCopies
      <4>6. \A i \in 1..Len(t) : cache'[op][m].rv <= t[i].rv
        <5>1. ASSUME NEW i \in 1..Len(t)
              PROVE  cache'[op][m].rv <= t[i].rv
          <6>1. cache'[op][m] = cache[op][m]
            OBVIOUS
          <6>2. i \in 1..Len(s) \/ i = Len(s) + 1
            BY <3>2
          <6>. HIDE DEF s, t
          <6>. QED  BY <3>2, <4>1, <4>4, <6>1, <6>2
        <5>. QED  BY <5>1
      <4>7. \A i, j \in 1..Len(t) : i < j => t[i].rv <= t[j].rv
        <5>1. ASSUME NEW i \in 1..Len(t), NEW j \in 1..Len(t), i < j
              PROVE  t[i].rv <= t[j].rv
          <6>1. i \in 1..Len(s) /\ (j \in 1..Len(s) \/ j = Len(s) + 1)
            BY <3>2, <5>1
          <6>. HIDE DEF s, t
          <6>. QED  BY <3>2, <4>2, <4>3, <5>1, <6>1
        <5>. QED  BY <5>1
      <4>. QED  BY <4>5, <4>6, <4>7 DEF InOrder
    <3>. QED  BY <2>8, <3>6, <3>7
  <2>. QED  BY <2>7, <2>8
<1>. QED  BY <1>1, <1>2

\* A call that starts reads the cache.
LEMMA TakeVersions ==
  ASSUME TypeOK, Versioned, NEW op \in Operators, NEW m \in Manifests, NEW w, Take(op, m, w),
         w.pc # "idle" => w.m = m /\ w.copy = cache[op][m]
  PROVE  Versioned'
<1>. SUFFICES ASSUME NEW o \in Operators, NEW k \in Manifests
              PROVE  (InOrder(o, k) /\ \A v \in Known(o, k) : VersionOK(k, v))'
  BY DEF Versioned
<1>1. /\ InOrder(o, k) /\ \A v \in Known(o, k) : VersionOK(k, v)
      /\ cache[o][k] \in Known(o, k) /\ cache[o][k] \in Versions
  BY DEF Versioned, Known, TypeOK
<1>2. /\ api' = api /\ cache' = cache /\ watch' = watch
      /\ work' = [work EXCEPT ![op] = w]
  BY DEF Take
<1>3. Known(o, k)' \subseteq Known(o, k)
  BY <1>1, <1>2 DEF Known, TypeOK
<1>4. \A v \in Known(o, k)' : VersionOK(k, v)'
  BY <1>1, <1>2, <1>3 DEF VersionOK
<1>5. work'[o].pc # "idle" /\ work'[o].m = k => work'[o].copy.rv <= cache'[o][k].rv
  <2>1. cache[o][k].rv <= cache[o][k].rv
    BY <1>1 DEF Versions, Records
  <2>2. CASE o = op
    BY <1>2, <2>1, <2>2 DEF TypeOK
  <2>3. CASE o # op
    BY <1>1, <1>2, <2>3 DEF InOrder, TypeOK
  <2>. QED  BY <2>2, <2>3
<1>6. InOrder(o, k)'
  BY <1>1, <1>2, <1>5 DEF InOrder
<1>. QED  BY <1>4, <1>6

\* An event moves from the watch to the cache.
LEMMA DeliverVersions ==
  ASSUME TypeOK, Versioned, NEW op \in Operators, NEW m \in Manifests, Deliver(op, m)
  PROVE  Versioned'
<1>. SUFFICES ASSUME NEW o \in Operators, NEW k \in Manifests
              PROVE  (InOrder(o, k) /\ \A v \in Known(o, k) : VersionOK(k, v))'
  BY DEF Versioned
<1>1. /\ InOrder(o, k) /\ \A v \in Known(o, k) : VersionOK(k, v)
  BY DEF Versioned
<1>2. /\ watch[op][m] # <<>> /\ api' = api /\ work' = work
      /\ cache' = [cache EXCEPT ![op][m] = Head(watch[op][m])]
      /\ watch' = [watch EXCEPT ![op][m] = Tail(@)]
  BY DEF Deliver
<1>3. CASE o # op \/ k # m
  <2>1. cache'[o][k] = cache[o][k] /\ watch'[o][k] = watch[o][k]
    BY <1>2, <1>3 DEF TypeOK
  <2>2. Known(o, k)' = Known(o, k)
    BY <1>2, <2>1 DEF Known
  <2>. QED  BY <1>1, <1>2, <2>1, <2>2 DEF InOrder, VersionOK
<1>4. CASE o = op /\ k = m
  <2>. DEFINE s == watch[op][m]
              t == Tail(s)
              c == cache[op][m]
  <2>1. s \in Seq(Versions) /\ c \in Versions
    BY DEF TypeOK
  <2>2. cache'[op][m] = Head(s) /\ watch'[op][m] = t
    BY <1>2 DEF TypeOK
  <2>3. /\ Len(s) \in Nat /\ 1 \in 1..Len(s) /\ Head(s) = s[1] /\ Head(s) \in ToSet(s)
        /\ Len(t) = Len(s) - 1
        /\ \A i \in 1..Len(t) : t[i] = s[i + 1] /\ i + 1 \in 1..Len(s)
        /\ ToSet(t) \subseteq ToSet(s)
    <3>. HIDE DEF s
    <3>. QED  BY <1>2, <2>1, TailElements DEF s
  <2>4. /\ \A i \in 1..Len(s) : c.rv <= s[i].rv
        /\ \A i, j \in 1..Len(s) : i < j => s[i].rv <= s[j].rv
        /\ work[op].pc # "idle" /\ work[op].m = m => work[op].copy.rv <= c.rv
    BY <1>1, <1>4 DEF InOrder
  <2>5. Known(o, k)' \subseteq Known(o, k)
    BY <1>2, <1>4, <2>2, <2>3 DEF Known
  <2>6. \A v \in Known(o, k)' : VersionOK(k, v)'
    BY <1>1, <1>2, <2>5 DEF VersionOK
  <2>7. c.rv \in Nat /\ \A i \in 1..Len(s) : s[i].rv \in Nat
    <3>1. \A i \in 1..Len(s) : s[i] \in Versions
      <4>. HIDE DEF s
      <4>. QED  BY <2>1, ElementOfSeq
    <3>2. \A v \in Versions : v.rv \in Nat
      BY DEF Versions, Records
    <3>. QED  BY <2>1, <3>1, <3>2
  <2>8. work'[op].pc # "idle" /\ work'[op].m = m => work'[op].copy.rv <= cache'[op][m].rv
    <3>1. c.rv <= s[1].rv
      BY <2>3, <2>4
    <3>2. work[op].copy.rv \in Nat
      BY DEF TypeOK, Calls, Versions, Records
    <3>. HIDE DEF s, c
    <3>. QED  BY <1>2, <2>2, <2>3, <2>4, <2>7, <3>1, <3>2
  <2>9. ASSUME NEW i \in 1..Len(t)
        PROVE  s[1].rv <= t[i].rv
    <3>1. t[i] = s[i + 1] /\ i + 1 \in 1..Len(s) /\ 1 < i + 1
      BY <2>3
    <3>. HIDE DEF s, t
    <3>. QED  BY <2>3, <2>4, <3>1
  <2>10. ASSUME NEW i \in 1..Len(t), NEW j \in 1..Len(t), i < j
         PROVE  t[i].rv <= t[j].rv
    <3>1. /\ t[i] = s[i + 1] /\ i + 1 \in 1..Len(s)
          /\ t[j] = s[j + 1] /\ j + 1 \in 1..Len(s) /\ i + 1 < j + 1
      BY <2>3, <2>10
    <3>. HIDE DEF s, t
    <3>. QED  BY <2>4, <3>1
  <2>11. InOrder(o, k)'
    <3>. HIDE DEF s, t, c
    <3>. QED  BY <1>4, <2>2, <2>3, <2>8, <2>9, <2>10 DEF InOrder
  <2>. QED  BY <2>6, <2>11
<1>. QED  BY <1>3, <1>4

\* A restarted operator lists what the API server has.
LEMMA RestartVersions ==
  ASSUME TypeOK, Versioned, NEW op \in Operators, Restart(op)
  PROVE  Versioned'
<1>. SUFFICES ASSUME NEW o \in Operators, NEW k \in Manifests
              PROVE  (InOrder(o, k) /\ \A v \in Known(o, k) : VersionOK(k, v))'
  BY DEF Versioned
<1>1. /\ InOrder(o, k) /\ \A v \in Known(o, k) : VersionOK(k, v)
  BY DEF Versioned
<1>2. /\ api' = api /\ work' = [work EXCEPT ![op] = Idle]
      /\ cache' = [cache EXCEPT ![op] = api]
      /\ watch' = [watch EXCEPT ![op] = [m \in Manifests |-> <<>>]]
  BY DEF Restart
<1>3. CASE o # op
  <2>1. cache'[o] = cache[o] /\ watch'[o] = watch[o] /\ work'[o] = work[o]
    BY <1>2, <1>3 DEF TypeOK
  <2>2. Known(o, k)' = Known(o, k)
    BY <2>1 DEF Known
  <2>. QED  BY <1>1, <1>2, <2>1, <2>2 DEF InOrder, VersionOK
<1>4. CASE o = op
  <2>1. cache'[o][k] = api[k] /\ watch'[o][k] = <<>> /\ work'[o].pc = "idle"
    BY <1>2, <1>4 DEF TypeOK, Idle
  <2>2. Known(o, k)' = {api[k]}
    BY <2>1 DEF Known, ToSet
  <2>3. api[k] \in Versions
    BY DEF TypeOK
  <2>4. VersionOK(k, api[k])'
    BY <1>2, <2>3 DEF VersionOK, Versions, Records
  <2>5. InOrder(o, k)'
    BY <2>1 DEF InOrder
  <2>. QED  BY <2>2, <2>4, <2>5, <1>2
<1>. QED  BY <1>3, <1>4

(***************************************************************************)
(* Writes                                                                  *)
(***************************************************************************)

Alive(m) == api[m].exists /\ api[m].fin

\* No version is written, or one that keeps the finalizer of a live manifest.
KeepingWrite ==
  \/ UNCHANGED <<api, watch>>
  \/ \E m \in Manifests, v \in Versions : Write(m, v) /\ (Alive(m) => v.fin)

\* Such a write leaves no live manifest without its finalizer.
LEMMA KeepingAlive ==
  ASSUME TypeOK, KeepingWrite
  PROVE  \A m \in Manifests : Alive(m) => Alive(m)'
<1>1. CASE UNCHANGED <<api, watch>>
  BY <1>1 DEF Alive
<1>2. ASSUME NEW m \in Manifests, NEW v \in Versions, Write(m, v), Alive(m) => v.fin,
             NEW k \in Manifests, Alive(k)
      PROVE  Alive(k)'
  <2>1. CASE v = api[m]
    BY <1>2, <2>1 DEF Write, Alive
  <2>2. CASE v # api[m]
    <3>. DEFINE n == api[m].rv + 1
                new == [v EXCEPT !.rv = n]
    <3>1. api' = [api EXCEPT ![m] = new]
      BY <1>2, <2>2 DEF Write
    <3>2. new.fin = v.fin /\ new.exists = v.exists /\ (v.fin => v.exists)
      <4>. HIDE DEF n
      <4>. QED  BY DEF Versions, Records
    <3>. HIDE DEF new
    <3>. QED  BY <1>2, <3>1, <3>2 DEF Alive, TypeOK
  <2>. QED  BY <2>1, <2>2
<1>. QED  BY <1>1, <1>2 DEF KeepingWrite

\* Nor does it break the order of the versions.
LEMMA KeepingVersions ==
  ASSUME TypeOK, Versioned, KeepsCopies, cache' = cache, KeepingWrite
  PROVE  Versioned'
<1>1. CASE UNCHANGED <<api, watch>>
  BY <1>1, QuietVersions
<1>2. ASSUME NEW m \in Manifests, NEW v \in Versions, Write(m, v), Alive(m) => v.fin
      PROVE  Versioned'
  <2>1. \A op \in Operators : \A u \in Known(op, m) : u.fin /\ ~u.del => v.fin
    BY <1>2 DEF Versioned, VersionOK, Alive
  <2>. QED  BY <1>2, <2>1, WriteVersions
<1>. QED  BY <1>1, <1>2 DEF KeepingWrite

\* Users delete no finalizer.
LEMMA UsersKeep ==
  ASSUME TypeOK, Users
  PROVE  KeepingWrite /\ cache' = cache /\ work' = work /\ objs' \subseteq objs
<1>1. ASSUME NEW m \in Manifests, NEW s \in Specs, NEW p \in ProdLabels, CreateManifest(m, s, p)
      PROVE  KeepingWrite /\ cache' = cache /\ work' = work /\ objs' \subseteq objs
  <2>. DEFINE n == api[m].rv + 1
  <2>1. n \in Nat
    <3>1. api[m] \in Versions
      BY DEF TypeOK
    <3>. QED  BY <3>1 DEF Versions, Records
  <2>2. p \in BOOLEAN
    BY OperatorAssumption, Zenon DEF OperatorAssumption
  <2>3. Incoming(s) \in StoredSpecs
    BY IncomingTyped DEF StoredSpecs
  <2>. HIDE DEF n
  <2>4. Fresh(n, Incoming(s), p) \in Versions
    BY <2>1, <2>2, <2>3, FreshTyped
  <2>. QED  BY <1>1, <2>4 DEF CreateManifest, KeepingWrite, Alive, n
<1>2. ASSUME NEW m \in Manifests, NEW s \in Specs, NEW p \in ProdLabels, EditManifest(m, s, p)
      PROVE  KeepingWrite /\ cache' = cache /\ work' = work /\ objs' \subseteq objs
  <2>. DEFINE w == WithSpec(api[m], Incoming(s))
              v == [w EXCEPT !.prod = p]
  <2>1. api[m] \in Versions /\ api[m].exists /\ p \in BOOLEAN
    BY <1>2, OperatorAssumption DEF OperatorAssumption, TypeOK, EditManifest
  <2>2. Incoming(s) \in StoredSpecs
    BY IncomingTyped DEF StoredSpecs
  <2>3. v \in Versions /\ w \in Versions
    BY <2>1, <2>2, WithSpecTyped
  <2>4. w.fin = api[m].fin
    BY <2>1 DEF WithSpec, Versions, Records
  <2>5. v.fin = api[m].fin
    <3>. HIDE DEF w
    <3>. QED  BY <2>3, <2>4 DEF Versions, Records
  <2>6. Write(m, v)
    BY <1>2 DEF EditManifest
  <2>. HIDE DEF v
  <2>. QED  BY <1>2, <2>3, <2>5, <2>6 DEF EditManifest, KeepingWrite, Alive
<1>3. ASSUME NEW m \in Manifests, DeleteManifest(m)
      PROVE  KeepingWrite /\ cache' = cache /\ work' = work /\ objs' \subseteq objs
  <2>. DEFINE n == api[m].gen + 1
              v == [api[m] EXCEPT !.del = TRUE, !.gen = n]
  <2>1. api[m] \in Versions /\ n \in Nat /\ api[m].rv \in Nat
    <3>1. api[m] \in Versions
      BY DEF TypeOK
    <3>. QED  BY <3>1 DEF Versions, Records
  <2>2. CASE api[m].fin
    <3>1. Write(m, v)
      BY <1>3, <2>2 DEF DeleteManifest, Discard
    <3>2. v \in Versions /\ v.fin
      <4>. HIDE DEF n
      <4>. QED  BY <2>1, <2>2 DEF Versions, Records
    <3>. HIDE DEF v
    <3>. QED  BY <1>3, <3>1, <3>2 DEF DeleteManifest, KeepingWrite
  <2>3. CASE ~api[m].fin
    <3>1. Write(m, NoManifest(api[m].rv))
      BY <1>3, <2>3 DEF DeleteManifest, Discard
    <3>2. NoManifest(api[m].rv) \in Versions
      BY <2>1, NoManifestTyped
    <3>. QED  BY <1>3, <2>3, <3>1, <3>2 DEF DeleteManifest, KeepingWrite, Alive
  <2>. QED  BY <2>2, <2>3
<1>4. CASE Tamper
  BY <1>4 DEF Tamper, KeepingWrite
<1>. QED  BY <1>1, <1>2, <1>3, <1>4 DEF Users

\* Nor does the reconciler, until it removes it.
LEMMA UpdatesKeep ==
  ASSUME TypeOK, Versioned, NEW op \in Operators, AddFinalizer(op) \/ PatchStatus(op)
  PROVE  KeepingWrite
<1>. DEFINE w == work[op]
            c == w.copy
            a == api[w.m]
<1>0. /\ w \in Calls /\ w.m \in Manifests /\ c \in Versions /\ a \in Versions
      /\ w.status \in Statuses /\ CallOK(w)
  BY DEF TypeOK, Calls
<1>1. ASSUME AddFinalizer(op), UpdateAccepted(w)
      PROVE  KeepingWrite
  <2>. DEFINE v == [WithSpec(c, Incoming(c.spec)) EXCEPT !.fin = TRUE]
  <2>1. c.exists /\ c.spec \in StoredSpecs
    BY <1>0, <1>1 DEF AddFinalizer, CallOK, Versions
  <2>2. WithSpec(c, Incoming(c.spec)) \in Versions /\ v \in Versions
    <3>1. Incoming(c.spec) \in StoredSpecs
      BY <2>1, IncomingTyped
    <3>. QED  BY <1>0, <2>1, <3>1, WithSpecTyped
  <2>3. v.fin
    BY <2>2 DEF Versions, Records
  <2>4. Write(w.m, v)
    BY <1>1 DEF AddFinalizer
  <2>. HIDE DEF v
  <2>. QED  BY <1>0, <2>2, <2>3, <2>4 DEF KeepingWrite
<1>2. ASSUME PatchStatus(op), a.exists
      PROVE  KeepingWrite
  <2>. DEFINE st == MergePatch(a.status, c.status, w.status)
              v  == [a EXCEPT !.status = st]
  <2>1. st \in Statuses
    BY <1>0, MergeTyped DEF Versions, Records
  <2>2. v \in Versions /\ v.fin = a.fin
    <3>. HIDE DEF st
    <3>. QED  BY <1>0, <2>1 DEF Versions, Records
  <2>3. Write(w.m, v)
    BY <1>2 DEF PatchStatus
  <2>. HIDE DEF v
  <2>. QED  BY <1>0, <2>2, <2>3 DEF KeepingWrite, Alive
<1>. QED  BY <1>1, <1>2 DEF AddFinalizer, PatchStatus, KeepingWrite

\* Where an update is accepted, the copy it was made from is the current
\* version, and so is every other version the one operator knows.
LEMMA UpdateCurrent ==
  ASSUME TypeOK, Versioned, OneOperator, NEW op \in Operators,
         work[op].pc # "idle", UpdateAccepted(work[op])
  PROVE  /\ work[op].m \in Manifests /\ work[op].copy = api[work[op].m]
         /\ \A o \in Operators : \A u \in Known(o, work[op].m) : u = api[work[op].m]
<1>. DEFINE w == work[op]
            m == w.m
<1>1. /\ m \in Manifests /\ w.copy \in Versions
      /\ api[m] \in Versions /\ cache[op][m] \in Versions /\ watch[op][m] \in Seq(Versions)
  BY DEF TypeOK, Calls
<1>2. api[m].rv = w.copy.rv
  BY DEF UpdateAccepted
<1>3. InOrder(op, m) /\ \A u \in Known(op, m) : VersionOK(m, u)
  BY <1>1 DEF Versioned
<1>4. w.copy \in Known(op, m) /\ w.copy.rv <= cache[op][m].rv
  BY <1>1, <1>3 DEF Known, InOrder
<1>5. w.copy = api[m]
  BY <1>2, <1>3, <1>4 DEF VersionOK
<1>6. ASSUME NEW u \in Known(op, m)
      PROVE  u.rv >= api[m].rv /\ u.rv \in Nat
  <2>1. CASE u = cache[op][m] \/ u = w.copy
    BY <1>1, <1>2, <1>4, <2>1 DEF Versions, Records
  <2>2. CASE u \in ToSet(watch[op][m])
    <3>. DEFINE s == watch[op][m]
    <3>1. DOMAIN s = 1..Len(s)
      BY <1>1, LenProperties
    <3>2. PICK i \in 1..Len(s) : u = s[i]
      BY <2>2, <3>1 DEF ToSet
    <3>3. u \in Versions
      BY <1>1, <3>2, ElementOfSeq
    <3>4. cache[op][m].rv <= u.rv
      BY <1>3, <3>2 DEF InOrder
    <3>5. /\ u.rv \in Nat /\ cache[op][m].rv \in Nat /\ w.copy.rv \in Nat
      BY <1>1, <3>3 DEF Versions, Records
    <3>. HIDE DEF s, w
    <3>. QED  BY <1>2, <1>4, <3>4, <3>5
  <2>. QED  BY <2>1, <2>2 DEF Known
<1>7. ASSUME NEW u \in Known(op, m)
      PROVE  u = api[m]
  <2>1. u.rv <= api[m].rv /\ api[m].rv \in Nat
    BY <1>1, <1>3 DEF VersionOK, Versions, Records
  <2>2. u.rv = api[m].rv
    BY <1>6, <2>1
  <2>. QED  BY <1>3, <2>2 DEF VersionOK
<1>. QED  BY <1>1, <1>5, <1>7 DEF OneOperator

\* Where the finalizer is removed, every version known is deleted.
LEMMA RemovalCurrent ==
  ASSUME TypeOK, Versioned, OneOperator, NEW op \in Operators,
         RemoveFinalizer(op), UpdateAccepted(work[op])
  PROVE  /\ work[op].m \in Manifests
         /\ \A o \in Operators : \A u \in Known(o, work[op].m) : u.del
<1>1. work[op].copy.del /\ work[op].pc = "removeFinalizer"
  BY DEF TypeOK, CallOK, RemoveFinalizer
<1>. QED  BY <1>1, UpdateCurrent

(***************************************************************************)
(* Calls                                                                   *)
(***************************************************************************)

\* The steps of a call carry its manifest and its copy along.
LEMMA CallCarried ==
  ASSUME NEW w \in Calls, NEW i \in Nat, NEW items
  PROVE  /\ AfterApply(w).m = w.m /\ AfterApply(w).copy = w.copy
         /\ AfterApply(w).pc \in {w.pc, "status"}
         /\ ApplyFailed(w).m = w.m /\ ApplyFailed(w).copy = w.copy
         /\ ApplyFailed(w).pc = "status"
         /\ NextPlace(w).m = w.m /\ NextPlace(w).copy = w.copy
         /\ [w EXCEPT !.pc = "delete", !.items = items].m = w.m
         /\ [w EXCEPT !.pc = "delete", !.items = items].copy = w.copy
         /\ [w EXCEPT !.items = items].m = w.m
         /\ [w EXCEPT !.items = items].copy = w.copy
         /\ [w EXCEPT !.items = items].pc = w.pc
         /\ [w EXCEPT !.items = items].i = w.i
         /\ [w EXCEPT !.items = items].items = items
         /\ [w EXCEPT !.pc = "delete", !.items = items].pc = "delete"
         /\ [w EXCEPT !.pc = "delete", !.items = items].i = w.i
         /\ [w EXCEPT !.pc = "delete", !.items = items].items = items
<1>1. \A phase, msg, res, retry :
        /\ StatusCall(w, phase, msg, res, retry).m = w.m
        /\ StatusCall(w, phase, msg, res, retry).copy = w.copy
        /\ StatusCall(w, phase, msg, res, retry).pc = "status"
  BY DEF StatusCall, Calls
<1>2. /\ AfterApply(w).m = w.m /\ AfterApply(w).copy = w.copy
      /\ AfterApply(w).pc \in {w.pc, "status"}
  <2>. DEFINE l == Len(Desired(w.m, w.copy.spec))
              n == w.i + 1
  <2>1. CASE w.i < l
    <3>1. AfterApply(w) = [w EXCEPT !.i = n]
      BY <2>1 DEF AfterApply
    <3>. HIDE DEF n
    <3>. QED  BY <3>1 DEF Calls
  <2>2. CASE ~(w.i < l)
    <3>. DEFINE msg == Message("generated", l)
                res == Names(Desired(w.m, w.copy.spec))
                retry == FALSE
                phase == "Ready"
    <3>1. AfterApply(w) = StatusCall(w, phase, msg, res, retry)
      BY <2>2 DEF AfterApply
    <3>. HIDE DEF msg, res, retry, phase
    <3>. QED  BY <1>1, <3>1
  <2>. QED  BY <2>1, <2>2
<1>3. /\ ApplyFailed(w).m = w.m /\ ApplyFailed(w).copy = w.copy
      /\ ApplyFailed(w).pc = "status"
  BY <1>1 DEF ApplyFailed
<1>4. NextPlace(w).m = w.m /\ NextPlace(w).copy = w.copy
  BY DEF NextPlace, Calls
<1>5. /\ [w EXCEPT !.pc = "delete", !.items = items].m = w.m
      /\ [w EXCEPT !.pc = "delete", !.items = items].copy = w.copy
      /\ [w EXCEPT !.pc = "delete", !.items = items].pc = "delete"
      /\ [w EXCEPT !.pc = "delete", !.items = items].i = w.i
      /\ [w EXCEPT !.pc = "delete", !.items = items].items = items
  BY DEF Calls
<1>6. /\ [w EXCEPT !.items = items].m = w.m
      /\ [w EXCEPT !.items = items].copy = w.copy
      /\ [w EXCEPT !.items = items].pc = w.pc
      /\ [w EXCEPT !.items = items].i = w.i
      /\ [w EXCEPT !.items = items].items = items
  BY DEF Calls
<1>. QED  BY <1>2, <1>3, <1>4, <1>5, <1>6

\* A call that ends keeps no copy.
LEMMA EndCopies ==
  ASSUME TypeOK, NEW op \in Operators, Finish(op) \/ Requeue(op)
  PROVE  KeepsCopies /\ work'[op].pc = "idle"
<1>1. work' = [work EXCEPT ![op] = Idle]
  BY DEF Finish, GoOn, Requeue
<1>2. work \in [Operators -> Calls] /\ Idle.pc = "idle"
  BY DEF TypeOK, Idle
<1>. QED  BY <1>1, <1>2 DEF KeepsCopies

\* A call that goes on keeps its copy.
LEMMA GoOnCopies ==
  ASSUME TypeOK, NEW op \in Operators, NEW w, GoOn(op, w), work[op].pc # "idle",
         w.m = work[op].m, w.copy = work[op].copy
  PROVE  KeepsCopies /\ work'[op] = w
  BY DEF GoOn, KeepsCopies, TypeOK

\* A step of a call ends the call or goes on with the same copy.
LEMMA WorkCopies ==
  ASSUME TypeOK, NEW op \in Operators, Work(op)
  PROVE  KeepsCopies /\ cache' = cache
<1>. DEFINE w == work[op]
<1>0. w \in Calls
  BY DEF TypeOK
<1>1. CASE AddFinalizer(op) \/ CallFails(op)
  BY <1>1, EndCopies DEF AddFinalizer, CallFails
<1>2. CASE PatchStatus(op) \/ RemoveFinalizer(op)
  <2>1. Finish(op) \/ Requeue(op)
    BY <1>2 DEF PatchStatus, RemoveFinalizer, Answered
  <2>. QED  BY <1>2, <2>1, EndCopies DEF PatchStatus, RemoveFinalizer
<1>3. CASE ApplyObject(op) \/ ApplyFails(op)
  <2>1. w.pc = "apply" /\ (GoOn(op, AfterApply(w)) \/ GoOn(op, ApplyFailed(w)))
    BY <1>3 DEF ApplyObject, ApplyFails, Answered
  <2>. QED  BY <1>0, <1>3, <2>1, CallCarried, GoOnCopies DEF ApplyObject, ApplyFails
<1>4. CASE ListOwned(op)
  <2>. DEFINE items == Labelled(w.m, SweepPlan(w.m)[w.i])
              c == [w EXCEPT !.pc = "delete", !.items = items]
  <2>1. w.pc = "list" /\ (GoOn(op, NextPlace(w)) \/ GoOn(op, c))
    BY <1>4 DEF ListOwned
  <2>. HIDE DEF items
  <2>2. c.m = w.m /\ c.copy = w.copy
    BY <1>0, CallCarried
  <2>. HIDE DEF c
  <2>. QED  BY <1>0, <1>4, <2>1, <2>2, CallCarried, GoOnCopies DEF ListOwned
<1>5. CASE ListNoMatch(op)
  <2>1. w.pc = "list" /\ GoOn(op, NextPlace(w))
    BY <1>5 DEF ListNoMatch
  <2>. QED  BY <1>0, <1>5, <2>1, CallCarried, GoOnCopies DEF ListNoMatch
<1>6. ASSUME NEW k \in w.items, DeleteOwned(op, k)
      PROVE  KeepsCopies /\ cache' = cache
  <2>. DEFINE rest == w.items \ {k}
              c == [w EXCEPT !.items = rest]
  <2>1. w.pc = "delete" /\ (GoOn(op, NextPlace(w)) \/ GoOn(op, c) \/ Requeue(op))
    BY <1>6 DEF DeleteOwned, Answered
  <2>. HIDE DEF rest
  <2>2. c.m = w.m /\ c.copy = w.copy
    BY <1>0, CallCarried
  <2>. HIDE DEF c
  <2>. QED  BY <1>0, <1>6, <2>1, <2>2, CallCarried, GoOnCopies, EndCopies DEF DeleteOwned
<1>. QED  BY <1>1, <1>2, <1>3, <1>4, <1>5, <1>6 DEF Work

\* A Reconcile call begins with the cached version of its manifest, and a sweep
\* at the first place.
LEMMA BeginTakes ==
  ASSUME TypeOK, NEW op \in Operators, NEW m \in Manifests, Begin(op, m)
  PROVE  \E w : /\ Take(op, m, w)
                /\ w.pc # "idle" => w.m = m /\ w.copy = cache[op][m]
                /\ w.pc \in {"list", "delete", "removeFinalizer"} => w.pc = "list" /\ w.i = 1
                /\ w.pc = "apply" => w.i = 1
<1>. DEFINE Fits(w) == /\ w.pc # "idle" => w.m = m /\ w.copy = cache[op][m]
                       /\ w.pc \in {"list", "delete", "removeFinalizer"} => w.pc = "list" /\ w.i = 1
                       /\ w.pc = "apply" => w.i = 1
<1>1. \A pc \in {"addFinalizer", "apply", "status", "list"} :
         /\ Call(op, m, pc) \in Calls
         /\ Call(op, m, pc).m = m /\ Call(op, m, pc).copy = cache[op][m]
         /\ Call(op, m, pc).pc = pc /\ Call(op, m, pc).i = 1
  BY CallTyped
<1>2. Fits(Idle)
  BY DEF Idle
<1>3. \A pc \in {"addFinalizer", "apply", "list"} : Fits(Call(op, m, pc))
  BY <1>1
<1>4. \A phase, msg, res, retry : Fits(StatusCall(Call(op, m, "status"), phase, msg, res, retry))
  BY <1>1 DEF StatusCall, Calls
<1>5. CASE ReconcileNothing(op, m)
  BY <1>2, <1>5 DEF ReconcileNothing
<1>6. CASE ReconcileForbidden(op, m)
  <2>. DEFINE phase == "Forbidden"
              res == <<>>
              retry == FALSE
              w == StatusCall(Call(op, m, "status"), phase, ForbiddenMessage, res, retry)
  <2>1. Take(op, m, w)
    BY <1>6 DEF ReconcileForbidden
  <2>2. Fits(w)
    <3>. HIDE DEF phase, res, retry, Fits
    <3>. QED  BY <1>4
  <2>. QED  BY <2>1, <2>2
<1>7. CASE ReconcileDeleting(op, m) \/ ReconcileUnfinalized(op, m) \/ ReconcileValid(op, m)
  <2>1. \E pc \in {"addFinalizer", "apply", "list"} : Take(op, m, Call(op, m, pc))
    BY <1>7 DEF ReconcileDeleting, ReconcileUnfinalized, ReconcileValid
  <2>. QED  BY <1>3, <2>1
<1>8. CASE ReconcileInvalid(op, m)
  <2>. DEFINE phase == "Error"
              res == <<>>
              retry == FALSE
              w(msg) == StatusCall(Call(op, m, "status"), phase, msg, res, retry)
  <2>1. PICK msg : Take(op, m, w(msg))
    BY <1>8 DEF ReconcileInvalid
  <2>2. Fits(w(msg))
    <3>. HIDE DEF phase, res, retry, Fits
    <3>. QED  BY <1>4
  <2>. QED  BY <2>1, <2>2
<1>. QED  BY <1>5, <1>6, <1>7, <1>8, Begin(op, m) DEF Begin

\* Every step keeps the order of the versions.
LEMMA VersionedStep ==
  ASSUME TypeOK, Versioned, OneOperator, [Next]_vars
  PROVE  Versioned'
<1>1. CASE Users
  <2>1. KeepsCopies
    BY <1>1, UsersKeep DEF KeepsCopies
  <2>. QED  BY <1>1, <2>1, UsersKeep, KeepingVersions
<1>2. CASE CollectGarbage \/ UNCHANGED vars
  <2>1. KeepsCopies /\ UNCHANGED <<api, cache, watch>>
    BY <1>2 DEF CollectGarbage, vars, KeepsCopies
  <2>. QED  BY <2>1, QuietVersions
<1>3. ASSUME NEW op \in Operators, NEW m \in Manifests, Deliver(op, m)
      PROVE  Versioned'
  BY <1>3, DeliverVersions
<1>4. ASSUME NEW op \in Operators, NEW m \in Manifests, Begin(op, m)
      PROVE  Versioned'
  <2>. QED  BY <1>4, BeginTakes, TakeVersions
<1>5. ASSUME NEW op \in Operators, Restart(op)
      PROVE  Versioned'
  BY <1>5, RestartVersions
<1>6. ASSUME NEW op \in Operators, Work(op)
      PROVE  Versioned'
  <2>1. KeepsCopies /\ cache' = cache
    BY <1>6, WorkCopies
  <2>2. CASE AddFinalizer(op) \/ PatchStatus(op)
    BY <2>1, <2>2, UpdatesKeep, KeepingVersions
  <2>3. CASE RemoveFinalizer(op)
    <3>. DEFINE w == work[op]
                u == [w.copy EXCEPT !.fin = FALSE]
    <3>1. CASE UpdateAccepted(w)
      <4>1. w.m \in Manifests /\ \A o \in Operators : \A k \in Known(o, w.m) : k.del
        BY <2>3, <3>1, RemovalCurrent
      <4>2. Discard(w.m, u) /\ w.copy \in Versions
        BY <2>3, <3>1 DEF RemoveFinalizer, TypeOK, Calls
      <4>3. ~u.fin /\ u.rv \in Nat
        BY <4>2 DEF Versions, Records
      <4>. HIDE DEF u
      <4>4. Write(w.m, NoManifest(u.rv)) /\ NoManifest(u.rv) \in Versions
        BY <4>2, <4>3, NoManifestTyped DEF Discard
      <4>. QED  BY <2>1, <4>1, <4>4, WriteVersions
    <3>2. CASE ~UpdateAccepted(w)
      BY <2>1, <2>3, <3>2, QuietVersions DEF RemoveFinalizer
    <3>. QED  BY <3>1, <3>2
  <2>4. CASE ~(AddFinalizer(op) \/ PatchStatus(op) \/ RemoveFinalizer(op))
    <3>1. UNCHANGED <<api, watch>>
      BY <1>6, <2>4 DEF Work, ApplyObject, ApplyFails, ListOwned, ListNoMatch, CallFails, DeleteOwned
    <3>. QED  BY <2>1, <3>1, QuietVersions
  <2>. QED  BY <2>2, <2>3, <2>4
<1>. QED  BY <1>1, <1>2, <1>3, <1>4, <1>5, <1>6 DEF Next

(***************************************************************************)
(* Sweeps                                                                  *)
(***************************************************************************)

\* Where objects only disappear, what was swept stays swept.
LEMMA SweepShrinks ==
  ASSUME NEW w, SweptBy(w), objs' \subseteq objs
  PROVE  SweptBy(w)'
<1>1. \A m, place : Labelled(m, place)' \subseteq Labelled(m, place)
  BY DEF Labelled
<1>. QED  BY <1>1 DEF SweptBy

\* A sweep that is through with its place moves on to the next.
LEMMA NextPlaceSwept ==
  ASSUME NEW w \in Calls, w.i \in 1..Len(SweepPlan(w.m)),
         \A j \in 1..w.i : Labelled(w.m, SweepPlan(w.m)[j])' = {}
  PROVE  SweptBy(NextPlace(w))'
<1>. DEFINE n == w.i + 1
            none == {}
            next == [w EXCEPT !.pc = "list", !.i = n, !.items = none]
            last == [w EXCEPT !.pc = "removeFinalizer", !.items = none]
<1>1. Len(SweepPlan(w.m)) \in Nat /\ w.i \in Nat
  BY SweepPlanLength DEF Calls, Namespaces
<1>2. CASE w.i < Len(SweepPlan(w.m))
  <2>1. NextPlace(w) = next
    BY <1>2 DEF NextPlace
  <2>2. \A j \in 1..(n - 1) : j \in 1..w.i
    BY <1>1
  <2>. HIDE DEF n, none
  <2>3. next.m = w.m /\ next.pc = "list" /\ next.i = n
    BY DEF Calls
  <2>. HIDE DEF next
  <2>. QED  BY <2>1, <2>2, <2>3 DEF SweptBy
<1>3. CASE ~(w.i < Len(SweepPlan(w.m)))
  <2>1. NextPlace(w) = last
    BY <1>3 DEF NextPlace
  <2>2. \A j \in 1..Len(SweepPlan(w.m)) : j \in 1..w.i
    BY <1>1, <1>3
  <2>. HIDE DEF none
  <2>3. last.m = w.m /\ last.pc = "removeFinalizer"
    BY DEF Calls
  <2>. HIDE DEF last
  <2>. QED  BY <2>1, <2>2, <2>3 DEF SweptBy
<1>. QED  BY <1>2, <1>3

\* What List has returned is all there is at the place.
LEMMA ListSwept ==
  ASSUME TypeOK, NEW op \in Operators, SweptBy(work[op]), ListOwned(op)
  PROVE  SweptBy(work[op])'
<1>. DEFINE w     == work[op]
            place == SweepPlan(w.m)[w.i]
            items == Labelled(w.m, place)
            c     == [w EXCEPT !.pc = "delete", !.items = items]
<1>1. /\ w \in Calls /\ w.pc = "list" /\ w.i \in 1..Len(SweepPlan(w.m))
      /\ work' \in [Operators -> Calls] \/ work' = [work EXCEPT ![op] = NextPlace(w)]
                                       \/ work' = [work EXCEPT ![op] = c]
  BY DEF TypeOK, CallOK, ListOwned, GoOn
<1>2. objs' = objs /\ \A m, p : Labelled(m, p)' = Labelled(m, p)
  BY DEF ListOwned, Labelled
<1>3. \A j \in 1..(w.i - 1) : Labelled(w.m, SweepPlan(w.m)[j]) = {}
  BY <1>1 DEF SweptBy
<1>4. CASE items = {}
  <2>1. work'[op] = NextPlace(w)
    BY <1>4 DEF ListOwned, GoOn, TypeOK
  <2>2. \A j \in 1..w.i : Labelled(w.m, SweepPlan(w.m)[j]) = {}
    <3>1. \A j \in 1..w.i : j \in 1..(w.i - 1) \/ j = w.i
      BY <1>1 DEF Calls
    <3>. QED  BY <1>3, <1>4, <3>1
  <2>3. PICK v \in Calls : v = w
    BY <1>1
  <2>4. SweptBy(NextPlace(v))'
    BY <1>1, <1>2, <2>2, <2>3, NextPlaceSwept
  <2>. QED  BY <2>1, <2>3, <2>4 DEF SweptBy
<1>5. CASE items # {}
  <2>1. work'[op] = c
    BY <1>5 DEF ListOwned, GoOn, TypeOK
  <2>2. c.m = w.m /\ c.pc = "delete" /\ c.i = w.i /\ c.items = items
    <3>. HIDE DEF items
    <3>. QED  BY <1>1, CallCarried
  <2>. HIDE DEF c
  <2>. QED  BY <1>2, <1>3, <2>1, <2>2 DEF SweptBy
<1>. QED  BY <1>4, <1>5

\* Each deletion leaves the rest of the listed objects.
LEMMA DeleteSwept ==
  ASSUME TypeOK, NEW op \in Operators, SweptBy(work[op]),
         NEW k \in work[op].items, DeleteOwned(op, k)
  PROVE  SweptBy(work[op])'
<1>. DEFINE w     == work[op]
            place == SweepPlan(w.m)[w.i]
            rest  == w.items \ {k}
            c     == [w EXCEPT !.items = rest]
<1>1. w \in Calls /\ w.pc = "delete" /\ w.i \in 1..Len(SweepPlan(w.m))
  BY DEF TypeOK, CallOK, DeleteOwned
<1>2. /\ \A j \in 1..(w.i - 1) : Labelled(w.m, SweepPlan(w.m)[j]) = {}
      /\ Labelled(w.m, place) \subseteq w.items
  BY <1>1 DEF SweptBy
<1>3. \A m, p : Labelled(m, p)' \subseteq Labelled(m, p) \ {k}
  BY DEF DeleteOwned, Without, Labelled
<1>4. CASE Requeue(op)
  BY <1>4, EndCopies DEF SweptBy
<1>5. CASE rest = {} /\ GoOn(op, NextPlace(w))
  <2>1. PICK v \in Calls : v = w
    BY <1>1
  <2>2. work'[op] = NextPlace(v)
    BY <1>5, <2>1 DEF GoOn, TypeOK
  <2>3. \A j \in 1..v.i : Labelled(v.m, SweepPlan(v.m)[j])' = {}
    <3>1. \A j \in 1..v.i : j \in 1..(v.i - 1) \/ j = v.i
      BY DEF Calls
    <3>2. \A j \in 1..(v.i - 1) : Labelled(v.m, SweepPlan(v.m)[j]) = {}
      BY <1>2, <2>1
    <3>3. Labelled(v.m, SweepPlan(v.m)[v.i]) \ {k} = {}
      BY <1>2, <1>5, <2>1
    <3>4. ASSUME NEW j \in 1..v.i
          PROVE  Labelled(v.m, SweepPlan(v.m)[j])' \subseteq {}
      <4>. DEFINE p == SweepPlan(v.m)[j]
      <4>1. Labelled(v.m, p)' \subseteq Labelled(v.m, p) \ {k}
        BY <1>3
      <4>2. Labelled(v.m, p) \ {k} = {}
        BY <3>1, <3>2, <3>3
      <4>. QED  BY <4>1, <4>2
    <3>. QED  BY <3>4
  <2>4. SweptBy(NextPlace(v))'
    BY <1>1, <2>1, <2>3, NextPlaceSwept
  <2>. QED  BY <2>2, <2>4 DEF SweptBy
<1>6. CASE rest # {} /\ GoOn(op, c)
  <2>1. work'[op] = c
    BY <1>6 DEF GoOn, TypeOK
  <2>2. c.m = w.m /\ c.pc = "delete" /\ c.i = w.i /\ c.items = rest
    <3>. HIDE DEF rest
    <3>. QED  BY <1>1, CallCarried
  <2>. HIDE DEF c
  <2>. QED  BY <1>2, <1>3, <2>1, <2>2 DEF SweptBy
<1>. QED  BY <1>4, <1>5, <1>6 DEF DeleteOwned, Answered

\* The place of the sweep and what is left there go with the call.
LEMMA SweptStep ==
  ASSUME TypeOK, OneOperator, NEW op \in Operators, SweptBy(work[op]),
         budget["outage"] = 0, [Next]_vars
  PROVE  SweptBy(work[op])'
<1>. DEFINE w == work[op]
<1>1. CASE Users \/ CollectGarbage \/ UNCHANGED vars
  <2>1. objs' \subseteq objs /\ work' = work
    BY <1>1, UsersKeep DEF CollectGarbage, vars
  <2>2. PICK v : v = w
    OBVIOUS
  <2>3. SweptBy(v)'
    BY <2>1, <2>2, SweepShrinks
  <2>. QED  BY <2>1, <2>2, <2>3 DEF SweptBy
<1>2. ASSUME NEW o \in Operators, NEW m \in Manifests, Deliver(o, m)
      PROVE  SweptBy(w)'
  <2>1. PICK v : v = w
    OBVIOUS
  <2>2. SweptBy(v)' /\ work' = work
    BY <1>2, <2>1, SweepShrinks DEF Deliver
  <2>. QED  BY <2>1, <2>2 DEF SweptBy
<1>3. ASSUME NEW o \in Operators, NEW m \in Manifests, Begin(o, m)
      PROVE  SweptBy(w)'
  <2>1. PICK c : /\ Take(o, m, c)
                 /\ c.pc \in {"list", "delete", "removeFinalizer"} => c.pc = "list" /\ c.i = 1
    BY <1>3, BeginTakes
  <2>2. work'[op] = c
    BY <2>1 DEF Take, TypeOK, OneOperator
  <2>3. c.pc \in {"list", "delete"} => c.pc = "list" /\ 1..(c.i - 1) = {}
    BY <2>1
  <2>. QED  BY <2>1, <2>2, <2>3 DEF SweptBy
<1>4. ASSUME NEW o \in Operators, Restart(o)
      PROVE  SweptBy(w)'
  <2>1. work'[op].pc = "idle"
    BY <1>4 DEF Restart, TypeOK, OneOperator, Idle
  <2>. QED  BY <2>1 DEF SweptBy
<1>5. ASSUME NEW o \in Operators, Work(o)
      PROVE  SweptBy(w)'
  <2>1. o = op /\ w \in Calls
    BY DEF OneOperator, TypeOK
  <2>2. CASE AddFinalizer(op) \/ PatchStatus(op) \/ RemoveFinalizer(op) \/ CallFails(op)
    <3>1. Finish(op) \/ Requeue(op)
      BY <2>2 DEF AddFinalizer, PatchStatus, RemoveFinalizer, CallFails, Answered
    <3>. QED  BY <3>1, EndCopies DEF SweptBy
  <2>3. CASE ApplyObject(op) \/ ApplyFails(op)
    <3>1. w.pc = "apply" /\ (GoOn(op, AfterApply(w)) \/ GoOn(op, ApplyFailed(w)))
      BY <2>3 DEF ApplyObject, ApplyFails, Answered
    <3>2. work'[op] = AfterApply(w) \/ work'[op] = ApplyFailed(w)
      BY <3>1 DEF GoOn, TypeOK
    <3>3. work'[op].pc \in {"apply", "status"}
      BY <2>1, <3>1, <3>2, CallCarried
    <3>. QED  BY <3>3 DEF SweptBy
  <2>4. CASE ListOwned(op)
    BY <2>4, ListSwept
  <2>5. CASE ListNoMatch(op)
    BY <2>5 DEF ListNoMatch, Spend
  <2>6. CASE \E k \in w.items : DeleteOwned(op, k)
    BY <2>6, DeleteSwept
  <2>. QED  BY <1>5, <2>1, <2>2, <2>3, <2>4, <2>5, <2>6 DEF Work
<1>. QED  BY <1>1, <1>2, <1>3, <1>4, <1>5 DEF Next

(***************************************************************************)
(* No orphans                                                              *)
(***************************************************************************)

\* What appears is labelled for a live manifest: the call that applies it knows
\* a live finalized version, and so the finalizer is still there.
LEMMA AppliedAdopted ==
  ASSUME TypeOK, Versioned, NoOrphans, NEW op \in Operators, ApplyObject(op)
  PROVE  NoOrphans'
<1>. DEFINE w == work[op]
            m == w.m
            o == Desired(m, w.copy.spec)[w.i]
            x == [obj |-> o, refs |-> OwnerRefs(m, w.copy, o)]
<1>1. /\ m \in Manifests /\ w.copy.spec \in StoredSpecs /\ w.pc = "apply"
      /\ w.copy.fin /\ ~w.copy.del /\ w.i \in 1..Len(Desired(m, w.copy.spec))
  BY DEF TypeOK, CallOK, Calls, Versions, ApplyObject
<1>2. api[m].exists /\ api[m].fin
  BY <1>1 DEF Versioned, VersionOK, Known
<1>3. o.owner = m.name /\ o.ns \in {m.ns, SystemNamespace}
  BY <1>1, DesiredOwned
<1>4. objs' \subseteq objs \cup {x} /\ api' = api
  BY DEF ApplyObject, Without
<1>5. x.obj = o
  OBVIOUS
<1>. HIDE DEF x
<1>6. ASSUME NEW y \in objs' \ Foreign
      PROVE  \E k \in Manifests : /\ api'[k].exists /\ api'[k].fin
                                  /\ y.obj.owner = k.name
                                  /\ y.obj.ns \in {k.ns, SystemNamespace}
  <2>1. CASE y \in objs
    BY <1>4, <1>6, <2>1 DEF NoOrphans
  <2>2. CASE y = x
    BY <1>1, <1>2, <1>3, <1>4, <1>5, <2>2
  <2>. QED  BY <1>4, <1>6, <2>1, <2>2
<1>. QED  BY <1>6 DEF NoOrphans

\* The finalizer goes when nothing labelled for the manifest is left.
LEMMA RemovalClean ==
  ASSUME TypeOK, NoOrphans, NEW op \in Operators, SweptBy(work[op]), RemoveFinalizer(op)
  PROVE  NoOrphans'
<1>. DEFINE w == work[op]
            m == w.m
<1>1. /\ m \in Manifests /\ objs' = objs
      /\ \A j \in 1..Len(SweepPlan(m)) : Labelled(m, SweepPlan(m)[j]) = {}
  BY DEF TypeOK, Calls, RemoveFinalizer, SweptBy
<1>2. \A k \in Manifests \ {m} : api'[k] = api[k]
  BY DEF RemoveFinalizer, Discard, Write, TypeOK
<1>3. ASSUME NEW x \in objs \ Foreign, NEW k \in Manifests,
             x.obj.owner = k.name, x.obj.ns \in {k.ns, SystemNamespace}
      PROVE  k # m
  <2>. SUFFICES ASSUME k = m PROVE FALSE
    OBVIOUS
  <2>1. x.obj.kind \in Kinds
    BY KindKnown
  <2>2. PICK j \in 1..Len(SweepPlan(m)) : SweepPlan(m)[j] = <<x.obj.ns, x.obj.kind>>
    <3>. DEFINE ns   == x.obj.ns
                kind == x.obj.kind
    <3>1. ns \in {m.ns, SystemNamespace} /\ kind \in Kinds
      BY <1>3, <2>1
    <3>. HIDE DEF ns, kind
    <3>2. \E j \in 1..Len(SweepPlan(m)) : SweepPlan(m)[j] = <<ns, kind>>
      BY <3>1, SweepCovers, Zenon
    <3>. QED  BY <3>2 DEF ns, kind
  <2>. DEFINE place == <<x.obj.ns, x.obj.kind>>
  <2>3. x.obj.ns = place[1] /\ x.obj.kind = place[2] /\ x.obj.owner = m.name /\ x \in objs
    BY <1>3
  <2>4. Key(x.obj) \in Labelled(m, place)
    <3>. HIDE DEF place
    <3>. QED  BY <2>3 DEF Labelled
  <2>. QED  BY <1>1, <2>2, <2>4
<1>. QED  BY <1>1, <1>2, <1>3 DEF NoOrphans

\* Every other step lets objects only disappear and keeps finalizers.
LEMMA NoOrphansStep ==
  ASSUME TypeOK, Versioned, NoOrphans, \A op \in Operators : SweptBy(work[op]), [Next]_vars
  PROVE  NoOrphans'
<1>1. ASSUME objs' \subseteq objs, KeepingWrite
      PROVE  NoOrphans'
  <2>1. \A m \in Manifests : Alive(m) => Alive(m)'
    BY <1>1, KeepingAlive
  <2>. QED  BY <1>1, <2>1 DEF NoOrphans, Alive
<1>2. CASE Users
  BY <1>1, <1>2, UsersKeep
<1>3. CASE CollectGarbage \/ UNCHANGED vars
  BY <1>1, <1>3 DEF CollectGarbage, vars, KeepingWrite
<1>4. CASE \E op \in Operators, m \in Manifests : Deliver(op, m) \/ Begin(op, m)
  <2>1. UNCHANGED <<api, objs>>
    BY <1>4, BeginTakes DEF Deliver, Take
  <2>. QED  BY <2>1 DEF NoOrphans
<1>5. CASE \E op \in Operators : Restart(op)
  BY <1>5 DEF Restart, NoOrphans
<1>6. ASSUME NEW op \in Operators, Work(op)
      PROVE  NoOrphans'
  <2>1. CASE ApplyObject(op)
    BY <2>1, AppliedAdopted
  <2>2. CASE RemoveFinalizer(op)
    BY <2>2, RemovalClean
  <2>3. CASE AddFinalizer(op) \/ PatchStatus(op)
    <3>1. objs' = objs
      BY <2>3 DEF AddFinalizer, PatchStatus
    <3>. QED  BY <1>1, <2>3, <3>1, UpdatesKeep
  <2>4. CASE ApplyFails(op) \/ ListOwned(op) \/ ListNoMatch(op) \/ CallFails(op)
    BY <2>4 DEF ApplyFails, ListOwned, ListNoMatch, CallFails, NoOrphans
  <2>5. CASE \E k \in work[op].items : DeleteOwned(op, k)
    BY <1>1, <2>5 DEF DeleteOwned, Without, KeepingWrite
  <2>. QED  BY <1>6, <2>1, <2>2, <2>3, <2>4, <2>5 DEF Work
<1>. QED  BY <1>2, <1>3, <1>4, <1>5, <1>6 DEF Next

\* No bound is raised: what may not happen never may.
LEMMA NeverHappens ==
  ASSUME TypeOK, NEW event \in Events, budget[event] = 0, [Next]_vars
  PROVE  budget'[event] = 0
<1>1. budget \in [Events -> Nat]
  BY DEF TypeOK
<1>2. budget' = budget \/ \E e \in Events : Spend(e)
  <2>1. CASE Users
    BY <2>1 DEF Users, CreateManifest, EditManifest, DeleteManifest, Tamper, Events
  <2>2. CASE CollectGarbage \/ UNCHANGED vars
    BY <2>2 DEF CollectGarbage, vars
  <2>3. CASE \E op \in Operators, m \in Manifests : Deliver(op, m) \/ Begin(op, m)
    BY <2>3, BeginTakes DEF Deliver, Take
  <2>4. CASE \E op \in Operators : Restart(op)
    BY <2>4 DEF Restart, Events
  <2>5. CASE \E op \in Operators : Work(op)
    BY <2>5 DEF Work, AddFinalizer, ApplyObject, ApplyFails, PatchStatus, ListOwned, ListNoMatch,
         RemoveFinalizer, CallFails, DeleteOwned, Answered, Events
  <2>. QED  BY <2>1, <2>2, <2>3, <2>4, <2>5 DEF Next
<1>3. ASSUME NEW e \in Events, Spend(e)
      PROVE  budget'[event] = 0
  <2>1. e # event
    BY <1>3 DEF Spend
  <2>2. budget' = [budget EXCEPT ![e] = budget[e] - 1]
    BY <1>3 DEF Spend
  <2>. QED  BY <1>1, <2>1, <2>2
<1>. QED  BY <1>2, <1>3

\* At the start every operator knows that no manifest exists.
LEMMA VersionedInit ==
  ASSUME Init
  PROVE  Versioned
<1>. SUFFICES ASSUME NEW op \in Operators, NEW m \in Manifests
              PROVE  InOrder(op, m) /\ \A v \in Known(op, m) : VersionOK(m, v)
  BY DEF Versioned
<1>1. /\ api[m] = NoManifest(0) /\ cache[op][m] = NoManifest(0)
      /\ watch[op][m] = <<>> /\ work[op] = Idle
  BY DEF Init
<1>2. Known(op, m) = {NoManifest(0)}
  BY <1>1 DEF Known, ToSet, Idle
<1>3. NoManifest(0).rv = 0 /\ ~NoManifest(0).fin
  BY DEF NoManifest
<1>4. VersionOK(m, NoManifest(0))
  BY <1>1, <1>3 DEF VersionOK
<1>5. InOrder(op, m)
  BY <1>1 DEF InOrder, Idle
<1>. QED  BY <1>2, <1>4, <1>5

\* At the start nothing is labelled, known or under way.
LEMMA OrphanInit ==
  ASSUME AlwaysServed, Init
  PROVE  OrphanInvariant
<1>1. \A op \in Operators : SweptBy(work[op])
  BY DEF Init, SweptBy, Idle
<1>2. NoOrphans /\ budget["outage"] = 0
  BY DEF Init, NoOrphans, AlwaysServed
<1>. QED  BY <1>1, <1>2, VersionedInit DEF OrphanInvariant, Versioned

\* OrphanInvariant is inductive: every step of users, API server, garbage
\* collector, informer, reconciler and restarts preserves it.
LEMMA OrphanStep ==
  ASSUME TypeOK, OneOperator, OrphanInvariant, [Next]_vars
  PROVE  OrphanInvariant'
<1>1. Versioned /\ NoOrphans /\ budget["outage"] = 0 /\ \A op \in Operators : SweptBy(work[op])
  BY DEF OrphanInvariant, Versioned
<1>2. Versioned'
  BY <1>1, VersionedStep
<1>3. NoOrphans'
  BY <1>1, NoOrphansStep
<1>4. \A op \in Operators : SweptBy(work[op])'
  BY <1>1, SweptStep
<1>5. budget'["outage"] = 0
  BY <1>1, NeverHappens DEF Events
<1>. QED  BY <1>2, <1>3, <1>4, <1>5 DEF OrphanInvariant, Versioned

\* What Reconcile relies on when it reads its cache and sweeps
\* (simulationmanifest_controller.go:57-92): no version read contradicts the
\* API server, they are read in order, and nothing is left behind the sweep.
THEOREM OrphanInvariantSafe ==
  OneOperator /\ AlwaysServed => (Spec => []OrphanInvariant)
<1>. SUFFICES ASSUME OneOperator, AlwaysServed
              PROVE  Spec => []OrphanInvariant
  OBVIOUS
<1>1. Init => OrphanInvariant
  BY OrphanInit
<1>2. TypeOK /\ OrphanInvariant /\ [Next]_vars => OrphanInvariant'
  BY OrphanStep
<1>. QED  BY <1>1, <1>2, TypeCorrect, PTL DEF Spec

\* deleteOwned and the finalizer (simulationmanifest_controller.go:75-92): one
\* operator whose kinds are always served leaves no labelled object without a
\* live manifest that holds the finalizer, for any number of manifests, users,
\* faults, restarts and tampering.
THEOREM NoOrphansSafe == OneOperator /\ AlwaysServed => (Spec => []NoOrphans)
<1>1. OrphanInvariant => NoOrphans
  BY DEF OrphanInvariant
<1>. SUFFICES ASSUME OneOperator, AlwaysServed
              PROVE  Spec => []NoOrphans
  OBVIOUS
<1>2. Spec => []OrphanInvariant
  BY OrphanInvariantSafe
<1>. QED  BY <1>1, <1>2, PTL
=============================================================================
