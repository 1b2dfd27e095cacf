------------------------------- MODULE RestProofs -------------------------------
(***************************************************************************)
(* What holds when the loop rests, for any number of operator processes of *)
(* any environments, of the routes at every moment, and of what is         *)
(* reported on the way: the proofs of RestIsTruthful, RoutesAreSupported,  *)
(* ErrorWrittenOnce, ResultTrue and GaugeTrue.                             *)
(***************************************************************************)
EXTENDS OperatorMetrics, SweepProofs, GeneratorProofs

(***************************************************************************)
(* The invariant                                                           *)
(***************************************************************************)

\* Reconcile is at work on m.
OnCall(op, m) == work[op].pc # "idle" /\ work[op].m = m

\* The operator has nothing to do, and nothing to hear, about m.
Settled(op, m) == watch[op][m] = <<>> /\ m \notin queue[op] /\ ~OnCall(op, m)

\* The last event on its way, or else the cache, is what the API server has.
Sync(op, m) ==
  LET coming == watch[op][m]
  IN  IF coming = <<>> THEN cache[op][m] = api[m] ELSE coming[Len(coming)] = api[m]

\* The call works on what is cached, unless the manifest is queued again.
Reading(op, m) == OnCall(op, m) /\ m \notin queue[op] => work[op].copy = cache[op][m]

\* The status st is the one an operator of environment e gives to version v.
RightStatus(m, v, e, st) ==
  /\ st.obs = v.gen
  /\ \/ IsProd(e) /\ st.phase = "Forbidden" /\ st.res = <<>>
     \/ /\ ~IsProd(e) /\ v.fin /\ ~v.del
        /\ \/ st.phase = "Error" /\ st.msg \in Denials(v.spec, v.prod, e) /\ st.res = <<>>
           \/ /\ st.phase = "Ready" /\ Admitted(v.spec, v.prod, e)
              /\ st.res = Names(Desired(m, v.spec))

\* A call applies what is admitted, and reports what is right for its copy or
\* is to be repeated.
CallRight(w, e) ==
  /\ w.pc = "apply" => Admitted(w.copy.spec, w.copy.prod, e)
  /\ w.pc = "status" /\ ~w.retry => RightStatus(w.m, w.copy, e, w.status)

\* Where an operator is done, the status is the one it gives.
SettledRight(op, m) ==
  Settled(op, m) /\ api[m].exists => RightStatus(m, api[m], env[op], api[m].status)

StatusInvariant ==
  /\ \A op \in Operators, m \in Manifests : Sync(op, m) /\ Reading(op, m) /\ SettledRight(op, m)
  /\ \A op \in Operators : CallRight(work[op], env[op])

(***************************************************************************)
(* Steps                                                                   *)
(***************************************************************************)

\* Whoever writes, every watcher is sent what is written.
AsWritten ==
  \A m \in Manifests :
     \/ api'[m] = api[m] /\ \A op \in Operators : watch'[op][m] = watch[op][m]
     \/ \A op \in Operators : watch'[op][m] = Append(watch[op][m], api'[m])

LEMMA WriteSeen ==
  ASSUME TypeOK, NEW k \in Manifests, NEW v, Write(k, v)
  PROVE  AsWritten
<1>1. CASE v = api[k]
  BY <1>1 DEF Write, AsWritten
<1>2. CASE v # api[k]
  <2>. DEFINE new == [v EXCEPT !.rv = api[k].rv + 1]
  <2>1. /\ api' = [api EXCEPT ![k] = new]
        /\ watch' = [op \in Operators |-> [watch[op] EXCEPT ![k] = Append(@, new)]]
    BY <1>2 DEF Write
  <2>. HIDE DEF new
  <2>2. api'[k] = new /\ \A op \in Operators : watch'[op][k] = Append(watch[op][k], new)
    BY <2>1 DEF TypeOK
  <2>3. ASSUME NEW m \in Manifests, m # k
        PROVE  api'[m] = api[m] /\ \A op \in Operators : watch'[op][m] = watch[op][m]
    BY <2>1, <2>3 DEF TypeOK
  <2>. QED  BY <2>2, <2>3 DEF AsWritten
<1>. QED  BY <1>1, <1>2

\* Something was sent, or there is nothing new to hear.
LEMMA AppendedSomething ==
  ASSUME NEW S, NEW s \in Seq(S), NEW e \in S
  PROVE  /\ Append(s, e) # <<>>
         /\ Append(s, e)[Len(Append(s, e))] = e
<1>1. /\ Len(Append(s, e)) = Len(s) + 1 /\ Len(s) \in Nat
      /\ Append(s, e)[Len(s) + 1] = e
  BY AppendElements
<1>2. Len(<<>>) = 0
  OBVIOUS
<1>. QED  BY <1>1, <1>2

\* Where an operator has nothing to hear, nothing was written.
LEMMA QuietWatch ==
  ASSUME TypeOK, TypeOK', AsWritten, NEW op \in Operators, NEW m \in Manifests,
         watch'[op][m] = <<>>
  PROVE  api'[m] = api[m] /\ watch[op][m] = <<>>
<1>1. watch[op][m] \in Seq(Versions) /\ api'[m] \in Versions
  BY DEF TypeOK
<1>2. Append(watch[op][m], api'[m]) # <<>>
  BY <1>1, AppendedSomething
<1>. QED  BY <1>2 DEF AsWritten

\* Users and the garbage collector only write and delete.
Outside == AsWritten /\ UNCHANGED <<env, cache, queue, work>>

LEMMA OutsideSteps ==
  ASSUME TypeOK, Users \/ CollectGarbage \/ UNCHANGED vars
  PROVE  Outside
<1>1. ASSUME NEW m \in Manifests, NEW s \in Specs, NEW p \in ProdLabels,
             CreateManifest(m, s, p) \/ EditManifest(m, s, p)
      PROVE  Outside
  BY <1>1, WriteSeen DEF CreateManifest, EditManifest, Outside
<1>2. ASSUME NEW m \in Manifests, DeleteManifest(m)
      PROVE  Outside
  BY <1>2, WriteSeen DEF DeleteManifest, Discard, Outside
<1>3. CASE Tamper \/ CollectGarbage \/ UNCHANGED vars
  BY <1>3 DEF Tamper, CollectGarbage, vars, Outside, AsWritten
<1>. QED  BY <1>1, <1>2, <1>3 DEF Users

\* The end of a call: done, or queued again.
LEMMA EndsIdle ==
  ASSUME TypeOK, NEW op \in Operators, Finish(op) \/ Requeue(op)
  PROVE  /\ work'[op].pc = "idle"
         /\ Finish(op) \/ work[op].m \in queue'[op]
         /\ \A o \in Operators : queue[o] \subseteq queue'[o]
         /\ \A o \in Operators \ {op} : work'[o] = work[o] /\ queue'[o] = queue[o]
<1>1. work' = [work EXCEPT ![op] = Idle] /\ Idle.pc = "idle"
  BY DEF Finish, GoOn, Requeue, Idle
<1>2. work'[op].pc = "idle" /\ \A o \in Operators \ {op} : work'[o] = work[o]
  BY <1>1 DEF TypeOK
<1>3. CASE Finish(op)
  BY <1>2, <1>3 DEF Finish, GoOn
<1>4. CASE Requeue(op)
  <2>1. queue' = [queue EXCEPT ![op] = queue[op] \cup {work[op].m}]
    BY <1>4 DEF Requeue
  <2>2. queue'[op] = queue[op] \cup {work[op].m}
    BY <2>1 DEF TypeOK
  <2>3. \A o \in Operators \ {op} : queue'[o] = queue[o]
    BY <2>1 DEF TypeOK
  <2>. QED  BY <1>2, <2>2, <2>3
<1>. QED  BY <1>3, <1>4

\* What a step of a call does beside its proper effect: other operators' calls
\* and queues stay, no queue shrinks, and a call that is over is queued again,
\* or has patched a status or removed a finalizer.
WorkStep(op) ==
  /\ AsWritten
  /\ UNCHANGED <<env, cache>>
  /\ \A o \in Operators : queue[o] \subseteq queue'[o]
  /\ \A o \in Operators \ {op} : work'[o] = work[o] /\ queue'[o] = queue[o]
  /\ work'[op].pc = "idle" =>
       \/ work[op].m \in queue'[op]
       \/ PatchStatus(op) /\ api[work[op].m].exists /\ ~work[op].retry
       \/ RemoveFinalizer(op) /\ UpdateAccepted(work[op])

LEMMA GoesOn ==
  ASSUME TypeOK, NEW op \in Operators, NEW w, GoOn(op, w)
  PROVE  /\ work'[op] = w /\ queue' = queue
         /\ \A o \in Operators \ {op} : work'[o] = work[o]
  BY DEF GoOn, TypeOK

LEMMA WorkSteps ==
  ASSUME TypeOK, NEW op \in Operators, Work(op)
  PROVE  WorkStep(op)
<1>. DEFINE w == work[op]
<1>0. w \in Calls /\ w.m \in Manifests /\ CallOK(w)
  BY DEF TypeOK, Calls
<1>1. CASE AddFinalizer(op)
  <2>1. AsWritten
    BY <1>0, <1>1, WriteSeen DEF AddFinalizer, AsWritten
  <2>. QED  BY <1>1, <2>1, EndsIdle DEF AddFinalizer, WorkStep, Requeue, TypeOK
<1>2. CASE PatchStatus(op)
  <2>1. AsWritten
    BY <1>0, <1>2, WriteSeen DEF PatchStatus, AsWritten
  <2>2. Requeue(op) \/ (Finish(op) /\ api[w.m].exists /\ ~w.retry)
    BY <1>2 DEF PatchStatus, Answered
  <2>3. Requeue(op) => w.m \in queue'[op]
    BY <1>0 DEF Requeue, TypeOK
  <2>. QED  BY <1>2, <2>1, <2>2, <2>3, EndsIdle DEF PatchStatus, WorkStep
<1>3. CASE RemoveFinalizer(op)
  <2>1. AsWritten
    BY <1>0, <1>3, WriteSeen DEF RemoveFinalizer, Discard, AsWritten
  <2>2. Requeue(op) \/ (Finish(op) /\ UpdateAccepted(w))
    BY <1>3 DEF RemoveFinalizer, Answered
  <2>3. Requeue(op) => w.m \in queue'[op]
    BY <1>0 DEF Requeue, TypeOK
  <2>. QED  BY <1>3, <2>1, <2>2, <2>3, EndsIdle DEF RemoveFinalizer, WorkStep
<1>4. CASE CallFails(op)
  <2>1. Requeue(op) /\ w.m \in queue'[op] /\ UNCHANGED <<api, watch, env, cache>>
    BY <1>0, <1>4 DEF CallFails, Requeue, TypeOK
  <2>. QED  BY <2>1, EndsIdle DEF WorkStep, AsWritten
<1>5. ASSUME NEW c, c.pc # "idle", GoOn(op, c), UNCHANGED <<api, watch, env, cache>>
      PROVE  WorkStep(op)
  <2>1. work'[op].pc # "idle"
    BY <1>5, GoesOn
  <2>. QED  BY <1>5, <2>1, GoesOn DEF WorkStep, AsWritten
<1>6. /\ AfterApply(w).pc \in {w.pc, "status"} /\ ApplyFailed(w).pc = "status"
      /\ NextPlace(w).pc \in {"list", "removeFinalizer"}
  BY <1>0, CallCarried DEF NextPlace, Calls
<1>7. CASE ApplyObject(op) \/ ApplyFails(op)
  <2>1. w.pc = "apply" /\ (GoOn(op, AfterApply(w)) \/ GoOn(op, ApplyFailed(w)))
    BY <1>7 DEF ApplyObject, ApplyFails, Answered
  <2>2. AfterApply(w).pc # "idle" /\ ApplyFailed(w).pc # "idle"
    BY <1>6, <2>1
  <2>3. UNCHANGED <<api, watch, env, cache>>
    BY <1>7 DEF ApplyObject, ApplyFails
  <2>. QED  BY <1>5, <2>1, <2>2, <2>3
<1>8. CASE ListOwned(op) \/ ListNoMatch(op)
  <2>. DEFINE items == Labelled(w.m, SweepPlan(w.m)[w.i])
              c == [w EXCEPT !.pc = "delete", !.items = items]
  <2>1. GoOn(op, NextPlace(w)) \/ GoOn(op, c)
    BY <1>8 DEF ListOwned, ListNoMatch
  <2>. HIDE DEF items
  <2>2. c.pc = "delete"
    BY <1>0 DEF Calls
  <2>. HIDE DEF c
  <2>3. c.pc # "idle" /\ NextPlace(w).pc # "idle"
    BY <1>6, <2>2
  <2>4. UNCHANGED <<api, watch, env, cache>>
    BY <1>8 DEF ListOwned, ListNoMatch
  <2>. QED  BY <1>5, <2>1, <2>3, <2>4
<1>9. ASSUME NEW k \in w.items, DeleteOwned(op, k)
      PROVE  WorkStep(op)
  <2>. DEFINE rest == w.items \ {k}
              c == [w EXCEPT !.items = rest]
  <2>1. w.pc = "delete" /\ (GoOn(op, NextPlace(w)) \/ GoOn(op, c) \/ Requeue(op))
    BY <1>9 DEF DeleteOwned, Answered
  <2>. HIDE DEF rest
  <2>2. c.pc = w.pc
    BY <1>0, CallCarried
  <2>. HIDE DEF c
  <2>3. c.pc # "idle" /\ NextPlace(w).pc # "idle"
    BY <1>6, <2>1, <2>2
  <2>4. UNCHANGED <<api, watch, env, cache>>
    BY <1>9 DEF DeleteOwned
  <2>5. CASE Requeue(op)
    <3>1. w.m \in queue'[op]
      BY <1>0, <2>5 DEF Requeue, TypeOK
    <3>. QED  BY <2>4, <2>5, <3>1, EndsIdle DEF WorkStep, AsWritten
  <2>. QED  BY <1>5, <2>1, <2>3, <2>4, <2>5
<1>. QED  BY <1>1, <1>2, <1>3, <1>4, <1>7, <1>8, <1>9 DEF Work

(***************************************************************************)
(* What is cached and read                                                 *)
(***************************************************************************)

\* The cache and the events under way lead up to what the API server has.
LEMMA SyncStep ==
  ASSUME TypeOK, TypeOK', [Next]_vars, NEW op \in Operators, NEW m \in Manifests, Sync(op, m)
  PROVE  Sync(op, m)'
<1>0. /\ watch[op][m] \in Seq(Versions) /\ watch'[op][m] \in Seq(Versions)
      /\ api'[m] \in Versions
  BY DEF TypeOK
<1>1. ASSUME AsWritten, cache' = cache
      PROVE  Sync(op, m)'
  <2>1. CASE api'[m] = api[m] /\ watch'[op][m] = watch[op][m]
    BY <1>1, <2>1 DEF Sync
  <2>2. CASE watch'[op][m] = Append(watch[op][m], api'[m])
    <3>1. watch'[op][m] # <<>> /\ watch'[op][m][Len(watch'[op][m])] = api'[m]
      BY <1>0, <2>2, AppendedSomething
    <3>. QED  BY <3>1 DEF Sync
  <2>. QED  BY <1>1, <2>1, <2>2 DEF AsWritten
<1>2. CASE Users \/ CollectGarbage \/ UNCHANGED vars
  BY <1>1, <1>2, OutsideSteps DEF Outside
<1>3. ASSUME NEW o \in Operators, NEW k \in Manifests, Deliver(o, k)
      PROVE  Sync(op, m)'
  <2>1. /\ watch[o][k] # <<>> /\ api' = api
        /\ cache' = [cache EXCEPT ![o][k] = Head(watch[o][k])]
        /\ watch' = [watch EXCEPT ![o][k] = Tail(watch[o][k])]
    BY <1>3 DEF Deliver
  <2>2. CASE o # op \/ k # m
    <3>1. cache'[op][m] = cache[op][m] /\ watch'[op][m] = watch[op][m]
      BY <2>1, <2>2 DEF TypeOK
    <3>. QED  BY <2>1, <3>1 DEF Sync
  <2>3. CASE o = op /\ k = m
    <3>. DEFINE coming == watch[op][m]
    <3>1. cache'[op][m] = Head(coming) /\ watch'[op][m] = Tail(coming)
      BY <2>1, <2>3 DEF TypeOK
    <3>2. /\ Len(coming) \in Nat /\ 1 \in 1..Len(coming) /\ Head(coming) = coming[1]
          /\ Len(Tail(coming)) = Len(coming) - 1
          /\ \A i \in 1..Len(Tail(coming)) : Tail(coming)[i] = coming[i + 1]
      BY <1>0, <2>1, <2>3, TailElements
    <3>3. coming[Len(coming)] = api'[m]
      BY <2>1, <2>3 DEF Sync
    <3>. DEFINE rest == Tail(coming)
                n == Len(rest)
    <3>4. rest \in Seq(Versions)
      BY <1>0, <3>1
    <3>. HIDE DEF coming, rest
    <3>5. n \in Nat /\ (rest = <<>> <=> n = 0)
      BY <3>4, EmptySeq
    <3>. HIDE DEF n
    <3>6. CASE rest = <<>>
      <4>1. Len(coming) = 1
        BY <3>2, <3>5, <3>6 DEF rest, n
      <4>. QED  BY <3>1, <3>2, <3>3, <3>6, <4>1 DEF Sync, rest
    <3>7. CASE rest # <<>>
      <4>1. n \in 1..n /\ n + 1 = Len(coming)
        BY <3>2, <3>5, <3>7 DEF rest, n
      <4>2. rest[n] = api'[m]
        BY <3>2, <3>3, <4>1 DEF rest, n
      <4>. QED  BY <3>1, <3>7, <4>2 DEF Sync, rest, n
    <3>. QED  BY <3>6, <3>7
  <2>. QED  BY <2>2, <2>3
<1>4. CASE \E o \in Operators, k \in Manifests : Begin(o, k)
  <2>1. UNCHANGED <<api, cache, watch>>
    BY <1>4, BeginTakes DEF Take
  <2>. QED  BY <2>1 DEF Sync
<1>5. ASSUME NEW o \in Operators, Work(o)
      PROVE  Sync(op, m)'
  BY <1>1, <1>5, WorkSteps DEF WorkStep
<1>6. ASSUME NEW o \in Operators, Restart(o)
      PROVE  Sync(op, m)'
  <2>1. /\ api' = api /\ cache' = [cache EXCEPT ![o] = api]
        /\ watch' = [watch EXCEPT ![o] = [k \in Manifests |-> <<>>]]
    BY <1>6 DEF Restart
  <2>2. CASE o # op
    BY <2>1, <2>2 DEF Sync, TypeOK
  <2>3. CASE o = op
    <3>1. cache'[op] = api /\ watch'[op][m] = <<>>
      BY <2>1, <2>3 DEF TypeOK
    <3>. QED  BY <2>1, <3>1 DEF Sync
  <2>. QED  BY <2>2, <2>3
<1>. QED  BY <1>2, <1>3, <1>4, <1>5, <1>6 DEF Next

\* A call that begins is on a manifest that leaves the queue, in a state of
\* its environment.
LEMMA TakeMoves ==
  ASSUME TypeOK, NEW o \in Operators, NEW k \in Manifests, NEW w, Take(o, k, w)
  PROVE  /\ work'[o] = w /\ work[o].pc = "idle" /\ k \in queue[o]
         /\ queue'[o] = queue[o] \ {k}
         /\ UNCHANGED <<api, objs, env, cache, watch>>
         /\ \A p \in Operators \ {o} : work'[p] = work[p] /\ queue'[p] = queue[p]
<1>1. /\ queue' = [queue EXCEPT ![o] = queue[o] \ {k}]
      /\ work' = [work EXCEPT ![o] = w]
      /\ work[o].pc = "idle" /\ k \in queue[o]
      /\ UNCHANGED <<api, objs, env, cache, watch>>
  BY DEF Take
<1>. QED  BY <1>1 DEF TypeOK

\* A delivered version enters the cache, and its manifest the queue.
LEMMA DeliverMoves ==
  ASSUME TypeOK, NEW o \in Operators, NEW k \in Manifests, Deliver(o, k)
  PROVE  /\ UNCHANGED <<api, objs, env, work>>
         /\ queue'[o] = queue[o] \cup {k}
         /\ \A p \in Operators, m \in Manifests : p # o \/ m # k =>
              cache'[p][m] = cache[p][m] /\ watch'[p][m] = watch[p][m]
         /\ \A p \in Operators \ {o} : queue'[p] = queue[p]
<1>1. /\ queue' = [queue EXCEPT ![o] = queue[o] \cup {k}]
      /\ cache' = [cache EXCEPT ![o][k] = Head(watch[o][k])]
      /\ watch' = [watch EXCEPT ![o][k] = Tail(watch[o][k])]
      /\ UNCHANGED <<api, objs, env, work>>
  BY DEF Deliver
<1>2. /\ queue'[o] = queue[o] \cup {k}
      /\ \A p \in Operators \ {o} : queue'[p] = queue[p]
  BY <1>1 DEF TypeOK
<1>3. \A p \in Operators, m \in Manifests : p # o \/ m # k =>
              cache'[p][m] = cache[p][m] /\ watch'[p][m] = watch[p][m]
  BY <1>1 DEF TypeOK
<1>. QED  BY <1>1, <1>2, <1>3

\* A restart empties what the process had, and queues what exists.
LEMMA RestartMoves ==
  ASSUME TypeOK, NEW o \in Operators, Restart(o)
  PROVE  /\ UNCHANGED <<api, objs>>
         /\ work'[o] = Idle /\ queue'[o] = {m \in Manifests : api[m].exists}
         /\ cache'[o] = api /\ \A m \in Manifests : watch'[o][m] = <<>>
         /\ \A p \in Operators \ {o} :
              /\ work'[p] = work[p] /\ queue'[p] = queue[p]
              /\ cache'[p] = cache[p] /\ watch'[p] = watch[p] /\ env'[p] = env[p]
<1>1. /\ UNCHANGED <<api, objs>>
      /\ work' = [work EXCEPT ![o] = Idle]
      /\ queue' = [queue EXCEPT ![o] = {m \in Manifests : api[m].exists}]
      /\ cache' = [cache EXCEPT ![o] = api]
      /\ watch' = [watch EXCEPT ![o] = [m \in Manifests |-> <<>>]]
      /\ \A p \in Operators \ {o} : env'[p] = env[p]
  BY DEF Restart
<1>. QED  BY <1>1 DEF TypeOK

LEMMA ReadingStep ==
  ASSUME TypeOK, TypeOK', [Next]_vars, NEW op \in Operators, NEW m \in Manifests, Reading(op, m)
  PROVE  Reading(op, m)'
<1>1. CASE Users \/ CollectGarbage \/ UNCHANGED vars
  BY <1>1, OutsideSteps DEF Outside, Reading, OnCall
<1>2. ASSUME NEW o \in Operators, NEW k \in Manifests, Deliver(o, k)
      PROVE  Reading(op, m)'
  BY <1>2, DeliverMoves DEF Reading, OnCall
<1>3. ASSUME NEW o \in Operators, NEW k \in Manifests, Begin(o, k)
      PROVE  Reading(op, m)'
  <2>1. PICK w : Take(o, k, w) /\ (w.pc # "idle" => w.m = k /\ w.copy = cache[o][k])
    BY <1>3, BeginTakes
  <2>2. CASE o = op
    BY <2>1, <2>2, TakeMoves DEF Reading, OnCall
  <2>3. CASE o # op
    BY <2>1, <2>3, TakeMoves DEF Reading, OnCall
  <2>. QED  BY <2>2, <2>3
<1>4. ASSUME NEW o \in Operators, Work(o)
      PROVE  Reading(op, m)'
  BY <1>4, WorkSteps, WorkCopies DEF WorkStep, KeepsCopies, Reading, OnCall
<1>5. ASSUME NEW o \in Operators, Restart(o)
      PROVE  Reading(op, m)'
  <2>1. CASE o = op
    <3>1. work'[op] = Idle /\ Idle.pc = "idle"
      BY <1>5, <2>1, RestartMoves DEF Idle
    <3>. QED  BY <3>1 DEF Reading, OnCall
  <2>2. CASE o # op
    BY <1>5, <2>2, RestartMoves DEF Reading, OnCall
  <2>. QED  BY <2>1, <2>2
<1>. QED  BY <1>1, <1>2, <1>3, <1>4, <1>5 DEF Next

(***************************************************************************)
(* What is reported                                                        *)
(***************************************************************************)

\* What is reported of a cached version at the start of a call.
LEMMA ReportRight ==
  ASSUME TypeOK, NEW op \in Operators, NEW m \in Manifests, NEW phase, NEW msg,
         RightStatus(m, cache[op][m], env[op], Status(phase, msg, <<>>, cache[op][m].gen))
  PROVE  CallRight(StatusCall(Call(op, m, "status"), phase, msg, <<>>, FALSE), env[op])
<1>. DEFINE c == Call(op, m, "status")
            st == Status(phase, msg, <<>>, c.copy.gen)
            no == FALSE
            w == [c EXCEPT !.pc = "status", !.retry = no, !.status = st]
<1>1. c \in Calls /\ c.m = m /\ c.copy = cache[op][m]
  BY CallTyped
<1>2. RightStatus(m, c.copy, env[op], st)
  BY <1>1
<1>3. StatusCall(c, phase, msg, <<>>, FALSE) = w
  BY DEF StatusCall
<1>. HIDE DEF c, st, no
<1>4. w.pc = "status" /\ w.m = m /\ w.copy = c.copy /\ w.status = st
  BY <1>1 DEF Calls
<1>. HIDE DEF w
<1>5. CallRight(w, env[op])
  BY <1>2, <1>4 DEF CallRight
<1>. QED  BY <1>3, <1>5 DEF c

\* A call that begins applies what is admitted or reports what is right.
LEMMA BeginRight ==
  ASSUME TypeOK, NEW op \in Operators, NEW m \in Manifests, Begin(op, m)
  PROVE  CallRight(work'[op], env[op])
<1>. DEFINE c == cache[op][m]
<1>0. \A pc \in {"addFinalizer", "apply", "list"} :
        Call(op, m, pc).pc = pc /\ Call(op, m, pc).copy = c
  BY CallTyped
<1>1. CASE ReconcileNothing(op, m)
  <2>1. work'[op] = Idle
    BY <1>1, TakeMoves DEF ReconcileNothing
  <2>. QED  BY <2>1 DEF CallRight, Idle
<1>2. CASE ReconcileForbidden(op, m)
  <2>1. work'[op] = StatusCall(Call(op, m, "status"), "Forbidden", ForbiddenMessage, <<>>, FALSE)
        /\ IsProd(env[op])
    BY <1>2, TakeMoves DEF ReconcileForbidden
  <2>2. RightStatus(m, c, env[op], Status("Forbidden", ForbiddenMessage, <<>>, c.gen))
    BY <2>1 DEF RightStatus, Status
  <2>. QED  BY <2>1, <2>2, ReportRight
<1>3. CASE ReconcileDeleting(op, m) \/ ReconcileUnfinalized(op, m)
  <2>1. \E pc \in {"addFinalizer", "list"} : work'[op] = Call(op, m, pc)
    BY <1>3, TakeMoves DEF ReconcileDeleting, ReconcileUnfinalized
  <2>. QED  BY <1>0, <2>1 DEF CallRight
<1>4. CASE ReconcileInvalid(op, m)
  <2>1. PICK msg \in Denials(c.spec, c.prod, env[op]) :
          work'[op] = StatusCall(Call(op, m, "status"), "Error", msg, <<>>, FALSE)
    BY <1>4, TakeMoves DEF ReconcileInvalid
  <2>2. ~IsProd(env[op]) /\ c.fin /\ ~c.del
    BY <1>4 DEF ReconcileInvalid
  <2>3. RightStatus(m, c, env[op], Status("Error", msg, <<>>, c.gen))
    BY <2>1, <2>2 DEF RightStatus, Status
  <2>. QED  BY <2>1, <2>3, ReportRight
<1>5. CASE ReconcileValid(op, m)
  <2>1. work'[op] = Call(op, m, "apply") /\ Admitted(c.spec, c.prod, env[op])
    BY <1>5, TakeMoves DEF ReconcileValid
  <2>. QED  BY <1>0, <2>1 DEF CallRight
<1>. QED  BY <1>1, <1>2, <1>3, <1>4, <1>5 DEF Begin

\* The next step of an apply.
LEMMA AfterApplyRight ==
  ASSUME NEW w \in Calls, CallOK(w), w.pc = "apply", NEW e, CallRight(w, e)
  PROVE  CallRight(AfterApply(w), e) /\ CallRight(ApplyFailed(w), e)
<1>. DEFINE d == Desired(w.m, w.copy.spec)
            ready == Status("Ready", Message("generated", Len(d)), Names(d), w.copy.gen)
            failed == Status("Error", Message("apply", w.i), Names(d), w.copy.gen)
            no == FALSE
            yes == TRUE
            next == w.i + 1
            a == [w EXCEPT !.i = next]
            b == [w EXCEPT !.pc = "status", !.retry = no, !.status = ready]
            c == [w EXCEPT !.pc = "status", !.retry = yes, !.status = failed]
<1>1. AfterApply(w) \in {a, b} /\ ApplyFailed(w) = c
  BY DEF AfterApply, ApplyFailed, StatusCall
<1>2. Admitted(w.copy.spec, w.copy.prod, e) /\ w.copy.fin /\ ~w.copy.del
  BY DEF CallRight, CallOK
<1>3. ~IsProd(e)
  BY <1>2 DEF Admitted, Denials
<1>4. RightStatus(w.m, w.copy, e, ready)
  <2>1. /\ ready.obs = w.copy.gen /\ ready.phase = "Ready" /\ ready.res = Names(d)
    BY DEF Status
  <2>. HIDE DEF ready
  <2>. QED  BY <1>2, <1>3, <2>1 DEF RightStatus
<1>. HIDE DEF ready, failed, no, yes, next
<1>5. /\ a.pc = w.pc /\ a.copy = w.copy
      /\ b.pc = "status" /\ b.m = w.m /\ b.copy = w.copy /\ b.status = ready
      /\ c.pc = "status" /\ c.retry = yes
  BY DEF Calls
<1>. HIDE DEF a, b, c
<1>6. CallRight(a, e)
  BY <1>2, <1>5 DEF CallRight
<1>7. CallRight(b, e)
  BY <1>4, <1>5 DEF CallRight
<1>8. CallRight(c, e)
  BY <1>5 DEF CallRight, yes
<1>. QED  BY <1>1, <1>6, <1>7, <1>8

LEMMA CallRightStep ==
  ASSUME TypeOK, TypeOK', [Next]_vars, NEW op \in Operators, CallRight(work[op], env[op])
  PROVE  CallRight(work[op], env[op])'
<1>. DEFINE w == work[op]
<1>0. w \in Calls /\ CallOK(w)
  BY DEF TypeOK
<1>1. CASE work'[op] = work[op] /\ env'[op] = env[op]
  <2>1. PICK v, e : v = w /\ e = env[op]
    OBVIOUS
  <2>. QED  BY <1>1, <2>1
<1>2. ASSUME NEW v, v.pc \notin {"apply", "status"}, work'[op] = v
      PROVE  CallRight(work[op], env[op])'
  BY <1>2 DEF CallRight
<1>3. CASE Users \/ CollectGarbage \/ UNCHANGED vars
  BY <1>1, <1>3, OutsideSteps DEF Outside
<1>4. CASE \E o \in Operators, k \in Manifests : Deliver(o, k)
  BY <1>1, <1>4, DeliverMoves
<1>5. ASSUME NEW o \in Operators, NEW k \in Manifests, Begin(o, k)
      PROVE  CallRight(work[op], env[op])'
  <2>1. PICK v : Take(o, k, v)
    BY <1>5, BeginTakes
  <2>2. env' = env /\ (o # op => work'[op] = work[op])
    BY <2>1, TakeMoves
  <2>3. CASE o = op
    <3>1. CallRight(work'[op], env[op])
      BY <1>5, <2>3, BeginRight
    <3>2. PICK v2, e : v2 = work'[op] /\ e = env[op] /\ e = env'[op]
      BY <2>2
    <3>. QED  BY <3>1, <3>2
  <2>. QED  BY <1>1, <2>2, <2>3
<1>6. ASSUME NEW o \in Operators, Restart(o)
      PROVE  CallRight(work[op], env[op])'
  <2>1. CASE o = op
    <3>1. work'[op] = Idle /\ Idle.pc = "idle"
      BY <1>6, <2>1, RestartMoves DEF Idle
    <3>. QED  BY <1>2, <3>1
  <2>. QED  BY <1>1, <1>6, <2>1, RestartMoves
<1>7. ASSUME NEW o \in Operators \ {op}, Work(o)
      PROVE  CallRight(work[op], env[op])'
  BY <1>1, <1>7, WorkSteps DEF WorkStep
<1>8. ASSUME Work(op)
      PROVE  CallRight(work[op], env[op])'
  <2>0. env' = env
    BY <1>8, WorkSteps DEF WorkStep
  <2>1. CASE Finish(op) \/ Requeue(op)
    <3>1. work'[op].pc = "idle"
      BY <2>1, EndsIdle
    <3>. QED  BY <1>2, <3>1
  <2>2. CASE ApplyObject(op) \/ ApplyFails(op)
    <3>1. w.pc = "apply" /\ (work'[op] = AfterApply(w) \/ work'[op] = ApplyFailed(w))
      BY <2>2, GoesOn DEF ApplyObject, ApplyFails, Answered
    <3>2. CallRight(AfterApply(w), env[op]) /\ CallRight(ApplyFailed(w), env[op])
      BY <1>0, <3>1, AfterApplyRight
    <3>3. CallRight(work'[op], env[op])
      BY <3>1, <3>2
    <3>4. PICK v2, e : v2 = work'[op] /\ e = env[op] /\ e = env'[op]
      BY <2>0
    <3>. QED  BY <3>3, <3>4
  <2>. DEFINE Goes(items) == \/ work'[op] = NextPlace(w)
                             \/ work'[op] = [w EXCEPT !.items = items]
                             \/ work'[op] = [w EXCEPT !.pc = "delete", !.items = items]
  <2>3. ASSUME NEW items, w.pc \in {"list", "delete"}, Goes(items)
        PROVE  CallRight(work[op], env[op])'
    <3>1. /\ [w EXCEPT !.items = items].pc \in {"list", "delete"}
          /\ [w EXCEPT !.pc = "delete", !.items = items].pc \in {"list", "delete"}
      BY <1>0, <2>3 DEF Calls
    <3>2. NextPlace(w).pc \in {"list", "removeFinalizer"}
      BY <1>0 DEF NextPlace, Calls
    <3>. QED  BY <1>2, <2>3, <3>1, <3>2
  <2>4. CASE ListOwned(op) \/ ListNoMatch(op) \/ \E k \in w.items : DeleteOwned(op, k)
    <3>. HIDE DEF Goes
    <3>1. CASE ListOwned(op)
      <4>. DEFINE items == Labelled(w.m, SweepPlan(w.m)[w.i])
      <4>1. /\ w.pc = "list"
            /\ GoOn(op, IF items = {} THEN NextPlace(w)
                        ELSE [w EXCEPT !.pc = "delete", !.items = items])
        BY <3>1 DEF ListOwned
      <4>2. Goes(items)
        BY <4>1, GoesOn DEF Goes
      <4>. HIDE DEF items
      <4>. QED  BY <2>3, <4>1, <4>2
    <3>2. CASE ListNoMatch(op)
      BY <2>3, <3>2, GoesOn DEF ListNoMatch, Goes
    <3>3. ASSUME NEW k \in w.items, DeleteOwned(op, k)
          PROVE  CallRight(work[op], env[op])'
      <4>. DEFINE items == w.items \ {k}
      <4>1. /\ w.pc = "delete"
            /\ \/ Requeue(op)
               \/ GoOn(op, IF items = {} THEN NextPlace(w) ELSE [w EXCEPT !.items = items])
        BY <3>3 DEF DeleteOwned, Answered
      <4>2. Requeue(op) \/ Goes(items)
        BY <4>1, GoesOn DEF Goes
      <4>. HIDE DEF items
      <4>. QED  BY <2>1, <2>3, <4>1, <4>2
    <3>. QED  BY <2>4, <3>1, <3>2, <3>3
  <2>5. CASE AddFinalizer(op) \/ PatchStatus(op) \/ RemoveFinalizer(op) \/ CallFails(op)
    BY <2>1, <2>5 DEF AddFinalizer, PatchStatus, RemoveFinalizer, CallFails, Answered
  <2>. QED  BY <1>8, <2>2, <2>4, <2>5 DEF Work
<1>. QED  BY <1>3, <1>4, <1>5, <1>6, <1>7, <1>8 DEF Next

(***************************************************************************)
(* Where an operator is done                                               *)
(***************************************************************************)

\* Patching a status that is right already, or a status merged into the one
\* it was computed from.
LEMMA MergeCurrent ==
  ASSUME NEW st \in Statuses, NEW new \in Statuses
  PROVE  MergePatch(st, st, new) = new
  BY DEF MergePatch, Merge, Status, Statuses

\* When a call ends and leaves its operator with nothing to do or to hear of
\* the manifest, it was patching, in vain, a status that was right, or the
\* manifest was gone.
LEMMA DoneIsRight ==
  ASSUME TypeOK, TypeOK', NEW op \in Operators, Work(op),
         NEW m \in Manifests, work[op].m = m, api[m].exists,
         Sync(op, m), Reading(op, m), Settled(op, m)'
  PROVE  /\ PatchStatus(op) /\ ~work[op].retry /\ work[op].pc = "status"
         /\ work[op].copy = api[m] /\ api[m].status = work[op].status
<1>. DEFINE w == work[op]
            v == api[m]
<1>0. /\ w \in Calls /\ w.m = m /\ v \in Versions /\ w.copy \in Versions
  BY DEF TypeOK, Calls
<1>1. WorkStep(op)
  BY WorkSteps
<1>2. /\ AsWritten /\ watch'[op][m] = <<>> /\ cache' = cache /\ m \notin queue[op]
      /\ m \notin queue'[op] /\ (work'[op].pc = "idle" \/ work'[op].m # m)
  BY <1>1 DEF WorkStep, Settled, OnCall
<1>3. api'[m] = v /\ watch[op][m] = <<>>
  BY <1>0, <1>2, QuietWatch
<1>4. w.pc # "idle"
  BY DEF Work, AddFinalizer, ApplyObject, ApplyFails, PatchStatus, ListOwned, ListNoMatch,
         RemoveFinalizer, CallFails, DeleteOwned
<1>5. w.copy = v
  BY <1>2, <1>3, <1>4 DEF Sync, Reading, OnCall
<1>6. work'[op].pc = "idle"
  BY <1>2, WorkCopies DEF KeepsCopies
<1>7. \/ PatchStatus(op) /\ v.exists /\ ~w.retry
      \/ RemoveFinalizer(op) /\ UpdateAccepted(w)
  BY <1>1, <1>2, <1>6 DEF WorkStep
<1>8. CASE RemoveFinalizer(op) /\ UpdateAccepted(w)
  <2>. DEFINE none == NoManifest(w.copy.rv)
              u == [w.copy EXCEPT !.fin = FALSE]
  <2>1. u.rv = w.copy.rv /\ ~u.fin
    BY <1>0 DEF Versions, Records
  <2>2. Write(m, none)
    BY <1>8, <2>1 DEF RemoveFinalizer, Discard
  <2>3. ~none.exists
    BY DEF NoManifest
  <2>. HIDE DEF none
  <2>4. none # v
    BY <2>3
  <2>5. \E new : watch'[op][m] = Append(watch[op][m], new) /\ api'[m] = new
    <3>. DEFINE new == [none EXCEPT !.rv = v.rv + 1]
    <3>1. /\ api' = [api EXCEPT ![m] = new]
          /\ watch' = [o \in Operators |-> [watch[o] EXCEPT ![m] = Append(@, new)]]
      BY <2>2, <2>4 DEF Write
    <3>. HIDE DEF new
    <3>. QED  BY <1>0, <3>1 DEF TypeOK
  <2>6. watch[op][m] \in Seq(Versions) /\ api'[m] \in Versions
    BY <1>0 DEF TypeOK
  <2>. QED  BY <1>2, <2>5, <2>6, AppendedSomething
<1>9. CASE PatchStatus(op) /\ v.exists /\ ~w.retry
  <2>. DEFINE st == MergePatch(v.status, w.copy.status, w.status)
              u == [v EXCEPT !.status = st]
  <2>1. w.pc = "status" /\ Write(m, u)
    BY <1>9 DEF PatchStatus
  <2>2. v.status \in Statuses /\ w.status \in Statuses
    BY <1>0 DEF Versions, Records, Calls
  <2>3. st = w.status
    BY <1>5, <2>2, MergeCurrent
  <2>. HIDE DEF st
  <2>4. u = v
    <3>. HIDE DEF u
    <3>1. SUFFICES ASSUME u # v PROVE FALSE
      OBVIOUS
    <3>2. \E new : watch'[op][m] = Append(watch[op][m], new) /\ api'[m] = new
      <4>. DEFINE new == [u EXCEPT !.rv = v.rv + 1]
      <4>1. /\ api' = [api EXCEPT ![m] = new]
            /\ watch' = [o \in Operators |-> [watch[o] EXCEPT ![m] = Append(@, new)]]
        BY <2>1, <3>1 DEF Write
      <4>. HIDE DEF new
      <4>. QED  BY <1>0, <4>1 DEF TypeOK
    <3>3. watch[op][m] \in Seq(Versions) /\ api'[m] \in Versions
      BY <1>0 DEF TypeOK
    <3>. QED  BY <1>2, <3>2, <3>3, AppendedSomething
  <2>5. u.status = st
    BY <1>0 DEF Versions, Records
  <2>. QED  BY <1>5, <1>9, <2>1, <2>3, <2>4, <2>5
<1>. QED  BY <1>7, <1>8, <1>9

\* Whatever step leaves an operator with nothing to do or to hear of a
\* manifest that exists: it was so before, or the step is such a patch.
LEMMA BecomesSettled ==
  ASSUME TypeOK, TypeOK', [Next]_vars, NEW op \in Operators, NEW m \in Manifests,
         Sync(op, m), Reading(op, m), Settled(op, m)'
  PROVE  /\ api'[m] = api[m]
         /\ api[m].exists => env'[op] = env[op]
         /\ \/ Settled(op, m)
            \/ ~api[m].exists
            \/ /\ Work(op) /\ PatchStatus(op) /\ work[op].m = m /\ work[op].pc = "status"
               /\ ~work[op].retry /\ work[op].copy = api[m] /\ api[m].status = work[op].status
<1>. DEFINE Fits ==
         /\ api'[m] = api[m]
         /\ api[m].exists => env'[op] = env[op]
         /\ \/ Settled(op, m)
            \/ ~api[m].exists
            \/ /\ Work(op) /\ PatchStatus(op) /\ work[op].m = m /\ work[op].pc = "status"
               /\ ~work[op].retry /\ work[op].copy = api[m] /\ api[m].status = work[op].status
<1>0. /\ watch'[op][m] = <<>> /\ m \notin queue'[op]
      /\ work'[op].pc = "idle" \/ work'[op].m # m
  BY DEF Settled, OnCall
<1>1. ASSUME Users \/ CollectGarbage \/ UNCHANGED vars
      PROVE  Fits
  <2>1. Outside
    BY <1>1, OutsideSteps
  <2>2. api'[m] = api[m] /\ watch[op][m] = <<>>
    BY <1>0, <2>1, QuietWatch DEF Outside
  <2>. QED  BY <1>0, <2>1, <2>2 DEF Outside, Settled, OnCall
<1>2. ASSUME NEW o \in Operators, NEW k \in Manifests, Deliver(o, k)
      PROVE  Fits
  <2>1. o # op \/ k # m
    BY <1>0, <1>2, DeliverMoves
  <2>2. /\ UNCHANGED <<api, env, work>> /\ watch'[op][m] = watch[op][m]
        /\ queue[op] \subseteq queue'[op]
    BY <1>2, <2>1, DeliverMoves
  <2>. QED  BY <1>0, <2>2 DEF Settled, OnCall
<1>3. ASSUME NEW o \in Operators, NEW k \in Manifests, Begin(o, k)
      PROVE  Fits
  <2>1. PICK w : Take(o, k, w) /\ (w.pc # "idle" => w.m = k /\ w.copy = cache[o][k])
    BY <1>3, BeginTakes
  <2>2. UNCHANGED <<api, env, cache, watch>>
    BY <2>1, TakeMoves
  <2>3. CASE o # op
    <3>1. work'[op] = work[op] /\ queue'[op] = queue[op]
      BY <2>1, <2>3, TakeMoves
    <3>. QED  BY <1>0, <2>2, <3>1 DEF Settled, OnCall
  <2>4. CASE o = op /\ k # m
    <3>1. work[op].pc = "idle" /\ queue'[op] = queue[op] \ {k}
      BY <2>1, <2>4, TakeMoves
    <3>. QED  BY <1>0, <2>2, <2>4, <3>1 DEF Settled, OnCall
  <2>5. CASE o = op /\ k = m
    <3>1. work'[op] = w
      BY <2>1, <2>5, TakeMoves
    <3>2. w.pc = "idle"
      BY <1>0, <2>1, <2>5, <3>1
    <3>3. cache[op][m] = api[m]
      BY <1>0, <2>2 DEF Sync
    <3>4. ReconcileNothing(op, m)
      <4>1. \A pc \in {"addFinalizer", "apply", "list", "status"} : Call(op, m, pc).pc = pc
        BY CallTyped
      <4>2. \A c \in Calls : \A phase, msg, res, retry : StatusCall(c, phase, msg, res, retry).pc = "status"
        BY DEF StatusCall, Calls
      <4>3. Call(op, m, "status") \in Calls
        BY CallTyped
      <4>4. ReconcileDeleting(op, m) \/ ReconcileUnfinalized(op, m) \/ ReconcileValid(op, m) => FALSE
        BY <2>5, <3>1, <3>2, <4>1, TakeMoves
           DEF ReconcileDeleting, ReconcileUnfinalized, ReconcileValid
      <4>. DEFINE c == Call(op, m, "status")
      <4>5. ASSUME NEW phase, NEW msg, Take(op, m, StatusCall(c, phase, msg, <<>>, FALSE))
            PROVE  FALSE
        <5>1. work'[op] = StatusCall(c, phase, msg, <<>>, FALSE)
          BY <4>5, TakeMoves
        <5>2. c \in Calls
          BY <4>3
        <5>. HIDE DEF c
        <5>3. StatusCall(c, phase, msg, <<>>, FALSE).pc = "status"
          BY <4>2, <5>2
        <5>. QED  BY <3>1, <3>2, <5>1, <5>3
      <4>6. ReconcileForbidden(op, m) \/ ReconcileInvalid(op, m) => FALSE
        BY <4>5 DEF ReconcileForbidden, ReconcileInvalid
      <4>. QED  BY <1>3, <2>5, <4>4, <4>6 DEF Begin
    <3>5. ~api[m].exists
      <4>1. api[m] \in Versions
        BY DEF TypeOK
      <4>. QED  BY <3>3, <3>4, <4>1 DEF ReconcileNothing, Versions
    <3>. QED  BY <2>2, <3>5
  <2>. QED  BY <2>3, <2>4, <2>5
<1>4. ASSUME NEW o \in Operators, Restart(o)
      PROVE  Fits
  <2>1. CASE o = op
    BY <1>0, <1>4, <2>1, RestartMoves
  <2>2. CASE o # op
    <3>1. /\ api' = api /\ work'[op] = work[op] /\ queue'[op] = queue[op]
          /\ watch'[op] = watch[op] /\ env'[op] = env[op]
      BY <1>4, <2>2, RestartMoves
    <3>. QED  BY <1>0, <3>1 DEF Settled, OnCall
  <2>. QED  BY <2>1, <2>2
<1>5. ASSUME NEW o \in Operators, Work(o)
      PROVE  Fits
  <2>1. WorkStep(o)
    BY <1>5, WorkSteps
  <2>2. api'[m] = api[m] /\ watch[op][m] = <<>> /\ env' = env /\ m \notin queue[op]
    BY <1>0, <2>1, QuietWatch DEF WorkStep
  <2>3. CASE o # op
    BY <1>0, <2>1, <2>2, <2>3 DEF WorkStep, Settled, OnCall
  <2>4. CASE o = op /\ ~OnCall(op, m)
    BY <2>2, <2>4 DEF Settled
  <2>5. CASE o = op /\ OnCall(op, m) /\ api[m].exists
    <3>1. work[op].m = m
      BY <2>5 DEF OnCall
    <3>. QED  BY <1>5, <2>2, <2>5, <3>1, DoneIsRight
  <2>. QED  BY <2>2, <2>3, <2>4, <2>5
<1>6. Fits
  <2>. HIDE DEF Fits
  <2>. QED  BY <1>1, <1>2, <1>3, <1>4, <1>5 DEF Next
<1>. QED  BY <1>6 DEF Fits

LEMMA SettledRightStep ==
  ASSUME TypeOK, TypeOK', [Next]_vars, NEW op \in Operators, NEW m \in Manifests,
         Sync(op, m), Reading(op, m), SettledRight(op, m), CallRight(work[op], env[op])
  PROVE  SettledRight(op, m)'
<1>. SUFFICES ASSUME Settled(op, m)', api'[m].exists
              PROVE  RightStatus(m, api'[m], env'[op], api'[m].status)
  BY DEF SettledRight
<1>1. /\ api'[m] = api[m] /\ env'[op] = env[op]
      /\ \/ Settled(op, m)
         \/ /\ work[op].m = m /\ work[op].pc = "status"
            /\ ~work[op].retry /\ work[op].copy = api[m] /\ api[m].status = work[op].status
  BY BecomesSettled
<1>2. RightStatus(m, api[m], env[op], api[m].status)
  BY <1>1 DEF SettledRight, CallRight
<1>. QED  BY <1>1, <1>2

LEMMA StatusInit ==
  ASSUME Init
  PROVE  StatusInvariant
<1>1. ASSUME NEW op \in Operators, NEW m \in Manifests
      PROVE  Sync(op, m) /\ Reading(op, m) /\ SettledRight(op, m)
  <2>1. /\ api[m] = NoManifest(0) /\ cache[op][m] = api[m] /\ watch[op][m] = <<>>
        /\ work[op].pc = "idle" /\ ~NoManifest(0).exists
    BY DEF Init, Idle, NoManifest
  <2>. QED  BY <2>1 DEF Sync, Reading, OnCall, SettledRight
<1>2. ASSUME NEW op \in Operators
      PROVE  CallRight(work[op], env[op])
  <2>1. work[op].pc = "idle"
    BY DEF Init, Idle
  <2>. QED  BY <2>1 DEF CallRight
<1>. QED  BY <1>1, <1>2 DEF StatusInvariant

LEMMA StatusStep ==
  ASSUME TypeOK, TypeOK', [Next]_vars, StatusInvariant
  PROVE  StatusInvariant'
<1>1. ASSUME NEW op \in Operators, NEW m \in Manifests
      PROVE  (Sync(op, m) /\ Reading(op, m) /\ SettledRight(op, m))'
  <2>1. Sync(op, m) /\ Reading(op, m) /\ SettledRight(op, m) /\ CallRight(work[op], env[op])
    BY DEF StatusInvariant
  <2>. QED  BY <2>1, SyncStep, ReadingStep, SettledRightStep
<1>2. ASSUME NEW op \in Operators
      PROVE  CallRight(work[op], env[op])'
  BY CallRightStep DEF StatusInvariant
<1>. QED  BY <1>1, <1>2 DEF StatusInvariant

\* For any operators, environments, users, faults and restarts.
LEMMA StatusSafe == Spec => []StatusInvariant
<1>1. Init => StatusInvariant
  BY StatusInit
<1>2. TypeOK /\ TypeOK' /\ StatusInvariant /\ [Next]_vars => StatusInvariant'
  BY StatusStep
<1>. QED  BY <1>1, <1>2, TypeCorrect, PTL DEF Spec

(***************************************************************************)
(* The objects                                                             *)
(***************************************************************************)

\* Manifests that get in each other's way neither by a common object nor by
\* the sweep of a common label: no two in one namespace, no namesakes and no
\* two with a Microcks backend, whose objects share the system namespace.
Apart ==
  \A m, n \in Manifests : m # n =>
    \A s, t \in StoredSpecs : \A o \in ToSet(Desired(m, s)) :
       /\ o.owner = n.name => o.ns \notin {n.ns, SystemNamespace}
       /\ \A p \in ToSet(Desired(n, t)) : Key(o) # Key(p)

\* The j-th object of the current version is there.
Present(m, j) ==
  LET o == Desired(m, api[m].spec)[j]
  IN  [obj |-> o, refs |-> OwnerRefs(m, api[m], o)] \in objs

\* The call has yet to apply the j-th object of m, or will be repeated.
CallOwes(w, m, j) ==
  /\ w.pc # "idle" /\ w.m = m
  /\ \/ w.pc \in {"addFinalizer", "list", "delete", "removeFinalizer"}
     \/ w.pc = "apply" /\ w.i <= j
     \/ w.pc = "status" /\ w.retry

\* The operator has yet to deal with m, or refuses to (and says so).
Owes(op, m, j) ==
  IsProd(env[op]) \/ m \in queue[op] \/ watch[op][m] # <<>> \/ CallOwes(work[op], m, j)

\* What a manifest wants is there, or somebody still has to see to it.
Covered(op, m) ==
  api[m].exists /\ Admitted(api[m].spec, api[m].prod, env[op]) =>
    \A j \in 1..Len(Desired(m, api[m].spec)) :
       Present(m, j) \/ \E p \in Operators : Owes(p, m, j)

\* What a sweep is about to delete is wanted by no other manifest.
ItemsApart(w) ==
  w.pc = "delete" =>
    \A n \in Manifests \ {w.m}, s \in StoredSpecs :
      \A o \in ToSet(Desired(n, s)) : Key(o) \notin w.items

ObjectsInvariant ==
  /\ \A op \in Operators : ItemsApart(work[op])
  /\ budget["tamper"] <= Budget["tamper"]
  /\ Untouched => \A op \in Operators, m \in Manifests : Covered(op, m)

\* The j-th desired object, as an element.
LEMMA DesiredAt ==
  ASSUME NEW m, NEW s \in StoredSpecs, NEW j \in 1..Len(Desired(m, s))
  PROVE  Desired(m, s)[j] \in ToSet(Desired(m, s))
<1>1. DOMAIN Desired(m, s) = 1..Len(Desired(m, s))
  BY DesiredOwned
<1>. QED  BY <1>1 DEF ToSet

\* A sweep looks at the two namespaces of its manifest only.
LEMMA SweepPlaces ==
  ASSUME NEW m, NEW i \in 1..Len(SweepPlan(m))
  PROVE  SweepPlan(m)[i][1] \in {m.ns, SystemNamespace}
<1>. DEFINE l == Len(Namespaces(m))
            ns(h) == Namespaces(m)[((h - 1) \div 4) + 1]
            kind(h) == KindOrder[((h - 1) % 4) + 1]
<1>1. SweepPlan(m) = [h \in 1..(4 * l) |-> <<ns(h), kind(h)>>]
  BY DEF SweepPlan
<1>2. Len(SweepPlan(m)) = 4 * l
  BY SweepPlanLength
<1>3. l \in {1, 2} /\ \A n \in 1..l : Namespaces(m)[n] \in {m.ns, SystemNamespace}
  BY DEF Namespaces
<1>4. ((i - 1) \div 4) + 1 \in 1..l
  <2>. HIDE DEF l
  <2>. QED  BY <1>2, <1>3
<1>5. ns(i) \in {m.ns, SystemNamespace}
  BY <1>3, <1>4
<1>. HIDE DEF l, ns, kind
<1>6. SweepPlan(m)[i] = <<ns(i), kind(i)>>
  BY <1>1, <1>2
<1>. QED  BY <1>5, <1>6

\* What a sweep of m finds is wanted by no other manifest.
LEMMA LabelledApart ==
  ASSUME TypeOK, Apart, NEW m \in Manifests, NEW i \in 1..Len(SweepPlan(m)),
         NEW n \in Manifests \ {m}, NEW s \in StoredSpecs, NEW o \in ToSet(Desired(n, s))
  PROVE  Key(o) \notin Labelled(m, SweepPlan(m)[i])
<1>. DEFINE place == SweepPlan(m)[i]
<1>1. place[1] \in {m.ns, SystemNamespace}
  BY SweepPlaces
<1>. SUFFICES ASSUME Key(o) \in Labelled(m, place) PROVE FALSE
  OBVIOUS
<1>. HIDE DEF place
<1>2. PICK x \in objs : x.obj.ns = place[1] /\ x.obj.owner = m.name /\ Key(o) = Key(x.obj)
  BY DEF Labelled
<1>3. x.obj \in Objects
  BY DEF TypeOK
<1>4. CASE x.obj \in ForeignObjects
  <2>1. x.obj.owner = ""
    BY <1>4, ForeignParts DEF ForeignObjects
  <2>. QED  BY <1>2, <2>1, NamesGiven
<1>5. CASE x.obj \in GeneratedObjects
  <2>1. PICK k \in Manifests, t \in StoredSpecs : x.obj \in ToSet(Desired(k, t))
    BY <1>5 DEF GeneratedObjects, DesiredLists
  <2>2. CASE k = m
    BY <1>2, <2>1, <2>2 DEF Apart
  <2>3. CASE k # m
    BY <1>1, <1>2, <2>1, <2>3 DEF Apart
  <2>. QED  BY <2>2, <2>3
<1>. QED  BY <1>3, <1>4, <1>5 DEF Objects

\* How a call goes on.
CallGoesOn(op) ==
  LET w == work[op]
      next == work'[op]
  IN  /\ w.pc = "addFinalizer" => w.m \in queue'[op]
      /\ w.pc \in {"list", "delete"} =>
           \/ w.m \in queue'[op]
           \/ next.m = w.m /\ next.pc \in {"list", "delete", "removeFinalizer"}
      /\ w.pc = "removeFinalizer" =>
           w.m \in queue'[op] \/ (RemoveFinalizer(op) /\ UpdateAccepted(w))
      /\ w.pc = "apply" => next \in {AfterApply(w), ApplyFailed(w)}
      /\ next.pc = "apply" => w.pc = "apply" /\ ApplyObject(op) /\ next = AfterApply(w)
      /\ w.pc = "status" /\ w.retry => w.m \in queue'[op]
      /\ next.pc = "delete" =>
           /\ next.m = w.m /\ next.i = w.i
           /\ \/ w.pc = "delete" /\ next.items \subseteq w.items
              \/ /\ w.pc = "list" /\ w.i \in 1..Len(SweepPlan(w.m))
                 /\ next.items = Labelled(w.m, SweepPlan(w.m)[w.i])

LEMMA CallsGoOn ==
  ASSUME TypeOK, NEW op \in Operators, Work(op)
  PROVE  CallGoesOn(op)
<1>. DEFINE w == work[op]
<1>0. w \in Calls /\ w.m \in Manifests /\ CallOK(w)
  BY DEF TypeOK, Calls
<1>1. ASSUME Requeue(op)
      PROVE  work'[op].pc = "idle" /\ w.m \in queue'[op]
  <2>1. w.m \in queue'[op]
    BY <1>0, <1>1 DEF Requeue, TypeOK
  <2>. QED  BY <1>1, <2>1, EndsIdle
<1>2. ASSUME Finish(op)
      PROVE  work'[op].pc = "idle"
  BY <1>2, EndsIdle
<1>3. CASE AddFinalizer(op) \/ CallFails(op)
  <2>1. Requeue(op) /\ w.pc # "apply"
    BY <1>3 DEF AddFinalizer, CallFails
  <2>. QED  BY <1>1, <2>1 DEF CallGoesOn
<1>4. CASE PatchStatus(op)
  <2>1. w.pc = "status" /\ (Requeue(op) \/ (Finish(op) /\ ~w.retry))
    BY <1>4 DEF PatchStatus, Answered
  <2>. QED  BY <1>1, <1>2, <2>1 DEF CallGoesOn
<1>5. CASE RemoveFinalizer(op)
  <2>1. w.pc = "removeFinalizer" /\ (Requeue(op) \/ (Finish(op) /\ UpdateAccepted(w)))
    BY <1>5 DEF RemoveFinalizer, Answered
  <2>. QED  BY <1>1, <1>2, <1>5, <2>1 DEF CallGoesOn
<1>6. CASE ApplyObject(op) \/ ApplyFails(op)
  <2>1. /\ w.pc = "apply" /\ work'[op] \in {AfterApply(w), ApplyFailed(w)}
        /\ ApplyObject(op) \/ work'[op] = ApplyFailed(w)
    BY <1>6, GoesOn DEF ApplyObject, ApplyFails, Answered
  <2>2. work'[op].pc # "delete" /\ ApplyFailed(w).pc = "status"
    BY <1>0, <2>1, CallCarried
  <2>. QED  BY <2>1, <2>2 DEF CallGoesOn
<1>7. NextPlace(w).m = w.m /\ NextPlace(w).pc \in {"list", "removeFinalizer"}
  BY <1>0, CallCarried, NextPlacePc
<1>8. CASE ListOwned(op)
  <2>. DEFINE items == Labelled(w.m, SweepPlan(w.m)[w.i])
              c == [w EXCEPT !.pc = "delete", !.items = items]
  <2>1. w.pc = "list" /\ (work'[op] = NextPlace(w) \/ work'[op] = c)
    BY <1>8, GoesOn DEF ListOwned
  <2>2. w.i \in 1..Len(SweepPlan(w.m))
    BY <1>0, <2>1 DEF CallOK
  <2>3. PICK listed : listed = items
    OBVIOUS
  <2>. HIDE DEF items
  <2>4. c.m = w.m /\ c.pc = "delete" /\ c.items = items /\ c.i = w.i
    BY <1>0, CallCarried
  <2>. HIDE DEF c
  <2>5. /\ work'[op].m = w.m /\ work'[op].pc \in {"list", "delete", "removeFinalizer"}
        /\ work'[op].pc = "delete" => work'[op].items = items /\ work'[op].i = w.i
    BY <1>7, <2>1, <2>4
  <2>. QED  BY <2>1, <2>2, <2>5 DEF CallGoesOn, items
<1>9. CASE ListNoMatch(op)
  <2>1. w.pc = "list" /\ work'[op] = NextPlace(w)
    BY <1>9, GoesOn DEF ListNoMatch
  <2>. QED  BY <1>7, <2>1 DEF CallGoesOn
<1>10. ASSUME NEW k \in w.items, DeleteOwned(op, k)
       PROVE  CallGoesOn(op)
  <2>. DEFINE rest == w.items \ {k}
              c == [w EXCEPT !.items = rest]
  <2>1. w.pc = "delete" /\ (Requeue(op) \/ work'[op] = NextPlace(w) \/ work'[op] = c)
    BY <1>10, GoesOn DEF DeleteOwned, Answered
  <2>2. rest \subseteq w.items
    OBVIOUS
  <2>. HIDE DEF rest
  <2>3. c.m = w.m /\ c.pc = w.pc /\ c.items = rest /\ c.i = w.i
    BY <1>0, CallCarried
  <2>. HIDE DEF c
  <2>4. CASE work'[op] = c
    <3>1. /\ work'[op].m = w.m /\ work'[op].i = w.i
          /\ work'[op].pc = "delete" /\ work'[op].items \subseteq w.items
      BY <2>1, <2>2, <2>3, <2>4
    <3>. QED  BY <2>1, <3>1 DEF CallGoesOn
  <2>5. CASE work'[op] = NextPlace(w)
    BY <1>7, <2>1, <2>5 DEF CallGoesOn
  <2>6. CASE Requeue(op)
    BY <1>1, <2>1, <2>6 DEF CallGoesOn
  <2>. QED  BY <2>1, <2>4, <2>5, <2>6
<1>. QED  BY <1>3, <1>4, <1>5, <1>6, <1>8, <1>9, <1>10 DEF Work

\* A call that works on something else than the current version is followed
\* by another.
LEMMA StaleOwes ==
  ASSUME NEW op \in Operators, NEW m \in Manifests, OnCall(op, m), Sync(op, m), Reading(op, m)
  PROVE  work[op].copy = api[m] \/ m \in queue[op] \/ watch[op][m] # <<>>
BY DEF Sync, Reading

\* A call that begins on the current version of an admitted manifest does
\* something about its objects.
LEMMA BeginOwes ==
  ASSUME TypeOK, NEW op \in Operators, NEW m \in Manifests, Begin(op, m),
         cache[op][m] = api[m], api[m].exists, ~IsProd(env[op]),
         NEW e, Admitted(api[m].spec, api[m].prod, e),
         NEW j \in Nat \ {0}
  PROVE  CallOwes(work'[op], m, j)
<1>. DEFINE v == api[m]
<1>1. \A pc \in {"addFinalizer", "apply", "list"} :
        Call(op, m, pc).pc = pc /\ Call(op, m, pc).m = m /\ Call(op, m, pc).i = 1
  BY CallTyped
<1>2. CASE ReconcileNothing(op, m)
  <2>1. v \in Versions
    BY DEF TypeOK
  <2>. QED  BY <1>2, <2>1 DEF ReconcileNothing, Versions
<1>3. CASE ReconcileForbidden(op, m)
  BY <1>3 DEF ReconcileForbidden
<1>4. CASE ReconcileInvalid(op, m)
  <2>1. Denials(v.spec, v.prod, env[op]) # {}
    BY <1>4 DEF ReconcileInvalid
  <2>2. Denials(v.spec, v.prod, e) # {}
    BY <2>1 DEF Denials
  <2>. QED  BY <2>2 DEF Admitted
<1>5. CASE ReconcileDeleting(op, m) \/ ReconcileUnfinalized(op, m) \/ ReconcileValid(op, m)
  <2>1. \E pc \in {"addFinalizer", "apply", "list"} : work'[op] = Call(op, m, pc)
    BY <1>5, TakeMoves DEF ReconcileDeleting, ReconcileUnfinalized, ReconcileValid
  <2>. QED  BY <1>1, <2>1 DEF CallOwes
<1>. QED  BY <1>2, <1>3, <1>4, <1>5 DEF Begin

\* The next step of an apply, for the object at hand and the later ones.
LEMMA ApplyGoesOn ==
  ASSUME NEW w \in Calls, w.pc = "apply", NEW m, w.m = m,
         NEW j \in 1..Len(Desired(m, w.copy.spec)), w.i < j
  PROVE  CallOwes(AfterApply(w), m, j)
<1>1. w.i \in Nat /\ Len(Desired(m, w.copy.spec)) \in Nat
  BY DEF Calls
<1>. DEFINE next == w.i + 1
            a == [w EXCEPT !.i = next]
<1>2. w.i < Len(Desired(m, w.copy.spec)) /\ next <= j
  BY <1>1
<1>3. AfterApply(w) = a
  BY <1>2 DEF AfterApply
<1>. HIDE DEF next
<1>4. a.pc = "apply" /\ a.m = m /\ a.i = next
  BY DEF Calls
<1>. HIDE DEF a
<1>. QED  BY <1>2, <1>3, <1>4 DEF CallOwes

LEMMA FailedOwes ==
  ASSUME NEW w \in Calls, NEW m, w.m = m, NEW j
  PROVE  CallOwes(ApplyFailed(w), m, j)
<1>. DEFINE st == Status("Error", Message("apply", w.i), Names(Desired(w.m, w.copy.spec)), w.copy.gen)
            yes == TRUE
            c == [w EXCEPT !.pc = "status", !.retry = yes, !.status = st]
<1>1. ApplyFailed(w) = c
  BY DEF ApplyFailed, StatusCall
<1>. HIDE DEF st, yes
<1>2. c.pc = "status" /\ c.m = m /\ c.retry = yes
  BY DEF Calls
<1>. HIDE DEF c
<1>. QED  BY <1>1, <1>2 DEF CallOwes, yes

\* A finalizer that is removed from the current version takes the manifest away.
LEMMA RemovalEnds ==
  ASSUME TypeOK, NEW op \in Operators, NEW m \in Manifests, RemoveFinalizer(op),
         work[op].m = m, UpdateAccepted(work[op]), work[op].copy = api[m], api[m].exists
  PROVE  ~api'[m].exists
<1>. DEFINE v == api[m]
            none == NoManifest(v.rv)
            u == [v EXCEPT !.fin = FALSE]
            new == [none EXCEPT !.rv = v.rv + 1]
<1>1. u.rv = v.rv /\ ~u.fin
  BY DEF TypeOK, Versions, Records
<1>2. Write(m, none)
  BY <1>1 DEF RemoveFinalizer, Discard
<1>3. ~none.exists /\ ~new.exists
  BY DEF NoManifest
<1>. HIDE DEF none
<1>4. api' = [api EXCEPT ![m] = new]
  BY <1>2, <1>3 DEF Write
<1>. HIDE DEF new
<1>. QED  BY <1>3, <1>4 DEF TypeOK

\* Who owed an object of a manifest that stays as it is has applied it, or
\* owes it still.
LEMMA OwesStep ==
  ASSUME TypeOK, TypeOK', [Next]_vars,
         NEW op \in Operators, NEW m \in Manifests, NEW j \in 1..Len(Desired(m, api[m].spec)),
         api'[m] = api[m], api[m].exists,
         NEW e, Admitted(api[m].spec, api[m].prod, e),
         Sync(op, m), Reading(op, m), Owes(op, m, j)
  PROVE  Present(m, j)' \/ Owes(op, m, j)'
<1>. DEFINE w == work[op]
            Stays == Present(m, j)' \/ Owes(op, m, j)'
<1>0. w \in Calls /\ api[m] \in Versions /\ api[m].spec \in StoredSpecs
      /\ watch[op][m] \in Seq(Versions) /\ api'[m] \in Versions
  BY DEF TypeOK, Versions
<1>1. Append(watch[op][m], api'[m]) # <<>> /\ j \in Nat \ {0}
  BY <1>0, AppendedSomething, DesiredOwned
<1>2. ASSUME AsWritten
      PROVE  watch'[op][m] = watch[op][m] \/ watch'[op][m] # <<>>
  BY <1>1, <1>2 DEF AsWritten
<1>3. ASSUME env'[op] = env[op], work'[op] = work[op], queue[op] \subseteq queue'[op],
             watch'[op][m] = watch[op][m] \/ watch'[op][m] # <<>>
      PROVE  Stays
  BY <1>3 DEF Owes
<1>4. CASE Users \/ CollectGarbage \/ UNCHANGED vars
  BY <1>2, <1>3, <1>4, OutsideSteps DEF Outside
<1>5. ASSUME NEW o \in Operators, NEW k \in Manifests, Deliver(o, k)
      PROVE  Stays
  <2>1. CASE o = op /\ k = m
    <3>1. m \in queue'[op]
      BY <1>5, <2>1, DeliverMoves
    <3>. QED  BY <3>1 DEF Owes
  <2>2. CASE o # op \/ k # m
    BY <1>3, <1>5, <2>2, DeliverMoves
  <2>. QED  BY <2>1, <2>2
<1>6. ASSUME NEW o \in Operators, NEW k \in Manifests, Begin(o, k)
      PROVE  Stays
  <2>1. PICK c : Take(o, k, c)
    BY <1>6, BeginTakes
  <2>2. UNCHANGED <<api, env, cache, watch>>
    BY <2>1, TakeMoves
  <2>3. CASE o # op
    <3>1. work'[op] = work[op] /\ queue'[op] = queue[op]
      BY <2>1, <2>3, TakeMoves
    <3>. QED  BY <1>3, <2>2, <3>1
  <2>4. CASE o = op
    <3>1. work[op].pc = "idle" /\ queue'[op] = queue[op] \ {k}
      BY <2>1, <2>4, TakeMoves
    <3>2. CASE IsProd(env[op]) \/ watch[op][m] # <<>> \/ (m \in queue[op] /\ k # m)
      BY <2>2, <3>1, <3>2 DEF Owes
    <3>3. CASE ~IsProd(env[op]) /\ watch[op][m] = <<>> /\ k = m
      <4>1. cache[op][m] = api[m]
        BY <3>3 DEF Sync
      <4>2. CallOwes(work'[op], m, j)
        BY <1>1, <1>6, <2>4, <3>3, <4>1, BeginOwes
      <4>. QED  BY <4>2 DEF Owes
    <3>. QED  BY <3>1, <3>2, <3>3 DEF Owes, CallOwes
  <2>. QED  BY <2>3, <2>4
<1>7. ASSUME NEW o \in Operators, Work(o)
      PROVE  Stays
  <2>1. WorkStep(o)
    BY <1>7, WorkSteps
  <2>2. /\ env' = env /\ queue[op] \subseteq queue'[op]
        /\ watch'[op][m] = watch[op][m] \/ watch'[op][m] # <<>>
    BY <1>2, <2>1 DEF WorkStep
  <2>3. CASE o # op
    BY <1>3, <2>1, <2>2, <2>3 DEF WorkStep
  <2>4. CASE o = op /\ (IsProd(env[op]) \/ m \in queue[op] \/ watch[op][m] # <<>>)
    BY <2>2, <2>4 DEF Owes
  <2>5. CASE m \in queue'[op]
    BY <2>5 DEF Owes
  <2>6. CASE o = op /\ ~IsProd(env[op]) /\ m \notin queue'[op] /\ watch[op][m] = <<>>
    <3>1. CallOwes(w, m, j) /\ w.pc # "idle" /\ w.m = m /\ CallGoesOn(op) /\ m \notin queue[op]
      BY <1>7, <2>2, <2>6, CallsGoOn DEF Owes, CallOwes
    <3>2. w.copy = api[m]
      BY <2>6, <3>1, StaleOwes DEF OnCall
    <3>3. CASE w.pc \in {"list", "delete"}
      <4>1. CallOwes(work'[op], m, j)
        BY <2>6, <3>1, <3>3 DEF CallGoesOn, CallOwes
      <4>. QED  BY <4>1 DEF Owes
    <3>4. CASE w.pc = "removeFinalizer"
      <4>1. RemoveFinalizer(op) /\ UpdateAccepted(w)
        BY <2>6, <3>1, <3>4 DEF CallGoesOn
      <4>2. ~api'[m].exists
        BY <1>0, <3>1, <3>2, <4>1, RemovalEnds
      <4>. QED  BY <4>2
    <3>5. CASE w.pc = "apply" /\ w.i <= j
      <4>1. work'[op] = AfterApply(w) \/ work'[op] = ApplyFailed(w)
        BY <3>1, <3>5 DEF CallGoesOn
      <4>2. CASE work'[op] = ApplyFailed(w)
        <5>1. CallOwes(work'[op], m, j)
          BY <1>0, <3>1, <4>2, FailedOwes
        <5>. QED  BY <5>1 DEF Owes
      <4>3. CASE work'[op] = AfterApply(w) /\ w.i < j
        <5>1. CallOwes(work'[op], m, j)
          BY <1>0, <3>1, <3>2, <3>5, <4>3, ApplyGoesOn
        <5>. QED  BY <5>1 DEF Owes
      <4>4. CASE work'[op] = AfterApply(w) /\ w.i = j
        <5>1. ApplyObject(op) \/ ApplyFails(op)
          BY <1>7, <2>6, <3>5 DEF Work, AddFinalizer, PatchStatus, ListOwned, ListNoMatch,
             RemoveFinalizer, CallFails, DeleteOwned
        <5>2. CASE ApplyObject(op)
          <6>1. Present(m, j)'
            BY <3>1, <3>2, <4>4, <5>2 DEF ApplyObject, Present
          <6>. QED  BY <6>1
        <5>3. CASE ApplyFails(op)
          <6>1. work'[op] = ApplyFailed(w)
            BY <5>3, GoesOn DEF ApplyFails
          <6>2. CallOwes(work'[op], m, j)
            BY <1>0, <3>1, <6>1, FailedOwes
          <6>. QED  BY <6>2 DEF Owes
        <5>. QED  BY <5>1, <5>2, <5>3
      <4>5. w.i \in Nat /\ j \in Nat
        BY <1>0, <1>1 DEF Calls
      <4>. QED  BY <3>5, <4>1, <4>2, <4>3, <4>4, <4>5
    <3>. QED  BY <2>6, <3>1, <3>3, <3>4, <3>5 DEF CallOwes, CallGoesOn
  <2>. QED  BY <2>3, <2>4, <2>5, <2>6
<1>8. ASSUME NEW o \in Operators, Restart(o)
      PROVE  Stays
  <2>1. CASE o = op
    <3>1. m \in queue'[op]
      BY <1>8, <2>1, RestartMoves
    <3>. QED  BY <3>1 DEF Owes
  <2>2. CASE o # op
    BY <1>3, <1>8, <2>2, RestartMoves
  <2>. QED  BY <2>1, <2>2
<1>9. Stays
  <2>. HIDE DEF Stays
  <2>1. CASE Users \/ CollectGarbage \/ UNCHANGED vars
    BY <1>4, <2>1 DEF Stays
  <2>. QED  BY <1>5, <1>6, <1>7, <1>8, <2>1 DEF Next
<1>. QED  BY <1>9 DEF Stays

LEMMA ItemsApartStep ==
  ASSUME TypeOK, Apart, [Next]_vars, NEW op \in Operators, ItemsApart(work[op])
  PROVE  ItemsApart(work[op])'
<1>. DEFINE w == work[op]
<1>1. CASE work'[op] = work[op]
  <2>1. PICK v : v = work[op]
    OBVIOUS
  <2>. QED  BY <1>1, <2>1
<1>2. CASE work'[op].pc # "delete"
  BY <1>2 DEF ItemsApart
<1>3. CASE Users \/ CollectGarbage \/ UNCHANGED vars
  BY <1>1, <1>3, OutsideSteps DEF Outside
<1>4. ASSUME NEW o \in Operators, NEW k \in Manifests, Deliver(o, k)
      PROVE  ItemsApart(work[op])'
  BY <1>1, <1>4, DeliverMoves
<1>5. ASSUME NEW o \in Operators, NEW k \in Manifests, Begin(o, k)
      PROVE  ItemsApart(work[op])'
  <2>1. PICK c : Take(o, k, c) /\ (c.pc \in {"list", "delete", "removeFinalizer"} => c.pc = "list")
    BY <1>5, BeginTakes
  <2>2. CASE o = op
    <3>1. work'[op] = c /\ c.pc # "delete"
      BY <2>1, <2>2, TakeMoves
    <3>. QED  BY <1>2, <3>1
  <2>3. CASE o # op
    BY <1>1, <2>1, <2>3, TakeMoves
  <2>. QED  BY <2>2, <2>3
<1>6. ASSUME NEW o \in Operators, Restart(o)
      PROVE  ItemsApart(work[op])'
  <2>1. CASE o = op
    <3>1. work'[op] = Idle /\ Idle.pc = "idle"
      BY <1>6, <2>1, RestartMoves DEF Idle
    <3>. QED  BY <1>2, <3>1
  <2>2. CASE o # op
    BY <1>1, <1>6, <2>2, RestartMoves
  <2>. QED  BY <2>1, <2>2
<1>7. ASSUME NEW o \in Operators, Work(o)
      PROVE  ItemsApart(work[op])'
  <2>1. CASE o # op
    BY <1>1, <1>7, <2>1, WorkSteps DEF WorkStep
  <2>2. CASE o = op /\ work'[op].pc = "delete"
    <3>. DEFINE found == Labelled(w.m, SweepPlan(w.m)[w.i])
    <3>1. /\ work'[op].m = w.m
          /\ \/ w.pc = "delete" /\ work'[op].items \subseteq w.items
             \/ /\ w.pc = "list" /\ w.i \in 1..Len(SweepPlan(w.m))
                /\ work'[op].items = found
      BY <1>7, <2>2, CallsGoOn DEF CallGoesOn
    <3>2. w.m \in Manifests
      BY DEF TypeOK, Calls
    <3>3. \A n \in Manifests \ {w.m}, s \in StoredSpecs : \A o2 \in ToSet(Desired(n, s)) :
             Key(o2) \notin work'[op].items
      <4>1. CASE w.pc = "delete" /\ work'[op].items \subseteq w.items
        BY <4>1 DEF ItemsApart
      <4>2. CASE w.i \in 1..Len(SweepPlan(w.m)) /\ work'[op].items = found
        <5>1. \A n \in Manifests \ {w.m}, s \in StoredSpecs : \A o2 \in ToSet(Desired(n, s)) :
                 Key(o2) \notin found
          BY <3>2, <4>2, LabelledApart
        <5>. HIDE DEF found
        <5>. QED  BY <4>2, <5>1
      <4>. QED  BY <3>1, <4>1, <4>2
    <3>. QED  BY <3>1, <3>3 DEF ItemsApart
  <2>. QED  BY <1>2, <2>1, <2>2
<1>. QED  BY <1>3, <1>4, <1>5, <1>6, <1>7 DEF Next

\* What an operator applies or deletes, and nothing else, disappears, if
\* nobody tampers and its owner lives.
LEMMA Removals ==
  ASSUME TypeOK, [Next]_vars, ~Tamper, NEW x \in objs, x \notin objs',
         x.refs = {} \/ \E r \in x.refs : api[r[1]].exists /\ api[r[1]].uid = r[2]
  PROVE  \E op \in Operators :
           \/ /\ ApplyObject(op)
              /\ Key(Desired(work[op].m, work[op].copy.spec)[work[op].i]) = Key(x.obj)
           \/ Work(op) /\ work[op].pc = "delete" /\ Key(x.obj) \in work[op].items
<1>1. CASE Users
  BY <1>1 DEF Users, CreateManifest, EditManifest, DeleteManifest
<1>2. CASE CollectGarbage \/ UNCHANGED vars
  BY <1>2 DEF CollectGarbage, vars
<1>3. CASE \E op \in Operators, m \in Manifests : Deliver(op, m) \/ Begin(op, m)
  BY <1>3, BeginTakes DEF Deliver, Take
<1>4. CASE \E op \in Operators : Restart(op)
  BY <1>4 DEF Restart
<1>5. ASSUME NEW op \in Operators, Work(op)
      PROVE  \/ /\ ApplyObject(op)
                /\ Key(Desired(work[op].m, work[op].copy.spec)[work[op].i]) = Key(x.obj)
             \/ Work(op) /\ work[op].pc = "delete" /\ Key(x.obj) \in work[op].items
  <2>1. CASE ApplyObject(op)
    <3>1. x \notin Without(Key(Desired(work[op].m, work[op].copy.spec)[work[op].i]))
      BY <2>1 DEF ApplyObject
    <3>. QED  BY <2>1, <3>1 DEF Without
  <2>2. ASSUME NEW k \in work[op].items, DeleteOwned(op, k)
        PROVE  work[op].pc = "delete" /\ Key(x.obj) \in work[op].items
    <3>1. x \notin Without(k) /\ work[op].pc = "delete"
      BY <2>2 DEF DeleteOwned
    <3>. QED  BY <3>1 DEF Without
  <2>3. CASE AddFinalizer(op) \/ ApplyFails(op) \/ PatchStatus(op) \/ ListOwned(op)
             \/ ListNoMatch(op) \/ RemoveFinalizer(op) \/ CallFails(op)
    BY <2>3 DEF AddFinalizer, ApplyFails, PatchStatus, ListOwned, ListNoMatch, RemoveFinalizer,
                CallFails
  <2>. QED  BY <1>5, <2>1, <2>2, <2>3 DEF Work
<1>. QED  BY <1>1, <1>2, <1>3, <1>4, <1>5 DEF Next

\* No two desired objects of an admitted manifest share a key.
LEMMA DesiredDistinct ==
  ASSUME NEW m \in Manifests, NEW s \in StoredSpecs, NEW p, NEW e, Admitted(s, p, e),
         NEW i \in 1..Len(Desired(m, s)), NEW j \in 1..Len(Desired(m, s)),
         Key(Desired(m, s)[i]) = Key(Desired(m, s)[j])
  PROVE  i = j
<1>1. IsSpec(s)
  BY SpecsAssumption, DefaultsAreSpecs DEF SpecsAssumption, StoredSpecs
<1>2. WellFormed(s)
  BY <1>1, AdmittedWellFormed
<1>3. DOMAIN Desired(m, s) = 1..Len(Desired(m, s))
  BY DesiredOwned
<1>. DEFINE G == Desired(m, s)
<1>4. G = Generate(m.ns, m.name, s)
  BY DEF Desired
<1>5. \A a, b \in DOMAIN G : Key(G[a]) = Key(G[b]) => a = b
  BY <1>1, <1>2, <1>4, WellFormedKeys
<1>. QED  BY <1>3, <1>5

\* An object that is there stays, or is owed.
LEMMA PresentStep ==
  ASSUME TypeOK, TypeOK', Apart, [Next]_vars, ~Tamper,
         NEW m \in Manifests, NEW j \in 1..Len(Desired(m, api[m].spec)),
         api'[m] = api[m], api[m].exists,
         NEW e, Admitted(api[m].spec, api[m].prod, e),
         \A op \in Operators : Sync(op, m) /\ Reading(op, m) /\ ItemsApart(work[op]),
         Present(m, j)
  PROVE  Present(m, j)' \/ \E op \in Operators : Owes(op, m, j)'
<1>. DEFINE v == api[m]
            d == Desired(m, v.spec)
            o == d[j]
            refs == OwnerRefs(m, v, o)
            x == [obj |-> o, refs |-> refs]
<1>0. v \in Versions /\ v.spec \in StoredSpecs /\ o \in ToSet(d)
  BY DesiredAt DEF TypeOK, Versions
<1>1. x \in objs /\ (x \in objs' => Present(m, j)')
  BY DEF Present
<1>2. x.refs = {} \/ \E r \in x.refs : api[r[1]].exists /\ api[r[1]].uid = r[2]
  <2>1. refs = {} \/ refs = {<<m, v.uid>>}
    BY DEF OwnerRefs
  <2>. HIDE DEF refs, o
  <2>2. x.refs = refs
    OBVIOUS
  <2>. QED  BY <2>1, <2>2
<1>3. x.obj = o
  <2>. HIDE DEF o, refs
  <2>. QED  OBVIOUS
<1>. SUFFICES ASSUME x \notin objs'
              PROVE  Present(m, j)' \/ \E op \in Operators : Owes(op, m, j)'
  BY <1>1
<1>4. PICK op \in Operators :
           \/ /\ ApplyObject(op)
              /\ Key(Desired(work[op].m, work[op].copy.spec)[work[op].i]) = Key(o)
           \/ Work(op) /\ work[op].pc = "delete" /\ Key(o) \in work[op].items
  <2>. HIDE DEF x, o
  <2>. QED  BY <1>1, <1>2, <1>3, Removals
<1>. DEFINE w == work[op]
<1>5. w \in Calls /\ w.m \in Manifests /\ CallOK(w) /\ w.copy \in Versions
  BY DEF TypeOK, Calls
<1>6. CASE ApplyObject(op) /\ Key(Desired(w.m, w.copy.spec)[w.i]) = Key(o)
  <2>. DEFINE c == Desired(w.m, w.copy.spec)
  <2>0. w.pc = "apply" /\ api' = api /\ watch' = watch /\ queue' = queue /\ Work(op)
    BY <1>6 DEF ApplyObject, Answered, GoOn, Work
  <2>1. w.copy.spec \in StoredSpecs /\ w.i \in 1..Len(c)
    BY <1>5, <2>0 DEF CallOK, Versions
  <2>2. c[w.i] \in ToSet(c)
    BY <2>1, DesiredAt
  <2>3. w.m = m
    <3>1. SUFFICES ASSUME w.m # m PROVE FALSE
      OBVIOUS
    <3>. QED  BY <1>0, <1>5, <1>6, <2>1, <2>2, <3>1 DEF Apart
  <2>4. w.copy = v \/ m \in queue[op] \/ watch[op][m] # <<>>
    BY <2>0, <2>3, StaleOwes DEF OnCall
  <2>5. CASE w.copy = v
    <3>1. w.i = j
      BY <1>0, <1>6, <2>1, <2>3, <2>5, DesiredDistinct
    <3>2. Present(m, j)'
      BY <1>6, <2>3, <2>5, <3>1 DEF ApplyObject, Present
    <3>. QED  BY <3>2
  <2>6. CASE m \in queue[op] \/ watch[op][m] # <<>>
    BY <2>0, <2>6 DEF Owes
  <2>. QED  BY <2>4, <2>5, <2>6
<1>7. CASE Work(op) /\ w.pc = "delete" /\ Key(o) \in w.items
  <2>1. w.m = m
    BY <1>0, <1>5, <1>7 DEF ItemsApart
  <2>2. m \in queue'[op] \/ CallOwes(work'[op], m, j)
    BY <1>7, <2>1, CallsGoOn DEF CallGoesOn, CallOwes
  <2>. QED  BY <2>2 DEF Owes
<1>. QED  BY <1>4, <1>6, <1>7

\* A manifest that changes is news to every operator.
LEMMA NewsOwes ==
  ASSUME TypeOK, TypeOK', [Next]_vars, NEW op \in Operators, NEW m \in Manifests,
         api'[m] # api[m], NEW j
  PROVE  Owes(op, m, j)'
<1>0. watch[op][m] \in Seq(Versions) /\ api'[m] \in Versions
  BY DEF TypeOK
<1>1. ASSUME AsWritten
      PROVE  Owes(op, m, j)'
  <2>1. watch'[op][m] = Append(watch[op][m], api'[m])
    BY <1>1 DEF AsWritten
  <2>2. watch'[op][m] # <<>>
    BY <1>0, <2>1, AppendedSomething
  <2>. QED  BY <2>2 DEF Owes
<1>2. CASE Users \/ CollectGarbage \/ UNCHANGED vars
  BY <1>1, <1>2, OutsideSteps DEF Outside
<1>3. CASE \E o \in Operators, k \in Manifests : Deliver(o, k) \/ Begin(o, k)
  BY <1>3, BeginTakes DEF Deliver, Take
<1>4. CASE \E o \in Operators : Work(o)
  BY <1>1, <1>4, WorkSteps DEF WorkStep
<1>5. CASE \E o \in Operators : Restart(o)
  BY <1>5 DEF Restart
<1>. QED  BY <1>2, <1>3, <1>4, <1>5 DEF Next

LEMMA CoveredStep ==
  ASSUME TypeOK, TypeOK', Apart, [Next]_vars, ~Tamper, StatusInvariant,
         \A p \in Operators : ItemsApart(work[p]),
         NEW op \in Operators, NEW m \in Manifests, Covered(op, m)
  PROVE  Covered(op, m)'
<1>. SUFFICES ASSUME api'[m].exists, Admitted(api'[m].spec, api'[m].prod, env'[op]),
                     NEW j \in 1..Len(Desired(m, api'[m].spec))
              PROVE  Present(m, j)' \/ \E p \in Operators : Owes(p, m, j)'
  BY DEF Covered
<1>1. CASE api'[m] # api[m]
  BY <1>1, NewsOwes
<1>2. CASE env'[op] # env[op]
  <2>1. Restart(op)
    <3>1. ~(env' = env)
      BY <1>2
    <3>2. ~(Users \/ CollectGarbage \/ UNCHANGED vars)
      BY <3>1, OutsideSteps DEF Outside
    <3>3. ~\E o \in Operators, k \in Manifests : Deliver(o, k) \/ Begin(o, k)
      BY <3>1, BeginTakes DEF Deliver, Take
    <3>4. ~\E o \in Operators : Work(o)
      BY <3>1, WorkSteps DEF WorkStep
    <3>5. PICK o \in Operators : Restart(o)
      BY <3>2, <3>3, <3>4 DEF Next
    <3>6. o = op
      BY <1>2, <3>5, RestartMoves
    <3>. QED  BY <3>5, <3>6
  <2>2. m \in queue'[op]
    BY <1>1, <2>1, RestartMoves
  <2>. QED  BY <2>2 DEF Owes
<1>3. CASE api'[m] = api[m] /\ env'[op] = env[op]
  <2>1. Admitted(api[m].spec, api[m].prod, env[op]) /\ api[m].exists
        /\ j \in 1..Len(Desired(m, api[m].spec))
    BY <1>3
  <2>2. \A p \in Operators : Sync(p, m) /\ Reading(p, m)
    BY DEF StatusInvariant
  <2>3. CASE Present(m, j)
    BY <1>3, <2>1, <2>2, <2>3, PresentStep
  <2>4. ASSUME NEW p \in Operators, Owes(p, m, j)
        PROVE  Present(m, j)' \/ Owes(p, m, j)'
    BY <1>3, <2>1, <2>2, <2>4, OwesStep
  <2>5. Present(m, j) \/ \E p \in Operators : Owes(p, m, j)
    BY <2>1 DEF Covered
  <2>. QED  BY <2>3, <2>4, <2>5
<1>. QED  BY <1>1, <1>2, <1>3

\* What is left of a bound never grows.
LEMMA BudgetShrinks ==
  ASSUME TypeOK, NEW event \in Events, [Next]_vars
  PROVE  budget'[event] <= budget[event]
<1>1. budget \in [Events -> Nat]
  BY DEF TypeOK
<1>2. budget' = budget \/ \E e \in Events : Spend(e)
  <2>1. CASE Users
    BY <2>1 DEF Users, CreateManifest, EditManifest, DeleteManifest, Tamper, Events
  <2>2. CASE CollectGarbage \/ UNCHANGED vars
    BY <2>2 DEF CollectGarbage, vars
  <2>3. CASE \E op \in Operators, m \in Manifests : Deliver(op, m) \/ Begin(op, m)
    BY <2>3, BeginTakes DEF Deliver, Take
  <2>4. CASE \E op \in Operators : Restart(op)
    BY <2>4 DEF Restart, Events
  <2>5. CASE \E op \in Operators : Work(op)
    BY <2>5 DEF Work, AddFinalizer, ApplyObject, ApplyFails, PatchStatus, ListOwned, ListNoMatch,
         RemoveFinalizer, CallFails, DeleteOwned, Answered, Events
  <2>. QED  BY <2>1, <2>2, <2>3, <2>4, <2>5 DEF Next
<1>3. ASSUME NEW e \in Events, Spend(e)
      PROVE  budget'[event] <= budget[event]
  <2>1. budget' = [budget EXCEPT ![e] = budget[e] - 1]
    BY <1>3 DEF Spend
  <2>. QED  BY <1>1, <2>1
<1>. QED  BY <1>1, <1>2, <1>3

LEMMA ObjectsInit ==
  ASSUME Init
  PROVE  ObjectsInvariant
<1>1. ASSUME NEW op \in Operators
      PROVE  ItemsApart(work[op])
  <2>1. work[op] = Idle /\ Idle.pc = "idle"
    BY DEF Init, Idle
  <2>. QED  BY <2>1 DEF ItemsApart
<1>2. ASSUME NEW op \in Operators, NEW m \in Manifests
      PROVE  Covered(op, m)
  <2>1. api[m] = NoManifest(0) /\ ~NoManifest(0).exists
    BY DEF Init, NoManifest
  <2>. QED  BY <2>1 DEF Covered
<1>3. budget = Budget /\ Budget["tamper"] \in Nat
  BY OperatorAssumption DEF Init, OperatorAssumption, Events
<1>. QED  BY <1>1, <1>2, <1>3 DEF ObjectsInvariant

LEMMA ObjectsStep ==
  ASSUME TypeOK, TypeOK', Apart, [Next]_vars, StatusInvariant, ObjectsInvariant
  PROVE  ObjectsInvariant'
<1>0. /\ budget["tamper"] \in Nat /\ budget'["tamper"] \in Nat /\ Budget["tamper"] \in Nat
      /\ budget'["tamper"] <= budget["tamper"]
  BY OperatorAssumption, BudgetShrinks DEF TypeOK, OperatorAssumption, Events
<1>1. \A op \in Operators : ItemsApart(work[op])'
  BY ItemsApartStep DEF ObjectsInvariant
<1>2. budget'["tamper"] <= Budget["tamper"]
  BY <1>0 DEF ObjectsInvariant
<1>3. ASSUME Untouched', NEW op \in Operators, NEW m \in Manifests
      PROVE  Covered(op, m)'
  <2>1. Untouched
    BY <1>0, <1>3 DEF ObjectsInvariant, Untouched
  <2>2. ~Tamper
    <3>1. SUFFICES ASSUME Tamper PROVE FALSE
      OBVIOUS
    <3>2. budget' = [budget EXCEPT !["tamper"] = budget["tamper"] - 1]
      BY <3>1 DEF Tamper, Spend
    <3>3. budget'["tamper"] = budget["tamper"] - 1
      BY <3>2 DEF TypeOK, Events
    <3>. QED  BY <1>0, <1>3, <2>1, <3>3 DEF Untouched
  <2>. QED  BY <2>1, <2>2, CoveredStep DEF ObjectsInvariant
<1>. QED  BY <1>1, <1>2, <1>3 DEF ObjectsInvariant

(***************************************************************************)
(* At rest                                                                 *)
(***************************************************************************)

LEMMA RestSettled ==
  ASSUME Quiescent, NEW op \in Operators, NEW m \in Manifests
  PROVE  Settled(op, m) /\ \A j : Owes(op, m, j) => IsProd(env[op])
BY DEF Quiescent, Settled, OnCall, Owes, CallOwes

\* The status is true in each of three cases.
LEMMA StatusTrueCases ==
  ASSUME NEW m, NEW e, api[m].status.obs = api[m].gen,
         \/ /\ IsProd(e)
            /\ api[m].status.phase = "Forbidden" /\ api[m].status.res = <<>>
         \/ /\ ~IsProd(e) /\ Denials(api[m].spec, api[m].prod, e) = {}
            /\ api[m].status.phase = "Ready"
            /\ api[m].status.res = Names(Desired(m, api[m].spec))
            /\ (Untouched => Applied(m))
         \/ /\ ~IsProd(e) /\ Denials(api[m].spec, api[m].prod, e) # {}
            /\ api[m].status.phase = "Error"
            /\ api[m].status.msg \in Denials(api[m].spec, api[m].prod, e)
            /\ api[m].status.res = <<>>
  PROVE  StatusTrue(m, e)
<1>. DEFINE v == api[m]
            denials == Denials(v.spec, v.prod, e)
            names == Names(Desired(m, v.spec))
            forbidden == v.status.phase = "Forbidden" /\ v.status.res = <<>>
            ready == /\ v.status.phase = "Ready"
                     /\ v.status.res = names
                     /\ Untouched => Applied(m)
            wrong == v.status.phase = "Error" /\ v.status.msg \in denials /\ v.status.res = <<>>
            which == CASE IsProd(e) -> forbidden [] denials = {} -> ready [] OTHER -> wrong
<1>0. IsProd(e) => denials # {}
  BY DEF Denials
<1>1. \/ IsProd(e) /\ forbidden
      \/ ~IsProd(e) /\ denials = {} /\ ready
      \/ ~IsProd(e) /\ denials # {} /\ wrong
  OBVIOUS
<1>2. which
  <2>. HIDE DEF v, names, forbidden, ready, wrong, denials
  <2>1. CASE IsProd(e) /\ forbidden
    <3>1. which = forbidden
      BY <1>0, <2>1
    <3>. HIDE DEF which
    <3>. QED  BY <2>1, <3>1
  <2>2. CASE ~IsProd(e) /\ denials = {} /\ ready
    <3>1. which = ready
      BY <2>2
    <3>. HIDE DEF which
    <3>. QED  BY <2>2, <3>1
  <2>3. CASE ~IsProd(e) /\ denials # {} /\ wrong
    <3>1. which = wrong
      BY <2>3
    <3>. HIDE DEF which
    <3>. QED  BY <2>3, <3>1
  <2>. QED  BY <1>1, <2>1, <2>2, <2>3
<1>. QED  BY <1>2 DEF StatusTrue

LEMMA RestTrue ==
  ASSUME TypeOK, StatusInvariant, ObjectsInvariant
  PROVE  RestIsTruthful
<1>. SUFFICES ASSUME Quiescent, NEW op \in Operators, NEW m \in Manifests, api[m].exists
              PROVE  /\ StatusTrue(m, env[op])
                     /\ IsProd(env[op]) \/ (api[m].fin /\ ~api[m].del)
  BY DEF RestIsTruthful
<1>. DEFINE v == api[m]
            e == env[op]
            denials == Denials(v.spec, v.prod, e)
            d == Desired(m, v.spec)
<1>1. \A p \in Operators : RightStatus(m, v, env[p], v.status)
  BY RestSettled DEF StatusInvariant, SettledRight
<1>2. RightStatus(m, v, e, v.status)
  BY <1>1
<1>3. v.spec \in StoredSpecs
  BY DEF TypeOK, Versions
<1>4. v.status.obs = v.gen /\ (IsProd(e) \/ (v.fin /\ ~v.del))
  BY <1>2 DEF RightStatus
<1>5. CASE IsProd(e)
  <2>1. v.status.phase = "Forbidden" /\ v.status.res = <<>>
    BY <1>2, <1>5 DEF RightStatus
  <2>. QED  BY <1>4, <1>5, <2>1, StatusTrueCases
<1>6. CASE ~IsProd(e) /\ denials = {}
  <2>1. v.status.phase = "Ready" /\ v.status.res = Names(d) /\ Admitted(v.spec, v.prod, e)
    BY <1>2, <1>6 DEF RightStatus
  <2>2. ASSUME Untouched
        PROVE  Applied(m)
    <3>1. ASSUME NEW j \in 1..Len(d)
          PROVE  Present(m, j)
      <4>1. SUFFICES ASSUME NEW p \in Operators, Owes(p, m, j)
                     PROVE  FALSE
        BY <2>1, <2>2 DEF ObjectsInvariant, Covered
      <4>2. IsProd(env[p])
        BY <4>1, RestSettled
      <4>3. v.status.phase = "Forbidden"
        BY <1>1, <4>2 DEF RightStatus
      <4>. QED  BY <2>1, <4>3
    <3>2. DOMAIN d = 1..Len(d)
      BY <1>3, DesiredOwned
    <3>3. \A o \in ToSet(d) : \E j \in 1..Len(d) : o = d[j]
      BY <3>2 DEF ToSet
    <3>. QED  BY <3>1, <3>3 DEF Applied, Present
  <2>3. StatusTrue(m, e)
    BY <1>4, <1>6, <2>1, <2>2, StatusTrueCases
  <2>. QED  BY <1>4, <2>3
<1>7. CASE ~IsProd(e) /\ denials # {}
  <2>1. v.status.phase = "Error" /\ v.status.msg \in denials /\ v.status.res = <<>>
    BY <1>2, <1>7 DEF RightStatus, Admitted
  <2>2. StatusTrue(m, e)
    BY <1>4, <1>7, <2>1, StatusTrueCases
  <2>. QED  BY <1>4, <2>2
<1>. QED  BY <1>5, <1>6, <1>7

\* Reconcile and patchStatus (simulationmanifest_controller.go:57-143,
\* 216-249): manifests that are Apart have the right status and, unless
\* objects were deleted by hand, all their objects whenever the loop rests,
\* whatever users, faults, lost answers, stale caches, restarts and other
\* operators did before.
THEOREM RestSafe == Apart => (Spec => []RestIsTruthful)
<1>. SUFFICES ASSUME Apart
              PROVE  Spec => []RestIsTruthful
  OBVIOUS
<1>1. Init => StatusInvariant /\ ObjectsInvariant
  BY StatusInit, ObjectsInit
<1>2. /\ TypeOK /\ TypeOK' /\ StatusInvariant /\ ObjectsInvariant /\ [Next]_vars
      => StatusInvariant' /\ ObjectsInvariant'
  BY StatusStep, ObjectsStep
<1>3. TypeOK /\ StatusInvariant /\ ObjectsInvariant => RestIsTruthful
  BY RestTrue
<1>. QED  BY <1>1, <1>2, <1>3, TypeCorrect, PTL DEF Spec

(***************************************************************************)
(* Routes                                                                  *)
(***************************************************************************)

\* What a VirtualService leads through.
Needs(o) ==
  { <<"ServiceEntry", <<o.name[1], "-serviceentry">>>>,
    <<"EnvoyFilter", <<"", "vf-inbound-capture">>>>,
    <<"EnvoyFilter", <<"", "vf-outbound-inject">>>>,
    <<"DestinationRule", <<"", "microcks-grpc">>>> }

\* What a call has applied so far is there.
AppliedSoFar(w) ==
  w.pc = "apply" =>
    LET d == Desired(w.m, w.copy.spec)
    IN  \A j \in 1..(w.i - 1) : \E y \in objs : Key(y.obj) = Key(d[j])

\* A sweep deletes one kind at a time.
ItemsOfKind(w) ==
  w.pc = "delete" => \A k \in w.items : k[1] = SweepPlan(w.m)[w.i][2]

RoutesInvariant ==
  /\ RoutesAreSupported
  /\ \A op \in Operators : AppliedSoFar(work[op]) /\ ItemsApart(work[op]) /\ ItemsOfKind(work[op])

\* Generate puts all that a route needs before it.
LEMMA RouteNeeds ==
  ASSUME NEW m, NEW s \in StoredSpecs, NEW i \in 1..Len(Desired(m, s)),
         Desired(m, s)[i].kind = "VirtualService"
  PROVE  /\ Desired(m, s)[i].ns = m.ns
         /\ \A needed \in Needs(Desired(m, s)[i]) : \E j \in 1..(i - 1) :
              /\ j \in 1..Len(Desired(m, s))
              /\ <<Desired(m, s)[j].kind, Desired(m, s)[j].name>> = needed
              /\ Desired(m, s)[j].ns = m.ns
<1>1. IsSpec(s)
  BY SpecsAssumption, DefaultsAreSpecs DEF SpecsAssumption, StoredSpecs
<1>. DEFINE G == Desired(m, s)
            H == Generate(m.ns, m.name, s)
            found(needed) ==
              \E j \in 1..(i - 1) :
                 j \in 1..Len(G) /\ <<G[j].kind, G[j].name>> = needed /\ G[j].ns = m.ns
            entry == <<G[i].name[1], "-serviceentry">>
            inbound == <<"", "vf-inbound-capture">>
            outbound == <<"", "vf-outbound-inject">>
            rule == <<"", "microcks-grpc">>
<1>2. G = H /\ DOMAIN G = 1..Len(G)
  BY DesiredOwned DEF Desired
<1>3. i \in DOMAIN H /\ H[i].kind = "VirtualService"
  BY <1>2
<1>4. /\ H[i].ns = m.ns
      /\ Before(H, i, m.ns, "ServiceEntry", <<H[i].name[1], "-serviceentry">>)
      /\ Before(H, i, m.ns, "EnvoyFilter", inbound)
      /\ Before(H, i, m.ns, "EnvoyFilter", outbound)
      /\ Before(H, i, m.ns, "DestinationRule", rule)
  BY <1>1, <1>3, RouteComesAfter
<1>. HIDE DEF G, H, inbound, outbound, rule
<1>5. ASSUME NEW kind, NEW name, Before(H, i, m.ns, kind, name)
      PROVE  found(<<kind, name>>)
  BY <1>2, <1>5 DEF Before
<1>. HIDE DEF found
<1>6. /\ found(<<"ServiceEntry", entry>>) /\ found(<<"EnvoyFilter", inbound>>)
      /\ found(<<"EnvoyFilter", outbound>>) /\ found(<<"DestinationRule", rule>>)
  BY <1>2, <1>4, <1>5
<1>7. Needs(G[i]) = { <<"ServiceEntry", entry>>, <<"EnvoyFilter", inbound>>,
                      <<"EnvoyFilter", outbound>>, <<"DestinationRule", rule>> }
  BY DEF Needs, inbound, outbound, rule
<1>. HIDE DEF entry
<1>8. \A needed \in Needs(G[i]) : found(needed)
  BY <1>6, <1>7
<1>. QED  BY <1>2, <1>4, <1>8 DEF G, found

\* A labelled object was generated for the manifest of its label.
LEMMA LabelledDesired ==
  ASSUME TypeOK, DistinctNames, NEW x \in objs, NEW m \in Manifests, x.obj.owner = m.name
  PROVE  \E s \in StoredSpecs : \E i \in 1..Len(Desired(m, s)) : x.obj = Desired(m, s)[i]
<1>1. x.obj \in Objects
  BY DEF TypeOK
<1>2. CASE x.obj \in ForeignObjects
  <2>1. x.obj.owner = ""
    BY <1>2, ForeignParts DEF ForeignObjects
  <2>. QED  BY <2>1, NamesGiven
<1>3. CASE x.obj \in GeneratedObjects
  <2>1. PICK k \in Manifests, s \in StoredSpecs : x.obj \in ToSet(Desired(k, s))
    BY <1>3 DEF GeneratedObjects, DesiredLists
  <2>2. PICK i \in 1..Len(Desired(k, s)) : x.obj = Desired(k, s)[i]
    BY <2>1, DesiredOwned DEF ToSet
  <2>3. k = m
    BY <2>2, DesiredOwned DEF DistinctNames
  <2>. QED  BY <2>2, <2>3
<1>. QED  BY <1>1, <1>2, <1>3 DEF Objects

\* Only the sweep frees a key: the garbage collector finds nothing whose owner
\* is gone, and what is applied takes the place of its like.
LEMMA KeysStay ==
  ASSUME TypeOK, DistinctNames, NoOrphans, SweepInvariant, [Next]_vars, ~Tamper, NEW y \in objs,
         \A op \in Operators : work[op].pc = "delete" => Key(y.obj) \notin work[op].items
  PROVE  \E z \in objs' : Key(z.obj) = Key(y.obj)
<1>1. y.refs = {} \/ \E r \in y.refs : api[r[1]].exists /\ api[r[1]].uid = r[2]
  <2>1. CASE y \in Foreign
    BY <2>1, ForeignParts
  <2>2. CASE y \notin Foreign
    <3>1. PICK m \in Manifests : api[m].exists /\ y.obj.owner = m.name
      BY <2>2 DEF NoOrphans
    <3>2. ASSUME NEW r \in y.refs
          PROVE  api[r[1]].exists /\ api[r[1]].uid = r[2]
      <4>1. r[1] \in Manifests /\ r[1].name = y.obj.owner /\ r[2] = api[r[1]].uid
        BY DEF SweepInvariant, RefsCurrent
      <4>2. r[1] = m
        BY <3>1, <4>1 DEF DistinctNames
      <4>. QED  BY <3>1, <4>1, <4>2
    <3>. QED  BY <3>2
  <2>. QED  BY <2>1, <2>2
<1>2. CASE y \in objs'
  BY <1>2
<1>3. CASE y \notin objs'
  <2>1. PICK op \in Operators :
          /\ ApplyObject(op)
          /\ Key(Desired(work[op].m, work[op].copy.spec)[work[op].i]) = Key(y.obj)
    BY <1>1, <1>3, Removals
  <2>. DEFINE o == Desired(work[op].m, work[op].copy.spec)[work[op].i]
              refs == OwnerRefs(work[op].m, work[op].copy, o)
              z == [obj |-> o, refs |-> refs]
  <2>2. z \in objs' /\ Key(o) = Key(y.obj)
    BY <2>1 DEF ApplyObject
  <2>. HIDE DEF o, refs
  <2>3. z.obj = o
    OBVIOUS
  <2>. QED  BY <2>2, <2>3
<1>. QED  BY <1>2, <1>3

\* A sweep begins with the VirtualServices of the manifest's own namespace.
LEMMA FirstPlace ==
  ASSUME NEW m
  PROVE  SweepPlan(m)[1] = <<m.ns, "VirtualService">>
<1>. DEFINE l == Len(Namespaces(m))
            ns(h) == Namespaces(m)[((h - 1) \div 4) + 1]
            kind(h) == KindOrder[((h - 1) % 4) + 1]
<1>1. SweepPlan(m) = [h \in 1..(4 * l) |-> <<ns(h), kind(h)>>]
  BY DEF SweepPlan
<1>2. l \in {1, 2} /\ Namespaces(m)[1] = m.ns
  BY DEF Namespaces
<1>3. ((1 - 1) \div 4) + 1 = 1 /\ ((1 - 1) % 4) + 1 = 1
  OBVIOUS
<1>4. ns(1) = m.ns /\ kind(1) = "VirtualService"
  BY <1>2, <1>3 DEF KindOrder
<1>. HIDE DEF l, ns, kind
<1>5. 1 \in 1..(4 * l)
  BY <1>2
<1>6. SweepPlan(m)[1] = <<ns(1), kind(1)>>
  BY <1>1, <1>5
<1>. QED  BY <1>4, <1>6

\* The sweep takes the routes of its manifest first, and nothing that another
\* manifest wants.
LEMMA SupportKept ==
  ASSUME TypeOK, DistinctNames, NEW w \in Calls, CallOK(w), w.m \in Manifests, w.pc = "delete",
         SweptBy(w), ItemsApart(w), ItemsOfKind(w),
         NEW x \in objs, NEW m \in Manifests,
         x.obj.kind = "VirtualService", x.obj.owner = m.name,
         NEW y \in objs, <<y.obj.kind, y.obj.name>> \in Needs(x.obj), y.obj.ns = x.obj.ns
  PROVE  Key(y.obj) \notin w.items
<1>. SUFFICES ASSUME Key(y.obj) \in w.items
              PROVE  FALSE
  OBVIOUS
<1>0. PICK s \in StoredSpecs : \E i \in 1..Len(Desired(m, s)) : x.obj = Desired(m, s)[i]
  BY LabelledDesired
<1>1. PICK i \in 1..Len(Desired(m, s)) : x.obj = Desired(m, s)[i]
  BY <1>0
<1>2. /\ x.obj.ns = m.ns
      /\ \E j \in 1..Len(Desired(m, s)) :
           /\ <<Desired(m, s)[j].kind, Desired(m, s)[j].name>> = <<y.obj.kind, y.obj.name>>
           /\ Desired(m, s)[j].ns = m.ns
  BY <1>1, RouteNeeds
<1>3. CASE m # w.m
  <2>1. PICK j \in 1..Len(Desired(m, s)) : Key(Desired(m, s)[j]) = Key(y.obj)
    BY <1>2 DEF Key
  <2>2. Desired(m, s)[j] \in ToSet(Desired(m, s))
    BY DesiredAt
  <2>. QED  BY <1>3, <2>1, <2>2 DEF ItemsApart
<1>4. CASE m = w.m
  <2>1. y.obj.kind # "VirtualService"
    BY DEF Needs
  <2>2. Key(y.obj)[1] = y.obj.kind
    BY DEF Key
  <2>3. SweepPlan(m)[w.i][2] # "VirtualService"
    BY <1>4, <2>1, <2>2 DEF ItemsOfKind
  <2>4. SweepPlan(m)[1] = <<m.ns, "VirtualService">>
    BY FirstPlace
  <2>5. w.i \in 1..Len(SweepPlan(m)) /\ Len(SweepPlan(m)) \in Nat
    BY <1>4, SweepPlanLength DEF CallOK
  <2>6. 1 \in 1..(w.i - 1)
    <3>1. w.i # 1
      BY <2>3, <2>4
    <3>. QED  BY <2>5, <3>1
  <2>7. Labelled(m, SweepPlan(m)[1]) = {}
    BY <1>4, <2>6 DEF SweptBy
  <2>8. Key(x.obj) \in Labelled(m, <<m.ns, "VirtualService">>)
    BY <1>2 DEF Labelled
  <2>. QED  BY <2>4, <2>7, <2>8
<1>. QED  BY <1>3, <1>4

\* How a call gets to apply and to delete.
LEMMA AppliesNext ==
  ASSUME NEW w \in Calls, AfterApply(w).pc = "apply"
  PROVE  AfterApply(w).i = w.i + 1
<1>. DEFINE d == Desired(w.m, w.copy.spec)
            l == Len(d)
            n == w.i + 1
<1>1. CASE w.i < l
  <2>1. AfterApply(w) = [w EXCEPT !.i = n]
    BY <1>1 DEF AfterApply
  <2>. HIDE DEF n
  <2>2. AfterApply(w).i = n
    BY <2>1 DEF Calls
  <2>. QED  BY <2>2 DEF n
<1>2. CASE ~(w.i < l)
  <2>. DEFINE msg == Message("generated", l)
              res == Names(d)
              retry == FALSE
              phase == "Ready"
  <2>1. AfterApply(w) = StatusCall(w, phase, msg, res, retry)
    BY <1>2 DEF AfterApply
  <2>. HIDE DEF phase, msg, res, retry
  <2>2. StatusCall(w, phase, msg, res, retry).pc = "status"
    BY DEF StatusCall, Calls
  <2>. QED  BY <2>1, <2>2
<1>. QED  BY <1>1, <1>2

\* A call that applies or deletes was at it before, or has just begun.
CallStep(op) ==
  LET w == work[op]
      next == work'[op]
  IN  \/ next = w
      \/ next.pc \notin {"apply", "delete"}
      \/ next.pc = "apply" /\ next.i = 1
      \/ /\ next.pc = "apply" /\ w.pc = "apply" /\ ApplyObject(op)
         /\ next.m = w.m /\ next.copy = w.copy /\ next.i = w.i + 1
      \/ /\ next.pc = "delete" /\ next.m = w.m /\ next.i = w.i
         /\ \/ w.pc = "delete" /\ next.items \subseteq w.items
            \/ next.items = Labelled(w.m, SweepPlan(w.m)[w.i])

LEMMA CallSteps ==
  ASSUME TypeOK, [Next]_vars, NEW op \in Operators
  PROVE  CallStep(op)
<1>. DEFINE w == work[op]
<1>1. CASE work'[op] = work[op]
  BY <1>1 DEF CallStep
<1>2. CASE Users \/ CollectGarbage \/ UNCHANGED vars
  BY <1>1, <1>2, OutsideSteps DEF Outside
<1>3. ASSUME NEW o \in Operators, NEW k \in Manifests, Deliver(o, k)
      PROVE  CallStep(op)
  BY <1>1, <1>3, DeliverMoves
<1>4. ASSUME NEW o \in Operators, NEW k \in Manifests, Begin(o, k)
      PROVE  CallStep(op)
  <2>1. PICK c : /\ Take(o, k, c)
                 /\ c.pc \in {"list", "delete", "removeFinalizer"} => c.pc = "list"
                 /\ c.pc = "apply" => c.i = 1
    BY <1>4, BeginTakes
  <2>2. CASE o = op
    <3>1. work'[op] = c
      BY <2>1, <2>2, TakeMoves
    <3>. QED  BY <2>1, <3>1 DEF CallStep
  <2>3. CASE o # op
    BY <1>1, <2>1, <2>3, TakeMoves
  <2>. QED  BY <2>2, <2>3
<1>5. ASSUME NEW o \in Operators, Restart(o)
      PROVE  CallStep(op)
  <2>1. CASE o = op
    <3>1. work'[op] = Idle /\ Idle.pc = "idle"
      BY <1>5, <2>1, RestartMoves DEF Idle
    <3>2. work'[op].pc = "idle"
      BY <3>1
    <3>. QED  BY <3>2 DEF CallStep
  <2>2. CASE o # op
    BY <1>1, <1>5, <2>2, RestartMoves
  <2>. QED  BY <2>1, <2>2
<1>6. ASSUME NEW o \in Operators, Work(o)
      PROVE  CallStep(op)
  <2>1. CASE o # op
    BY <1>1, <1>6, <2>1, WorkSteps DEF WorkStep
  <2>2. CASE o = op /\ work'[op].pc = "delete"
    BY <1>6, <2>2, CallsGoOn DEF CallGoesOn, CallStep
  <2>3. CASE o = op /\ work'[op].pc = "apply"
    <3>1. w.pc = "apply" /\ ApplyObject(op) /\ work'[op] = AfterApply(w) /\ w \in Calls
      BY <1>6, <2>3, CallsGoOn DEF CallGoesOn, TypeOK
    <3>2. AfterApply(w).i = w.i + 1 /\ AfterApply(w).m = w.m /\ AfterApply(w).copy = w.copy
      BY <2>3, <3>1, AppliesNext, CallCarried
    <3>. QED  BY <2>3, <3>1, <3>2 DEF CallStep
  <2>. QED  BY <2>1, <2>2, <2>3 DEF CallStep
<1>. QED  BY <1>2, <1>3, <1>4, <1>5, <1>6 DEF Next

LEMMA CallTypes ==
  ASSUME TypeOK, NEW op \in Operators
  PROVE  /\ work[op] \in Calls /\ CallOK(work[op]) /\ work[op].m \in Manifests
         /\ work[op].i \in Nat
         /\ work[op].pc = "apply" =>
              /\ work[op].copy.spec \in StoredSpecs
              /\ work[op].i \in 1..Len(Desired(work[op].m, work[op].copy.spec))
BY DEF TypeOK, CallOK, Calls, Versions

\* The key a call applies is there after it.
LEMMA AppliedThere ==
  ASSUME NEW op \in Operators, ApplyObject(op)
  PROVE  \E z \in objs' : Key(z.obj) = Key(Desired(work[op].m, work[op].copy.spec)[work[op].i])
<1>. DEFINE o == Desired(work[op].m, work[op].copy.spec)[work[op].i]
            refs == OwnerRefs(work[op].m, work[op].copy, o)
            z == [obj |-> o, refs |-> refs]
<1>1. z \in objs'
  BY DEF ApplyObject
<1>. HIDE DEF o, refs
<1>2. z.obj = o
  OBVIOUS
<1>. QED  BY <1>1, <1>2 DEF o

LEMMA AppliedStep ==
  ASSUME TypeOK, OneOperator, DistinctNames, NoOrphans, SweepInvariant, [Next]_vars, ~Tamper,
         NEW op \in Operators, AppliedSoFar(work[op])
  PROVE  AppliedSoFar(work[op])'
<1>. DEFINE w == work[op]
            next == work'[op]
<1>1. ASSUME w.pc = "apply", next.pc = "apply", next.m = w.m, next.copy = w.copy,
             next.i = w.i \/ (next.i = w.i + 1 /\ ApplyObject(op))
      PROVE  AppliedSoFar(work[op])'
  <2>. DEFINE d == Desired(w.m, w.copy.spec)
  <2>1. \A o \in Operators : work[o].pc # "delete"
    BY <1>1 DEF OneOperator
  <2>2. ASSUME NEW j \in 1..(w.i - 1)
        PROVE  \E z \in objs' : Key(z.obj) = Key(d[j])
    <3>1. PICK y \in objs : Key(y.obj) = Key(d[j])
      BY <1>1 DEF AppliedSoFar
    <3>. QED  BY <2>1, <3>1, KeysStay
  <2>3. next.i = w.i + 1 => \E z \in objs' : Key(z.obj) = Key(d[w.i])
    <3>1. w.i \in Nat
      BY CallTypes
    <3>. QED  BY <1>1, <3>1, AppliedThere
  <2>4. \A j \in 1..(next.i - 1) : j \in 1..(w.i - 1) \/ (next.i = w.i + 1 /\ j = w.i)
    <3>1. w.i \in Nat
      BY CallTypes
    <3>. QED  BY <1>1, <3>1
  <2>5. \A j \in 1..(next.i - 1) : \E z \in objs' : Key(z.obj) = Key(d[j])
    <3>. HIDE DEF d
    <3>. QED  BY <2>2, <2>3, <2>4
  <2>. QED  BY <1>1, <2>5 DEF AppliedSoFar
<1>2. CASE next.pc # "apply"
  BY <1>2 DEF AppliedSoFar
<1>3. CASE next.pc = "apply" /\ next.i = 1
  <2>1. 1..(next.i - 1) = {}
    BY <1>3
  <2>. QED  BY <2>1 DEF AppliedSoFar
<1>. QED  BY <1>1, <1>2, <1>3, CallSteps DEF CallStep

LEMMA ItemsOfKindStep ==
  ASSUME TypeOK, [Next]_vars, NEW op \in Operators, ItemsOfKind(work[op])
  PROVE  ItemsOfKind(work[op])'
<1>. DEFINE w == work[op]
            next == work'[op]
<1>1. CASE next = w
  <2>1. PICK v : v = work[op]
    OBVIOUS
  <2>. QED  BY <1>1, <2>1 DEF ItemsOfKind
<1>2. CASE next.pc # "delete"
  BY <1>2 DEF ItemsOfKind
<1>3. ASSUME next.m = w.m, next.i = w.i, w.pc = "delete", next.items \subseteq w.items
      PROVE  ItemsOfKind(work[op])'
  BY <1>3 DEF ItemsOfKind
<1>4. ASSUME next.m = w.m, next.i = w.i, next.items = Labelled(w.m, SweepPlan(w.m)[w.i])
      PROVE  ItemsOfKind(work[op])'
  <2>. DEFINE place == SweepPlan(w.m)[w.i]
  <2>1. \A k \in Labelled(w.m, place) : k[1] = place[2]
    <3>. HIDE DEF place
    <3>. QED  BY DEF Labelled, Key
  <2>. QED  BY <1>4, <2>1 DEF ItemsOfKind
<1>. QED  BY <1>1, <1>2, <1>3, <1>4, CallSteps DEF CallStep

\* A key that stays is still what is needed.
LEMMA NeedStays ==
  ASSUME NEW needed, NEW ns, NEW o, NEW p, Key(o) = Key(p), <<o.kind, o.name>> = needed, o.ns = ns
  PROVE  <<p.kind, p.name>> = needed /\ p.ns = ns
BY DEF Key

LEMMA SupportedStep ==
  ASSUME TypeOK, OneOperator, DistinctNames, OrphanInvariant, SweepInvariant, RoutesInvariant,
         [Next]_vars, ~Tamper
  PROVE  RoutesAreSupported'
<1>0. NoOrphans /\ \A op \in Operators : SweptBy(work[op])
  BY DEF OrphanInvariant
<1>. SUFFICES ASSUME NEW x \in objs', NEW m \in Manifests,
                     x.obj.kind = "VirtualService", x.obj.owner = m.name,
                     NEW needed \in Needs(x.obj)
              PROVE  \E z \in objs' : <<z.obj.kind, z.obj.name>> = needed /\ z.obj.ns = x.obj.ns
  BY ZenonT(40) DEF RoutesAreSupported, Needs
<1>1. CASE x \in objs
  <2>1. PICK y \in objs : <<y.obj.kind, y.obj.name>> = needed /\ y.obj.ns = x.obj.ns
    BY <1>1 DEF RoutesInvariant, RoutesAreSupported, Needs
  <2>2. ASSUME NEW op \in Operators, work[op].pc = "delete"
        PROVE  Key(y.obj) \notin work[op].items
    <3>1. ItemsApart(work[op]) /\ ItemsOfKind(work[op])
      BY DEF RoutesInvariant
    <3>. QED  BY <1>0, <1>1, <2>1, <2>2, <3>1, CallTypes, SupportKept
  <2>3. PICK z \in objs' : Key(z.obj) = Key(y.obj)
    BY <1>0, <2>2, KeysStay
  <2>. QED  BY <2>1, <2>3, NeedStays
<1>2. CASE x \notin objs
  <2>1. PICK op \in Operators : ApplyObject(op)
    BY <1>2, ObjectsShrink
  <2>. DEFINE w == work[op]
              d == Desired(w.m, w.copy.spec)
  <2>2. w.pc = "apply" /\ x.obj = d[w.i]
    BY <1>2, <2>1 DEF ApplyObject, Without
  <2>3. w.m \in Manifests /\ w.copy.spec \in StoredSpecs /\ w.i \in 1..Len(d)
    BY <2>2, CallTypes
  <2>4. /\ x.obj.ns = w.m.ns
        /\ \E j \in 1..(w.i - 1) : <<d[j].kind, d[j].name>> = needed /\ d[j].ns = w.m.ns
    <3>1. d[w.i].kind = "VirtualService" /\ needed \in Needs(d[w.i])
      BY <2>2
    <3>2. /\ d[w.i].ns = w.m.ns
          /\ \A nd \in Needs(d[w.i]) : \E j \in 1..(w.i - 1) :
                <<d[j].kind, d[j].name>> = nd /\ d[j].ns = w.m.ns
      BY <2>3, <3>1, RouteNeeds
    <3>. HIDE DEF d, w
    <3>. QED  BY <2>2, <3>1, <3>2
  <2>5. PICK j \in 1..(w.i - 1) : <<d[j].kind, d[j].name>> = needed /\ d[j].ns = w.m.ns
    BY <2>4
  <2>6. PICK y \in objs : Key(y.obj) = Key(d[j])
    BY <2>2 DEF RoutesInvariant, AppliedSoFar
  <2>7. \A o \in Operators : work[o].pc # "delete"
    BY <2>2 DEF OneOperator
  <2>8. PICK z \in objs' : Key(z.obj) = Key(y.obj)
    BY <1>0, <2>7, KeysStay
  <2>. HIDE DEF d, w
  <2>. QED  BY <2>4, <2>5, <2>6, <2>8, NeedStays
<1>. QED  BY <1>1, <1>2

LEMMA RoutesStep ==
  ASSUME TypeOK, OneOperator, DistinctNames, Apart, OrphanInvariant, SweepInvariant,
         RoutesInvariant, [Next]_vars, ~Tamper
  PROVE  RoutesInvariant'
<1>1. NoOrphans
  BY DEF OrphanInvariant
<1>2. ASSUME NEW op \in Operators
      PROVE  AppliedSoFar(work[op])' /\ ItemsApart(work[op])' /\ ItemsOfKind(work[op])'
  <2>1. AppliedSoFar(work[op]) /\ ItemsApart(work[op]) /\ ItemsOfKind(work[op])
    BY DEF RoutesInvariant
  <2>. QED  BY <1>1, <2>1, AppliedStep, ItemsApartStep, ItemsOfKindStep
<1>3. RoutesAreSupported'
  BY SupportedStep
<1>. QED  BY <1>2, <1>3 DEF RoutesInvariant

LEMMA RoutesInit ==
  ASSUME Init
  PROVE  RoutesInvariant
<1>1. RoutesAreSupported
  <2>. SUFFICES ASSUME NEW x \in objs, NEW m \in Manifests, x.obj.owner = m.name
                PROVE  FALSE
    BY DEF RoutesAreSupported
  <2>1. x.obj.owner = ""
    BY ForeignParts DEF Init
  <2>. QED  BY <2>1, NamesGiven
<1>2. ASSUME NEW op \in Operators
      PROVE  AppliedSoFar(work[op]) /\ ItemsApart(work[op]) /\ ItemsOfKind(work[op])
  <2>1. work[op].pc = "idle"
    BY DEF Init, Idle
  <2>. QED  BY <2>1 DEF AppliedSoFar, ItemsApart, ItemsOfKind
<1>. QED  BY <1>1, <1>2 DEF RoutesInvariant

\* Generate, Reconcile and deleteOwned (generator.go:49-120,
\* simulationmanifest_controller.go:122-130, 181-203): whenever a
\* VirtualService of a manifest is in place, so are the ServiceEntry, the
\* filters and the rule it leads through, however many objects a pass has
\* applied or swept when it fails or dies.  For one operator whose kinds are
\* always served, manifests that are Apart and of distinct names, and nobody
\* deleting by hand.
THEOREM RoutesSafe ==
  OneOperator /\ AlwaysServed /\ NoTampering /\ DistinctNames /\ Apart
    => (Spec => []RoutesAreSupported)
<1>. SUFFICES ASSUME OneOperator, AlwaysServed, NoTampering, DistinctNames, Apart
              PROVE  Spec => []RoutesAreSupported
  OBVIOUS
<1>. DEFINE NotTampered == budget["tamper"] = 0
            Inv == SweepInvariant /\ RoutesInvariant /\ NotTampered
<1>1. Init => Inv
  BY SweepInit, RoutesInit DEF Init, NoTampering
<1>2. TypeOK /\ OrphanInvariant /\ OrphanInvariant' /\ Inv /\ [Next]_vars => Inv'
  <2>. SUFFICES ASSUME TypeOK, OrphanInvariant, OrphanInvariant', Inv, [Next]_vars
                PROVE  Inv'
    OBVIOUS
  <2>1. ~Tamper
    BY DEF Tamper, Spend
  <2>2. NotTampered'
    BY NeverHappens DEF Events
  <2>3. SweepInvariant'
    BY SweepStep
  <2>4. RoutesInvariant'
    BY <2>1, RoutesStep
  <2>. QED  BY <2>2, <2>3, <2>4
<1>3. Spec => []OrphanInvariant
  BY OrphanInvariantSafe
<1>4. Inv => RoutesAreSupported
  BY DEF RoutesInvariant
<1>. HIDE DEF Inv
<1>. QED  BY <1>1, <1>2, <1>3, <1>4, TypeCorrect, PTL DEF Spec

(***************************************************************************)
(* A reported error                                                        *)
(***************************************************************************)

\* The text of an operator that refuses to work in its environment.
Refusal == <<Err("environment", 0, "", "forbidden")>>

KnownOrCurrent(op, m) == Known(op, m) \cup {api[m]}

\* Two versions of one manifest, not of a manifest and its successor in name.
SameIncarnation(u, v) == u.exists /\ v.exists /\ u.uid = v.uid

\* Generations number the specs of an incarnation in the order they came.
Generations(op, m) ==
  /\ \A u \in KnownOrCurrent(op, m) :
        /\ u.exists => u.gen >= 1 /\ u.uid <= api[m].rv
        /\ SameIncarnation(u, api[m]) /\ u.gen = api[m].gen => u.spec = api[m].spec
  /\ \A u, v \in KnownOrCurrent(op, m) : SameIncarnation(u, v) /\ u.rv <= v.rv => u.gen <= v.gen

\* What a call, of an operator of environment e, is about to report.
ReportOK(w, e) ==
  w.pc = "status" =>
    /\ w.status.obs = w.copy.gen /\ w.status.msg # Refusal
    /\ IsProd(e) => w.status.phase = "Forbidden"
    /\ ~IsProd(e) =>
         /\ w.copy.fin /\ ~w.copy.del
         /\ \/ Admitted(w.copy.spec, w.copy.prod, e)
            \/ w.status.phase = "Error" /\ w.status.msg \in Denials(w.copy.spec, w.copy.prod, e)

\* What was reported is no younger than what an operator at work may still
\* read, and no production operator has reported an error.
ReportedOK(op, m) ==
  LET a  == api[m]
      st == api[m].status
  IN  /\ st.msg # Refusal
      /\ st.phase = "Error" => a.exists /\ st.obs <= a.gen
      /\ IsProd(env[op]) /\ st.phase = "Error" =>
           \A u \in Known(op, m) : u.exists => u.status = st
      /\ ~IsProd(env[op]) =>
           \A u \in KnownOrCurrent(op, m) : SameIncarnation(u, a) =>
              st.obs <= u.gen \/ (u.status = st /\ st.phase # "Error")

ErrorsInvariant ==
  /\ \A op \in Operators : ReportOK(work[op], env[op])
  /\ \A op \in Operators, m \in Manifests : Generations(op, m) /\ ReportedOK(op, m)

\* What the API server makes of version a: b.
Gone(a, b) == ~b.exists /\ b.gen = 0 /\ b.status = NoStatus
Created(a, b) ==
  ~a.exists /\ b.exists /\ b.uid = b.rv /\ b.gen = 1 /\ b.status = NoStatus
Updated(a, b) ==
  /\ a.exists /\ b.exists /\ b.uid = a.uid /\ b.status = a.status
  /\ b.gen >= a.gen /\ (b.gen = a.gen => b.spec = a.spec)
Patched(w, a, b) ==
  /\ a.exists /\ b.exists /\ b.uid = a.uid /\ b.gen = a.gen /\ b.spec = a.spec
  /\ b.status = MergePatch(a.status, w.copy.status, w.status)

\* How the current version of m changes, if it does.
Succeeds(m) ==
  \/ api'[m] = api[m]
  \/ /\ api'[m].rv = api[m].rv + 1
     /\ \/ Gone(api[m], api'[m]) \/ Created(api[m], api'[m]) \/ Updated(api[m], api'[m])
        \/ /\ env' = env
           /\ \E op \in Operators : /\ PatchStatus(op) /\ work[op].m = m
                                    /\ Patched(work[op], api[m], api'[m])

(***************************************************************************)
(* Texts                                                                   *)
(***************************************************************************)

\* Only an operator refuses its environment.
LEMMA NoRefusal ==
  /\ \A what \in {"forbidden", "generated", "apply"}, n \in Nat : Message(what, n) # Refusal
  /\ <<>> # Refusal
  /\ \A v \in Versions, e \in Environments : v.exists /\ ~IsProd(e) =>
       \A msg \in Denials(v.spec, v.prod, e) : msg # Refusal
<1>1. ASSUME NEW what \in {"forbidden", "generated", "apply"}, NEW n \in Nat
      PROVE  Message(what, n) # Refusal
  BY <1>1 DEF Message, Refusal, Err
<1>2. <<>> # Refusal
  BY DEF Refusal
<1>3. ASSUME NEW v \in Versions, NEW e \in Environments, v.exists, ~IsProd(e),
             NEW msg \in Denials(v.spec, v.prod, e)
      PROVE  msg # Refusal
  <2>1. IsSpec(v.spec)
    <3>1. v.spec \in StoredSpecs
      BY <1>3 DEF Versions
    <3>. QED  BY <3>1, SpecsAssumption, DefaultsAreSpecs DEF SpecsAssumption, StoredSpecs
  <2>2. CASE v.prod
    <3>1. msg = <<Err("label", 0, "", "forbidden")>>
      BY <1>3, <2>2 DEF Denials
    <3>. QED  BY <3>1 DEF Refusal, Err
  <2>3. CASE ~v.prod
    <3>1. msg \in ValidateSpec(v.spec)
      BY <1>3, <2>3 DEF Denials
    <3>. QED  BY <2>1, <3>1, SpecErrorsSpeakOfSpec DEF Refusal
  <2>. QED  BY <2>2, <2>3
<1>. QED  BY <1>1, <1>2, <1>3

(***************************************************************************)
(* The API server                                                          *)
(***************************************************************************)

\* What a write leaves.
LEMMA Written ==
  ASSUME TypeOK, NEW k \in Manifests, NEW v \in Versions, Write(k, v)
  PROVE  /\ \A m \in Manifests \ {k} : api'[m] = api[m]
         /\ \/ api'[k] = api[k]
            \/ /\ api'[k].rv = api[k].rv + 1
               /\ api'[k].exists = v.exists /\ api'[k].uid = v.uid /\ api'[k].gen = v.gen
               /\ api'[k].spec = v.spec /\ api'[k].status = v.status
<1>1. CASE v = api[k]
  BY <1>1 DEF Write
<1>2. CASE v # api[k]
  <2>. DEFINE n   == api[k].rv + 1
              new == [v EXCEPT !.rv = n]
  <2>1. api' = [api EXCEPT ![k] = new]
    BY <1>2 DEF Write
  <2>. HIDE DEF n
  <2>2. /\ new.rv = n /\ new.exists = v.exists /\ new.uid = v.uid /\ new.gen = v.gen
        /\ new.spec = v.spec /\ new.status = v.status
    BY DEF Versions, Records
  <2>. HIDE DEF new
  <2>3. api'[k] = new /\ \A m \in Manifests \ {k} : api'[m] = api[m]
    BY <2>1 DEF TypeOK
  <2>. QED  BY <2>2, <2>3 DEF n
<1>. QED  BY <1>1, <1>2

\* A write of a changed version.
LEMMA UpdateSucceeds ==
  ASSUME TypeOK, NEW k \in Manifests, NEW v \in Versions, Write(k, v),
         Gone(api[k], v) \/ Updated(api[k], v), NEW m \in Manifests
  PROVE  Succeeds(m)
<1>1. api'[m] = api[m] \/ m = k
  BY Written
<1>. QED  BY <1>1, Written DEF Succeeds, Gone, Updated

\* A new spec is a new generation.
LEMMA WithSpecUpdates ==
  ASSUME NEW v \in Versions, v.exists, NEW s
  PROVE  Updated(v, WithSpec(v, s))
<1>. DEFINE n == IF s = v.spec THEN v.gen ELSE v.gen + 1
            w == [v EXCEPT !.spec = s, !.gen = n]
<1>1. n >= v.gen /\ (n = v.gen => s = v.spec)
  BY DEF Versions, Records
<1>2. WithSpec(v, s) = w
  BY DEF WithSpec
<1>. HIDE DEF n
<1>3. /\ w.exists = v.exists /\ w.uid = v.uid /\ w.status = v.status /\ w.gen = n
      /\ w.spec = s
  BY DEF Versions, Records
<1>. HIDE DEF w
<1>. QED  BY <1>1, <1>2, <1>3 DEF Updated

LEMMA NoManifestGone ==
  ASSUME NEW a, NEW rv
  PROVE  Gone(a, NoManifest(rv))
BY DEF Gone, NoManifest

LEMMA UsersSucceed ==
  ASSUME TypeOK, Users, NEW m \in Manifests
  PROVE  Succeeds(m)
<1>1. ASSUME NEW k \in Manifests, NEW s \in Specs, NEW p \in ProdLabels, CreateManifest(k, s, p)
      PROVE  Succeeds(m)
  <2>. DEFINE n == api[k].rv + 1
              v == Fresh(n, Incoming(s), p)
  <2>1. n \in Nat
    <3>1. api[k] \in Versions
      BY DEF TypeOK
    <3>. QED  BY <3>1 DEF Versions, Records
  <2>2. p \in BOOLEAN
    BY OperatorAssumption, Zenon DEF OperatorAssumption
  <2>3. Incoming(s) \in StoredSpecs
    BY IncomingTyped DEF StoredSpecs
  <2>4. Write(k, v) /\ ~api[k].exists
    BY <1>1 DEF CreateManifest
  <2>. HIDE DEF n
  <2>5. v \in Versions
    BY <2>1, <2>2, <2>3, FreshTyped
  <2>6. v.exists /\ v.uid = n /\ v.gen = 1 /\ v.status = NoStatus
    BY DEF Fresh, NoManifest
  <2>. HIDE DEF v
  <2>7. api'[m] = api[m] \/ m = k
    BY <2>4, <2>5, Written
  <2>. QED  BY <2>4, <2>5, <2>6, <2>7, Written DEF Succeeds, Created, n
<1>2. ASSUME NEW k \in Manifests, NEW s \in Specs, NEW p \in ProdLabels, EditManifest(k, s, p)
      PROVE  Succeeds(m)
  <2>. DEFINE w == WithSpec(api[k], Incoming(s))
              v == [w EXCEPT !.prod = p]
  <2>1. api[k] \in Versions /\ api[k].exists /\ p \in BOOLEAN
    BY <1>2, OperatorAssumption DEF OperatorAssumption, TypeOK, EditManifest
  <2>2. Incoming(s) \in StoredSpecs
    BY IncomingTyped DEF StoredSpecs
  <2>3. v \in Versions /\ w \in Versions
    BY <2>1, <2>2, WithSpecTyped
  <2>4. Updated(api[k], w)
    BY <2>1, WithSpecUpdates
  <2>5. Write(k, v)
    BY <1>2 DEF EditManifest
  <2>. HIDE DEF w
  <2>6. /\ v.exists = w.exists /\ v.uid = w.uid /\ v.status = w.status /\ v.gen = w.gen
        /\ v.spec = w.spec
    BY <2>3 DEF Versions, Records
  <2>. HIDE DEF v
  <2>7. Updated(api[k], v)
    BY <2>4, <2>6 DEF Updated
  <2>. QED  BY <2>3, <2>5, <2>7, UpdateSucceeds
<1>3. ASSUME NEW k \in Manifests, DeleteManifest(k)
      PROVE  Succeeds(m)
  <2>. DEFINE n == api[k].gen + 1
              v == [api[k] EXCEPT !.del = TRUE, !.gen = n]
  <2>1. api[k] \in Versions /\ n \in Nat /\ api[k].rv \in Nat /\ api[k].exists /\ api[k].gen \in Nat
    <3>1. api[k] \in Versions
      BY DEF TypeOK
    <3>. QED  BY <1>3, <3>1 DEF Versions, Records, DeleteManifest
  <2>2. CASE api[k].fin
    <3>1. Write(k, v)
      BY <1>3, <2>2 DEF DeleteManifest, Discard
    <3>2. n > api[k].gen
      BY <2>1
    <3>3. /\ v \in Versions /\ v.uid = api[k].uid /\ v.exists = api[k].exists
          /\ v.status = api[k].status /\ v.gen = n
      <4>. HIDE DEF n
      <4>. QED  BY <2>1, <2>2 DEF Versions, Records
    <3>. HIDE DEF v, n
    <3>4. v.gen \in Nat
      BY <2>1, <3>3
    <3>5. Updated(api[k], v)
      BY <2>1, <3>2, <3>3, <3>4 DEF Updated
    <3>. QED  BY <3>1, <3>3, <3>5, UpdateSucceeds
  <2>3. CASE ~api[k].fin
    <3>1. Write(k, NoManifest(api[k].rv))
      BY <1>3, <2>3 DEF DeleteManifest, Discard
    <3>2. NoManifest(api[k].rv) \in Versions /\ Gone(api[k], NoManifest(api[k].rv))
      BY <2>1, NoManifestTyped, NoManifestGone
    <3>. QED  BY <3>1, <3>2, UpdateSucceeds
  <2>. QED  BY <2>2, <2>3
<1>4. CASE Tamper
  BY <1>4 DEF Tamper, Succeeds
<1>. QED  BY <1>1, <1>2, <1>3, <1>4 DEF Users

LEMMA WorkSucceeds ==
  ASSUME TypeOK, Versioned, OneOperator, NEW op \in Operators, Work(op), NEW m \in Manifests
  PROVE  Succeeds(m)
<1>. DEFINE w == work[op]
            c == w.copy
            a == api[w.m]
<1>0. /\ w \in Calls /\ w.m \in Manifests /\ c \in Versions /\ a \in Versions
      /\ w.status \in Statuses /\ CallOK(w)
  BY DEF TypeOK, Calls
<1>1. ASSUME AddFinalizer(op), UpdateAccepted(w)
      PROVE  Succeeds(m)
  <2>. DEFINE s == WithSpec(c, Incoming(c.spec))
              v == [s EXCEPT !.fin = TRUE]
  <2>1. c.exists /\ c.spec \in StoredSpecs /\ w.pc # "idle"
    BY <1>0, <1>1 DEF AddFinalizer, CallOK, Versions
  <2>2. s \in Versions /\ v \in Versions
    <3>1. Incoming(c.spec) \in StoredSpecs
      BY <2>1, IncomingTyped
    <3>. QED  BY <1>0, <2>1, <3>1, WithSpecTyped
  <2>3. Updated(c, s)
    BY <1>0, <2>1, WithSpecUpdates
  <2>4. Write(w.m, v)
    BY <1>1 DEF AddFinalizer
  <2>5. /\ v.exists = s.exists /\ v.uid = s.uid /\ v.status = s.status /\ v.gen = s.gen
        /\ v.spec = s.spec
    <3>. HIDE DEF s
    <3>. QED  BY <2>2 DEF Versions, Records
  <2>6. c = a
    BY <1>1, <2>1, UpdateCurrent
  <2>. HIDE DEF v, w, s
  <2>7. Updated(a, v)
    BY <2>3, <2>5, <2>6 DEF Updated
  <2>. QED  BY <1>0, <2>2, <2>4, <2>7, UpdateSucceeds
<1>2. ASSUME PatchStatus(op), a.exists
      PROVE  Succeeds(m)
  <2>. DEFINE st == MergePatch(a.status, c.status, w.status)
              v  == [a EXCEPT !.status = st]
  <2>1. st \in Statuses
    BY <1>0, MergeTyped DEF Versions, Records
  <2>2. /\ v \in Versions /\ v.exists = a.exists /\ v.uid = a.uid /\ v.gen = a.gen
        /\ v.spec = a.spec /\ v.status = st
    <3>. HIDE DEF st
    <3>. QED  BY <1>0, <2>1 DEF Versions, Records
  <2>3. Write(w.m, v) /\ env' = env
    BY <1>2 DEF PatchStatus
  <2>. HIDE DEF v
  <2>4. api'[m] = api[m] \/ m = w.m
    BY <1>0, <2>2, <2>3, Written
  <2>5. CASE m = w.m /\ api'[m] # api[m]
    <3>1. api'[m].rv = api[m].rv + 1 /\ Patched(w, a, api'[m])
      BY <1>0, <1>2, <2>2, <2>3, <2>5, Written DEF Patched
    <3>. QED  BY <1>2, <2>3, <2>5, <3>1 DEF Succeeds
  <2>. QED  BY <2>4, <2>5 DEF Succeeds
<1>3. ASSUME RemoveFinalizer(op), UpdateAccepted(w)
      PROVE  Succeeds(m)
  <2>. DEFINE u == [c EXCEPT !.fin = FALSE]
  <2>1. Discard(w.m, u)
    BY <1>3 DEF RemoveFinalizer
  <2>2. ~u.fin /\ u.rv \in Nat
    BY <1>0 DEF Versions, Records
  <2>. HIDE DEF u
  <2>3. /\ Write(w.m, NoManifest(u.rv)) /\ NoManifest(u.rv) \in Versions
        /\ Gone(a, NoManifest(u.rv))
    BY <2>1, <2>2, NoManifestTyped, NoManifestGone DEF Discard
  <2>. HIDE DEF w
  <2>. QED  BY <1>0, <2>3, UpdateSucceeds
<1>4. ASSUME api' = api
      PROVE  Succeeds(m)
  BY <1>4 DEF Succeeds
<1>5. CASE ~(AddFinalizer(op) \/ PatchStatus(op) \/ RemoveFinalizer(op))
  BY <1>4, <1>5 DEF Work, ApplyObject, ApplyFails, ListOwned, ListNoMatch, CallFails, DeleteOwned
<1>. QED  BY <1>1, <1>2, <1>3, <1>4, <1>5 DEF AddFinalizer, PatchStatus, RemoveFinalizer

LEMMA StepSucceeds ==
  ASSUME TypeOK, Versioned, OneOperator, [Next]_vars, NEW m \in Manifests
  PROVE  Succeeds(m)
<1>1. CASE Users
  BY <1>1, UsersSucceed
<1>2. CASE ~Users /\ ~\E op \in Operators : Work(op)
  <2>1. api' = api
    BY <1>2, BeginTakes DEF Next, vars, CollectGarbage, Deliver, Restart, Take
  <2>. QED  BY <2>1 DEF Succeeds
<1>. QED  BY <1>1, <1>2, WorkSucceeds

(***************************************************************************)
(* Calls                                                                   *)
(***************************************************************************)

\* The report a call makes.
LEMMA ReportMade ==
  ASSUME NEW c \in Calls, NEW phase, NEW msg, NEW res, NEW retry, NEW w,
         w = StatusCall(c, phase, msg, res, retry)
  PROVE  /\ w.pc = "status" /\ w.copy = c.copy /\ w.status.obs = c.copy.gen
         /\ w.status.phase = phase /\ w.status.msg = msg
<1>. DEFINE st == Status(phase, msg, res, c.copy.gen)
            v == [c EXCEPT !.pc = "status", !.retry = retry, !.status = st]
<1>1. w = v
  BY DEF StatusCall
<1>2. st.obs = c.copy.gen /\ st.phase = phase /\ st.msg = msg
  BY DEF Status
<1>. HIDE DEF st
<1>3. v.pc = "status" /\ v.copy = c.copy /\ v.status = st
  BY DEF Calls
<1>. HIDE DEF v
<1>. QED  BY <1>1, <1>2, <1>3

\* A call begins with a report that is right, or without one.
LEMMA BeginReports ==
  ASSUME TypeOK, NEW op \in Operators, NEW m \in Manifests, Begin(op, m)
  PROVE  ReportOK(work'[op], env[op])
<1>. DEFINE c == cache[op][m]
            r == Call(op, m, "status")
            no == FALSE
            none == <<>>
<1>0. /\ \A pc \in {"addFinalizer", "apply", "list"} : Call(op, m, pc).pc = pc
      /\ r \in Calls /\ r.copy = c /\ c \in Versions /\ env[op] \in Environments
  BY CallTyped DEF TypeOK
<1>1. ASSUME NEW v, v.pc # "status", Take(op, m, v)
      PROVE  ReportOK(work'[op], env[op])
  <2>1. work'[op] = v
    BY <1>1, TakeMoves
  <2>. QED  BY <1>1, <2>1 DEF ReportOK
<1>2. CASE ReconcileNothing(op, m)
  BY <1>1, <1>2 DEF ReconcileNothing, Idle
<1>3. CASE ReconcileForbidden(op, m)
  <2>1. work'[op] = StatusCall(r, "Forbidden", ForbiddenMessage, none, no) /\ IsProd(env[op])
    BY <1>3, TakeMoves DEF ReconcileForbidden
  <2>2. ForbiddenMessage # Refusal
    BY NoRefusal DEF ForbiddenMessage
  <2>. HIDE DEF r, no, none
  <2>. QED  BY <1>0, <2>1, <2>2, ReportMade DEF ReportOK
<1>4. CASE ReconcileDeleting(op, m) \/ ReconcileUnfinalized(op, m) \/ ReconcileValid(op, m)
  <2>1. PICK pc \in {"addFinalizer", "apply", "list"} : Take(op, m, Call(op, m, pc))
    BY <1>4 DEF ReconcileDeleting, ReconcileUnfinalized, ReconcileValid
  <2>. QED  BY <1>0, <1>1, <2>1
<1>5. CASE ReconcileInvalid(op, m)
  <2>1. PICK msg \in Denials(c.spec, c.prod, env[op]) :
          work'[op] = StatusCall(r, "Error", msg, none, no)
    BY <1>5, TakeMoves DEF ReconcileInvalid
  <2>2. ~IsProd(env[op]) /\ c.exists /\ c.fin /\ ~c.del
    BY <1>5 DEF ReconcileInvalid
  <2>3. msg # Refusal
    BY <1>0, <2>1, <2>2, NoRefusal
  <2>. HIDE DEF c, r, no, none
  <2>4. /\ work'[op].copy = c /\ work'[op].status.obs = c.gen /\ work'[op].status.phase = "Error"
        /\ work'[op].status.msg = msg
    BY <1>0, <2>1, ReportMade
  <2>. QED  BY <2>1, <2>2, <2>3, <2>4 DEF ReportOK
<1>. QED  BY <1>2, <1>3, <1>4, <1>5 DEF Begin

\* So does an apply end.
LEMMA ApplyReports ==
  ASSUME NEW w \in Calls, CallOK(w), w.pc = "apply", NEW e, CallRight(w, e)
  PROVE  ReportOK(AfterApply(w), e) /\ ReportOK(ApplyFailed(w), e)
<1>. DEFINE d == Desired(w.m, w.copy.spec)
            ready == Message("generated", Len(d))
            failed == Message("apply", w.i)
            names == Names(d)
            no == FALSE
            yes == TRUE
            next == w.i + 1
            a == [w EXCEPT !.i = next]
            b == AfterApply(w)
            c == ApplyFailed(w)
<1>1. Len(d) \in Nat /\ w.i \in Nat
  BY DEF CallOK, Calls
<1>2. ready # Refusal /\ failed # Refusal
  BY <1>1, NoRefusal
<1>3. Admitted(w.copy.spec, w.copy.prod, e) /\ w.copy.fin /\ ~w.copy.del /\ ~IsProd(e)
  BY DEF CallRight, CallOK, Admitted, Denials
<1>4. \/ b = a
      \/ b = StatusCall(w, "Ready", ready, names, no)
  BY DEF AfterApply
<1>5. c = StatusCall(w, "Error", failed, names, yes)
  BY DEF ApplyFailed
<1>. HIDE DEF d, ready, failed, names, no, yes, next, b, c
<1>6. a.pc = "apply"
  BY DEF Calls
<1>. HIDE DEF a
<1>7. b # a => /\ b.copy = w.copy /\ b.status.obs = w.copy.gen /\ b.status.msg = ready
  BY <1>4, ReportMade
<1>8. c.copy = w.copy /\ c.status.obs = w.copy.gen /\ c.status.msg = failed
  BY <1>5, ReportMade
<1>9. ReportOK(b, e) /\ ReportOK(c, e)
  BY <1>2, <1>3, <1>6, <1>7, <1>8 DEF ReportOK
<1>. QED  BY <1>9 DEF b, c

\* A step of a call that goes on reports at the end of an apply only.
LEMMA ReportSteps ==
  ASSUME TypeOK, NEW op \in Operators, Work(op), work'[op].pc = "status"
  PROVE  /\ work[op].pc = "apply"
         /\ work'[op] = AfterApply(work[op]) \/ work'[op] = ApplyFailed(work[op])
<1>. DEFINE w == work[op]
<1>0. w \in Calls
  BY DEF TypeOK
<1>1. CASE AddFinalizer(op) \/ PatchStatus(op) \/ RemoveFinalizer(op) \/ CallFails(op)
  BY <1>1, EndsIdle DEF AddFinalizer, PatchStatus, RemoveFinalizer, CallFails, Answered
<1>2. CASE ApplyObject(op) \/ ApplyFails(op)
  BY <1>2, GoesOn DEF ApplyObject, ApplyFails, Answered
<1>3. NextPlace(w).pc \in {"list", "removeFinalizer"}
  BY <1>0 DEF NextPlace, Calls
<1>4. CASE ListOwned(op) \/ ListNoMatch(op)
  <2>. DEFINE items == Labelled(w.m, SweepPlan(w.m)[w.i])
              c == [w EXCEPT !.pc = "delete", !.items = items]
  <2>1. GoOn(op, NextPlace(w)) \/ GoOn(op, c)
    BY <1>4 DEF ListOwned, ListNoMatch
  <2>. HIDE DEF items
  <2>2. c.pc = "delete"
    BY <1>0 DEF Calls
  <2>. HIDE DEF c
  <2>. QED  BY <1>3, <2>1, <2>2, GoesOn
<1>5. ASSUME NEW k \in w.items, DeleteOwned(op, k)
      PROVE  FALSE
  <2>. DEFINE rest == w.items \ {k}
              c == [w EXCEPT !.items = rest]
  <2>1. w.pc = "delete" /\ (GoOn(op, NextPlace(w)) \/ GoOn(op, c) \/ Requeue(op))
    BY <1>5 DEF DeleteOwned, Answered
  <2>. HIDE DEF rest
  <2>2. c.pc = w.pc
    BY <1>0, CallCarried
  <2>. HIDE DEF c
  <2>. QED  BY <1>3, <2>1, <2>2, GoesOn, EndsIdle
<1>. QED  BY <1>1, <1>2, <1>4, <1>5 DEF Work

LEMMA ReportStep ==
  ASSUME TypeOK, [Next]_vars, NEW op \in Operators,
         ReportOK(work[op], env[op]), CallRight(work[op], env[op])
  PROVE  ReportOK(work[op], env[op])'
<1>. DEFINE w == work[op]
<1>0. w \in Calls /\ CallOK(w)
  BY DEF TypeOK
<1>1. CASE work'[op] = work[op] /\ env'[op] = env[op]
  <2>1. PICK v, e : v = w /\ e = env[op]
    OBVIOUS
  <2>. QED  BY <1>1, <2>1
<1>2. ASSUME NEW v, ReportOK(v, env[op]), work'[op] = v, env' = env
      PROVE  ReportOK(work[op], env[op])'
  <2>1. PICK u, e : u = v /\ e = env[op]
    OBVIOUS
  <2>. QED  BY <1>2, <2>1
<1>3. CASE Users \/ CollectGarbage \/ UNCHANGED vars
  BY <1>1, <1>3, OutsideSteps DEF Outside
<1>4. CASE \E o \in Operators, k \in Manifests : Deliver(o, k)
  BY <1>1, <1>4, DeliverMoves
<1>5. ASSUME NEW o \in Operators, NEW k \in Manifests, Begin(o, k)
      PROVE  ReportOK(work[op], env[op])'
  <2>1. PICK v : Take(o, k, v)
    BY <1>5, BeginTakes
  <2>2. env' = env /\ (o # op => work'[op] = work[op])
    BY <2>1, TakeMoves
  <2>3. CASE o = op
    <3>1. ReportOK(work'[op], env[op])
      BY <1>5, <2>3, BeginReports
    <3>. QED  BY <1>2, <2>2, <3>1
  <2>. QED  BY <1>1, <2>2, <2>3
<1>6. ASSUME NEW o \in Operators, Restart(o)
      PROVE  ReportOK(work[op], env[op])'
  <2>1. CASE o = op
    <3>1. work'[op] = Idle /\ Idle.pc = "idle"
      BY <1>6, <2>1, RestartMoves DEF Idle
    <3>. QED  BY <3>1 DEF ReportOK
  <2>. QED  BY <1>1, <1>6, <2>1, RestartMoves
<1>7. ASSUME NEW o \in Operators, Work(o)
      PROVE  ReportOK(work[op], env[op])'
  <2>1. env' = env /\ (o # op => work'[op] = work[op])
    BY <1>7, WorkSteps DEF WorkStep
  <2>2. CASE o = op
    <3>1. CASE work'[op].pc = "status"
      <4>1. w.pc = "apply" /\ (work'[op] = AfterApply(w) \/ work'[op] = ApplyFailed(w))
        BY <1>7, <2>2, <3>1, ReportSteps
      <4>2. ReportOK(AfterApply(w), env[op]) /\ ReportOK(ApplyFailed(w), env[op])
        BY <1>0, <4>1, ApplyReports
      <4>. QED  BY <1>2, <2>1, <4>1, <4>2
    <3>2. CASE work'[op].pc # "status"
      BY <3>2 DEF ReportOK
    <3>. QED  BY <3>1, <3>2
  <2>. QED  BY <1>1, <2>1, <2>2
<1>. QED  BY <1>3, <1>4, <1>5, <1>6, <1>7 DEF Next

(***************************************************************************)
(* Generations and reports                                                 *)
(***************************************************************************)

LEMMA KnownTyped ==
  ASSUME TypeOK, NEW op \in Operators, NEW m \in Manifests
  PROVE  KnownOrCurrent(op, m) \subseteq Versions
<1>1. /\ api[m] \in Versions /\ cache[op][m] \in Versions /\ work[op].copy \in Versions
      /\ watch[op][m] \in Seq(Versions)
  BY DEF TypeOK, Calls
<1>2. ToSet(watch[op][m]) \subseteq Versions
  BY <1>1 DEF ToSet
<1>. QED  BY <1>1, <1>2 DEF KnownOrCurrent, Known

\* No version that may still be read is older than the one a call works on.
LEMMA CopyOldest ==
  ASSUME TypeOK, Versioned, NEW op \in Operators, NEW m \in Manifests, OnCall(op, m)
  PROVE  /\ work[op].copy \in Known(op, m)
         /\ \A u \in KnownOrCurrent(op, m) : work[op].copy.rv <= u.rv
<1>. DEFINE c == work[op].copy
            coming == watch[op][m]
<1>1. /\ c \in Known(op, m) /\ InOrder(op, m) /\ \A u \in Known(op, m) : VersionOK(m, u)
  BY DEF Versioned, Known, OnCall
<1>2. \A u \in KnownOrCurrent(op, m) : u.rv \in Nat
  BY KnownTyped DEF Versions, Records
<1>3. c.rv <= cache[op][m].rv /\ c.rv <= api[m].rv
  BY <1>1 DEF InOrder, OnCall, VersionOK
<1>4. ASSUME NEW u \in ToSet(coming)
      PROVE  c.rv <= u.rv
  <2>1. coming \in Seq(Versions)
    BY DEF TypeOK
  <2>2. PICK i \in 1..Len(coming) : u = coming[i]
    BY <2>1 DEF ToSet
  <2>3. cache[op][m].rv <= u.rv
    BY <1>1, <2>2 DEF InOrder
  <2>. QED  BY <1>1, <1>2, <1>3, <2>3 DEF KnownOrCurrent, Known
<1>5. ASSUME NEW u \in KnownOrCurrent(op, m)
      PROVE  c.rv <= u.rv
  BY <1>1, <1>2, <1>3, <1>4, <1>5 DEF KnownOrCurrent, Known
<1>. QED  BY <1>1, <1>5

LEMMA GenerationsStep ==
  ASSUME TypeOK, TypeOK', Versioned, OneOperator, [Next]_vars,
         NEW op \in Operators, NEW m \in Manifests, Generations(op, m)
  PROVE  Generations(op, m)'
<1>. DEFINE a == api[m]
            b == api'[m]
            K == KnownOrCurrent(op, m)
<1>1. Known(op, m)' \subseteq K \cup {b} /\ KnownOrCurrent(op, m)' \subseteq K \cup {b}
  BY KnownGrows DEF KnownOrCurrent
<1>2. /\ \A u \in K : u.gen \in Nat /\ u.rv \in Nat /\ u.uid \in Nat
      /\ b.gen \in Nat /\ b.rv \in Nat /\ b.uid \in Nat /\ a \in K
  <2>1. b \in Versions /\ K \subseteq Versions /\ a \in K
    BY KnownTyped DEF TypeOK, KnownOrCurrent
  <2>. QED  BY <2>1 DEF Versions, Records
<1>3. \A u \in K : u.rv <= a.rv
  BY <1>2 DEF KnownOrCurrent, Versioned, VersionOK
<1>4. /\ \A u \in K : /\ u.exists => u.gen >= 1 /\ u.uid <= a.rv
                      /\ SameIncarnation(u, a) /\ u.gen = a.gen => u.spec = a.spec
      /\ \A u, v \in K : SameIncarnation(u, v) /\ u.rv <= v.rv => u.gen <= v.gen
  BY DEF Generations
<1>5. ASSUME /\ \A u \in K \cup {b} :
                   /\ u.exists => u.gen >= 1 /\ u.uid <= b.rv
                   /\ SameIncarnation(u, b) /\ u.gen = b.gen => u.spec = b.spec
             /\ \A u, v \in K \cup {b} : SameIncarnation(u, v) /\ u.rv <= v.rv => u.gen <= v.gen
      PROVE  Generations(op, m)'
  BY <1>1, <1>5 DEF Generations, SameIncarnation
<1>. HIDE DEF K
<1>6. CASE b = a
  BY <1>2, <1>4, <1>5, <1>6
<1>7. CASE b.rv = a.rv + 1 /\ Gone(a, b)
  BY <1>2, <1>3, <1>4, <1>5, <1>7 DEF Gone, SameIncarnation
<1>8. CASE b.rv = a.rv + 1 /\ Created(a, b)
  <2>1. \A u \in K : ~SameIncarnation(u, b) /\ ~SameIncarnation(b, u)
    BY <1>2, <1>4, <1>8 DEF Created, SameIncarnation
  <2>. QED  BY <1>2, <1>3, <1>4, <1>5, <1>8, <2>1 DEF Created
<1>9. CASE /\ b.rv = a.rv + 1 /\ a.exists /\ b.exists /\ b.uid = a.uid /\ b.gen >= a.gen
           /\ b.gen = a.gen => b.spec = a.spec
  <2>1. \A u \in K : SameIncarnation(u, b) => SameIncarnation(u, a) /\ u.gen <= a.gen
    BY <1>2, <1>3, <1>4, <1>9 DEF SameIncarnation
  <2>2. ASSUME NEW u \in K \cup {b}
        PROVE  /\ u.exists => u.gen >= 1 /\ u.uid <= b.rv
               /\ SameIncarnation(u, b) /\ u.gen = b.gen => u.spec = b.spec
    <3>1. CASE u \in K
      BY <1>2, <1>4, <1>9, <2>1, <3>1
    <3>2. CASE u = b
      BY <1>2, <1>4, <1>9, <3>2
    <3>. QED  BY <3>1, <3>2
  <2>3. ASSUME NEW u \in K \cup {b}, NEW v \in K \cup {b}, SameIncarnation(u, v), u.rv <= v.rv
        PROVE  u.gen <= v.gen
    <3>1. CASE u \in K /\ v \in K
      BY <1>4, <2>3, <3>1
    <3>2. CASE u \in K /\ v = b
      BY <1>2, <1>9, <2>1, <2>3, <3>2
    <3>3. CASE u = b /\ v \in K
      BY <1>2, <1>3, <1>9, <2>3, <3>3
    <3>. QED  BY <1>2, <3>1, <3>2, <3>3
  <2>. QED  BY <1>5, <2>2, <2>3
<1>10. Succeeds(m)
  BY StepSucceeds
<1>. QED  BY <1>2, <1>6, <1>7, <1>8, <1>9, <1>10 DEF Succeeds, Updated, Patched

\* The fields of a merged status.
LEMMA Merged ==
  ASSUME NEW a, NEW b, NEW c, NEW st, st = MergePatch(a, b, c)
  PROVE  /\ st.phase = IF c.phase # b.phase THEN c.phase ELSE a.phase
         /\ st.msg = IF c.msg # b.msg THEN c.msg ELSE a.msg
         /\ st.obs = IF c.obs # b.obs THEN c.obs ELSE a.obs
BY DEF MergePatch, Merge, Status

\* A development operator reports of the current incarnation, and is not
\* behind what was reported before.
LEMMA ReportsCurrent ==
  ASSUME TypeOK, Versioned, NEW op \in Operators, NEW m \in Manifests,
         Generations(op, m), ReportedOK(op, m), ReportOK(work[op], env[op]),
         \A v \in Known(op, m) : ReadOK(m, v),
         work[op].m = m, work[op].pc = "status", api[m].exists, ~IsProd(env[op])
  PROVE  /\ SameIncarnation(work[op].copy, api[m])
         /\ \A u \in KnownOrCurrent(op, m) :
              SameIncarnation(u, api[m]) => work[op].copy.gen <= u.gen
         /\ \/ api[m].status.obs <= work[op].copy.gen
            \/ work[op].copy.status = api[m].status /\ api[m].status.phase # "Error"
<1>. DEFINE c == work[op].copy
            a == api[m]
<1>1. /\ c \in Known(op, m) /\ \A u \in KnownOrCurrent(op, m) : c.rv <= u.rv
      /\ Known(op, m) \subseteq KnownOrCurrent(op, m)
  BY CopyOldest DEF OnCall, KnownOrCurrent
<1>2. c.exists
  BY DEF TypeOK, CallOK
<1>3. c.fin /\ ~c.del
  BY DEF ReportOK
<1>4. c.uid = a.uid
  BY <1>1, <1>3 DEF ReadOK
<1>5. SameIncarnation(c, a)
  BY <1>2, <1>4 DEF SameIncarnation
<1>6. ASSUME NEW u \in KnownOrCurrent(op, m), SameIncarnation(u, a)
      PROVE  c.gen <= u.gen
  <2>1. SameIncarnation(c, u) /\ c.rv <= u.rv
    BY <1>1, <1>5, <1>6 DEF SameIncarnation
  <2>. QED  BY <1>1, <2>1 DEF Generations
<1>. QED  BY <1>1, <1>5, <1>6 DEF ReportedOK

\* The environment changes with a restart only.
LEMMA EnvironmentStays ==
  ASSUME TypeOK, [Next]_vars, ~\E o \in Operators : Restart(o)
  PROVE  env' = env
<1>1. CASE Users \/ CollectGarbage \/ UNCHANGED vars
  BY <1>1, OutsideSteps DEF Outside
<1>2. CASE \E o \in Operators, k \in Manifests : Deliver(o, k)
  BY <1>2 DEF Deliver
<1>3. CASE \E o \in Operators, k \in Manifests : Begin(o, k)
  BY <1>3, BeginTakes DEF Take
<1>4. CASE \E o \in Operators : Work(o)
  BY <1>4, WorkSteps DEF WorkStep
<1>. QED  BY <1>1, <1>2, <1>3, <1>4 DEF Next

LEMMA ReportedStep ==
  ASSUME TypeOK, TypeOK', Versioned, OneOperator, [Next]_vars,
         NEW op \in Operators, NEW m \in Manifests,
         Generations(op, m), ReportedOK(op, m), ReportOK(work[op], env[op]),
         \A v \in Known(op, m) : ReadOK(m, v)
  PROVE  ReportedOK(op, m)'
<1>. DEFINE a == api[m]
            b == api'[m]
            st == a.status
            K == KnownOrCurrent(op, m)
            New == /\ b.status.msg # Refusal
                   /\ b.status.phase = "Error" => b.exists /\ b.status.obs <= b.gen
                   /\ IsProd(env[op]) /\ b.status.phase = "Error" =>
                        \A u \in Known(op, m) \cup {b} : u.exists => u.status = b.status
                   /\ ~IsProd(env[op]) =>
                        \A u \in K \cup {b} : SameIncarnation(u, b) =>
                           b.status.obs <= u.gen
                             \/ (u.status = b.status /\ b.status.phase # "Error")
<1>1. /\ Known(op, m)' \subseteq Known(op, m) \cup {b}
      /\ KnownOrCurrent(op, m)' \subseteq K \cup {b}
  BY KnownGrows DEF KnownOrCurrent
<1>2. /\ \A u \in K : u.gen \in Nat /\ u.rv \in Nat /\ u.status.obs \in Nat
      /\ b.gen \in Nat /\ b.status.obs \in Nat /\ a \in K /\ Known(op, m) \subseteq K
  <2>1. b \in Versions /\ K \subseteq Versions /\ a \in K
    BY KnownTyped DEF TypeOK, KnownOrCurrent
  <2>2. \A u \in Versions : u.gen \in Nat /\ u.rv \in Nat /\ u.status \in Statuses
    BY DEF Versions, Records
  <2>. QED  BY <2>1, <2>2 DEF Statuses, KnownOrCurrent
<1>3. /\ st.msg # Refusal
      /\ st.phase = "Error" => a.exists /\ st.obs <= a.gen
      /\ IsProd(env[op]) /\ st.phase = "Error" =>
           \A u \in Known(op, m) : u.exists => u.status = st
      /\ ~IsProd(env[op]) =>
           \A u \in K : SameIncarnation(u, a) =>
              st.obs <= u.gen \/ (u.status = st /\ st.phase # "Error")
  BY DEF ReportedOK
<1>4. ASSUME New, env' = env
      PROVE  ReportedOK(op, m)'
  BY <1>1, <1>4 DEF ReportedOK, SameIncarnation
<1>5. CASE \E o \in Operators : Restart(o)
  <2>1. /\ api' = api /\ cache'[op] = api /\ watch'[op][m] = <<>>
        /\ work'[op] = Idle /\ Idle.pc = "idle"
    BY <1>5, RestartMoves DEF OneOperator, Idle
  <2>2. Known(op, m)' = {a} /\ KnownOrCurrent(op, m)' = {a} /\ api'[m] = a
    BY <2>1 DEF Known, KnownOrCurrent, ToSet
  <2>. QED  BY <1>2, <1>3, <2>2 DEF ReportedOK
<1>. HIDE DEF K
<1>6. ASSUME b = a
      PROVE  New
  BY <1>2, <1>3, <1>6
<1>7. NoStatus.phase = "" /\ NoStatus.msg = <<>> /\ NoStatus.obs = 0 /\ <<>> # Refusal
  BY NoRefusal DEF NoStatus, Status
<1>8. ASSUME Gone(a, b)
      PROVE  New
  BY <1>7, <1>8 DEF Gone, SameIncarnation
<1>9. ASSUME Created(a, b)
      PROVE  New
  <2>1. b.status = NoStatus
    BY <1>9 DEF Created
  <2>2. b.status.phase = "" /\ b.status.msg # Refusal /\ b.status.obs = 0
    BY <1>7, <2>1
  <2>3. \A u \in K \cup {b} : 0 <= u.gen
    BY <1>2
  <2>. QED  BY <2>2, <2>3
<1>10. ASSUME Updated(a, b)
      PROVE  New
  <2>1. \A u \in K : SameIncarnation(u, b) => SameIncarnation(u, a)
    BY <1>10 DEF Updated, SameIncarnation
  <2>2. b.status.phase = "Error" => b.status.obs <= b.gen
    BY <1>2, <1>3, <1>10 DEF Updated
  <2>. QED  BY <1>2, <1>3, <1>10, <2>1, <2>2 DEF Updated
<1>11. ASSUME PatchStatus(op) /\ work[op].m = m /\ Patched(work[op], a, b)
      PROVE  New
  <2>. DEFINE w == work[op]
              c == w.copy
  <2>1. /\ w.pc = "status" /\ a.exists /\ b.exists /\ b.uid = a.uid /\ b.gen = a.gen
        /\ b.status = MergePatch(st, c.status, w.status)
    BY <1>11 DEF PatchStatus, Patched
  <2>2. c.exists /\ c \in Known(op, m)
    BY <1>11, <2>1, CopyOldest DEF TypeOK, CallOK, OnCall
  <2>3. w.status.obs = c.gen /\ w.status.msg # Refusal
    BY <2>1 DEF ReportOK
  <2>4. /\ b.status.phase = IF w.status.phase # c.status.phase THEN w.status.phase ELSE st.phase
        /\ b.status.msg \in {st.msg, w.status.msg}
        /\ b.status.obs = IF c.gen # c.status.obs THEN c.gen ELSE st.obs
    BY <2>1, <2>3, Merged
  <2>5. b.status.msg # Refusal
    BY <1>3, <2>3, <2>4
  <2>6. CASE IsProd(env[op])
    <3>1. w.status.phase = "Forbidden"
      BY <2>1, <2>6 DEF ReportOK
    <3>2. b.status.phase # "Error"
      BY <1>3, <2>2, <2>4, <2>6, <3>1
    <3>. QED  BY <2>5, <2>6, <3>2
  <2>7. CASE ~IsProd(env[op])
    <3>1. /\ SameIncarnation(c, a)
          /\ \A u \in K : SameIncarnation(u, a) => c.gen <= u.gen
          /\ st.obs <= c.gen \/ (c.status = st /\ st.phase # "Error")
      BY <1>11, <2>1, <2>7, ReportsCurrent DEF K
    <3>2. b.status.obs <= c.gen /\ c.gen \in Nat
      BY <1>2, <2>2, <2>4, <3>1
    <3>3. SameIncarnation(a, a) /\ c.gen <= b.gen
      BY <1>2, <2>1, <3>1 DEF SameIncarnation
    <3>4. \A u \in K : SameIncarnation(u, b) => SameIncarnation(u, a)
      BY <2>1 DEF SameIncarnation
    <3>5. \A u \in K \cup {b} : SameIncarnation(u, b) => b.status.obs <= u.gen
      BY <1>2, <3>1, <3>2, <3>3, <3>4
    <3>6. b.status.obs <= b.gen
      BY <1>2, <3>2, <3>3
    <3>. QED  BY <2>1, <2>5, <2>7, <3>5, <3>6
  <2>. QED  BY <2>6, <2>7
<1>12. Succeeds(m)
  BY StepSucceeds
<1>13. b = a \/ Gone(a, b) \/ Created(a, b) \/ Updated(a, b)
        \/ (PatchStatus(op) /\ work[op].m = m /\ Patched(work[op], a, b))
  BY <1>12 DEF Succeeds, OneOperator
<1>. HIDE DEF New
<1>14. New
  BY <1>6, <1>8, <1>9, <1>10, <1>11, <1>13
<1>. QED  BY <1>4, <1>5, <1>14, EnvironmentStays

(***************************************************************************)
(* The last word                                                           *)
(***************************************************************************)

\* What is known is read of the current incarnation, where it is live.
Reads == \A op \in Operators, m \in Manifests : \A v \in Known(op, m) : ReadOK(m, v)

LEMMA ErrorsInit ==
  ASSUME Init
  PROVE  ErrorsInvariant /\ Reads
<1>1. ASSUME NEW op \in Operators
      PROVE  ReportOK(work[op], env[op])
  BY DEF Init, Idle, ReportOK
<1>2. ASSUME NEW op \in Operators, NEW m \in Manifests
      PROVE  /\ Generations(op, m) /\ ReportedOK(op, m)
             /\ \A v \in Known(op, m) : ReadOK(m, v)
  <2>1. api[m] = NoManifest(0) /\ cache[op][m] = api[m] /\ watch[op][m] = <<>> /\ work[op] = Idle
    BY DEF Init
  <2>2. Known(op, m) = {api[m]} /\ KnownOrCurrent(op, m) = {api[m]}
    BY <2>1 DEF Known, KnownOrCurrent, ToSet, Idle
  <2>3. ~api[m].exists /\ ~api[m].fin /\ ~api[m].del /\ api[m].status = NoStatus
    BY <2>1 DEF NoManifest
  <2>4. NoStatus.phase = "" /\ NoStatus.msg # Refusal
    BY NoRefusal DEF NoStatus, Status
  <2>5. Generations(op, m)
    BY <2>2, <2>3 DEF Generations, SameIncarnation
  <2>6. ReportedOK(op, m)
    BY <2>2, <2>3, <2>4 DEF ReportedOK, SameIncarnation
  <2>. QED  BY <2>2, <2>3, <2>5, <2>6 DEF ReadOK
<1>. QED  BY <1>1, <1>2 DEF ErrorsInvariant, Reads

LEMMA ErrorsStep ==
  ASSUME TypeOK, TypeOK', StatusInvariant, Versioned, Versioned', OneOperator, [Next]_vars,
         Reads, ErrorsInvariant
  PROVE  ErrorsInvariant' /\ Reads'
<1>1. ASSUME NEW op \in Operators
      PROVE  ReportOK(work[op], env[op])'
  BY ReportStep DEF ErrorsInvariant, StatusInvariant
<1>2. ASSUME NEW op \in Operators, NEW m \in Manifests
      PROVE  Generations(op, m)' /\ ReportedOK(op, m)'
  <2>1. /\ Generations(op, m) /\ ReportedOK(op, m) /\ ReportOK(work[op], env[op])
        /\ \A v \in Known(op, m) : ReadOK(m, v)
    BY DEF ErrorsInvariant, Reads
  <2>. QED  BY <2>1, GenerationsStep, ReportedStep
<1>3. Reads'
  BY ReadStep DEF Reads
<1>. QED  BY <1>1, <1>2, <1>3 DEF ErrorsInvariant

\* A status that is replaced, but for its resources.
LEMMA SameButResources ==
  ASSUME NEW st \in Statuses, NEW new \in Statuses,
         new.phase = st.phase, new.msg = st.msg, new.obs = st.obs
  PROVE  new = [st EXCEPT !.res = new.res]
BY DEF Statuses

LEMMA ErrorKept ==
  ASSUME TypeOK, TypeOK', Versioned, OneOperator, [Next]_vars, Reads, ErrorsInvariant,
         NEW op \in Operators, NEW m \in Manifests,
         api[m].status.phase = "Error", api[m].status.obs = api[m].gen, api'[m].gen = api[m].gen,
         Denials(api[m].spec, api[m].prod, env[op]) = {api[m].status.msg},
         \A u \in Known(op, m) : u.exists => u.prod = api[m].prod
  PROVE  api'[m].status = [api[m].status EXCEPT !.res = api'[m].status.res]
<1>. DEFINE a == api[m]
            b == api'[m]
            st == a.status
            Same == b.status.phase = st.phase /\ b.status.msg = st.msg /\ b.status.obs = st.obs
<1>1. /\ Generations(op, m) /\ ReportedOK(op, m) /\ ReportOK(work[op], env[op])
      /\ \A v \in Known(op, m) : ReadOK(m, v)
  BY DEF ErrorsInvariant, Reads
<1>2. st.msg # Refusal /\ a.exists /\ a.gen >= 1
  BY <1>1 DEF ReportedOK, Generations, KnownOrCurrent
<1>3. ~IsProd(env[op])
  BY <1>2 DEF Denials, Refusal
<1>4. ~Gone(a, b) /\ ~Created(a, b)
  BY <1>2 DEF Gone, Created
<1>5. ASSUME Updated(a, b) \/ b = a
      PROVE  Same
  BY <1>5 DEF Updated
<1>6. ASSUME PatchStatus(op), work[op].m = m, Patched(work[op], a, b)
      PROVE  Same
  <2>. DEFINE w == work[op]
              c == w.copy
  <2>1. w.pc = "status" /\ b.status = MergePatch(st, c.status, w.status)
    BY <1>6 DEF PatchStatus, Patched
  <2>2. /\ c \in Known(op, m) /\ c.exists /\ SameIncarnation(c, a)
        /\ st.obs <= c.gen /\ c.gen <= a.gen
    <3>1. /\ SameIncarnation(c, a)
          /\ \A u \in KnownOrCurrent(op, m) : SameIncarnation(u, a) => c.gen <= u.gen
          /\ st.obs <= c.gen
      BY <1>1, <1>2, <1>3, <1>6, <2>1, ReportsCurrent
    <3>2. c \in Known(op, m)
      BY <1>6, <2>1, CopyOldest DEF OnCall
    <3>. QED  BY <1>2, <3>1, <3>2 DEF SameIncarnation, KnownOrCurrent
  <2>3. c.gen = a.gen
    <3>1. c \in Versions /\ a \in Versions
      BY DEF TypeOK, Calls
    <3>. QED  BY <2>2, <3>1 DEF Versions, Records
  <2>4. c.spec = a.spec /\ c.prod = a.prod
    BY <1>1, <2>2, <2>3 DEF Generations, KnownOrCurrent
  <2>5. Denials(c.spec, c.prod, env[op]) = {st.msg}
    BY <2>4
  <2>6. w.status.phase = "Error" /\ w.status.msg = st.msg /\ w.status.obs = st.obs
    BY <1>1, <1>3, <2>1, <2>3, <2>5 DEF ReportOK, Admitted
  <2>. QED  BY <2>1, <2>6, Merged
<1>7. Succeeds(m)
  BY StepSucceeds
<1>8. Same
  <2>1. \/ b = a \/ Gone(a, b) \/ Created(a, b) \/ Updated(a, b)
        \/ (PatchStatus(op) /\ work[op].m = m /\ Patched(work[op], a, b))
    BY <1>7 DEF Succeeds, OneOperator
  <2>. HIDE DEF Same
  <2>. QED  BY <1>4, <1>5, <1>6, <2>1
<1>9. st \in Statuses /\ b.status \in Statuses
  <2>1. a \in Versions /\ b \in Versions
    BY DEF TypeOK
  <2>. QED  BY <2>1 DEF Versions, Records
<1>. QED  BY <1>8, <1>9, SameButResources

\* controller.go:105: one operator process, whatever copies it works on,
\* wherever it dies, and whatever environment it is started in again, reports
\* nothing else of a generation it has reported an error for.
THEOREM ErrorsSafe == OneOperator => (Spec => ErrorWrittenOnce)
<1>. SUFFICES ASSUME OneOperator
              PROVE  Spec => ErrorWrittenOnce
  OBVIOUS
<1>. DEFINE Once ==
              \A m \in Manifests, op \in Operators :
                LET v == api[m]
                IN  /\ v.status.phase = "Error" /\ v.status.obs = v.gen /\ api'[m].gen = v.gen
                    /\ Denials(v.spec, v.prod, env[op]) = {v.status.msg}
                    /\ \A u \in Known(op, m) : u.exists => u.prod = v.prod
                    => api'[m].status = [v.status EXCEPT !.res = api'[m].status.res]
<1>1. Init => Versioned /\ StatusInvariant /\ ErrorsInvariant /\ Reads
  BY VersionedInit, StatusInit, ErrorsInit
<1>2. TypeOK /\ Versioned /\ [Next]_vars => Versioned'
  BY VersionedStep
<1>3. /\ TypeOK /\ TypeOK' /\ StatusInvariant /\ Versioned /\ Versioned' /\ [Next]_vars
      /\ Reads /\ ErrorsInvariant
      => ErrorsInvariant' /\ Reads'
  BY ErrorsStep
<1>4. TypeOK /\ TypeOK' /\ Versioned /\ Reads /\ ErrorsInvariant /\ [Next]_vars => [Once]_vars
  BY ErrorKept
<1>5. [][Once]_vars => ErrorWrittenOnce
  BY DEF ErrorWrittenOnce
<1>. HIDE DEF Once
<1>. QED  BY <1>1, <1>2, <1>3, <1>4, <1>5, StatusSafe, TypeCorrect, PTL DEF Spec

(***************************************************************************)
(* The metrics                                                             *)
(***************************************************************************)

\* Both metrics are kept for every operator and manifest.
MetricsTyped ==
  /\ gauge = [op \in Operators |-> [m \in Manifests |-> gauge[op][m]]]
  /\ counted = [op \in Operators |-> [m \in Manifests |-> counted[op][m]]]

\* How the last pass over a manifest is to be counted, by what became of it.
Outcomes(v) ==
  IF ~v.exists THEN {"", "deleted"}
  ELSE { CASE v.status.phase = "Ready"     -> "success"
           [] v.status.phase = "Forbidden" -> "forbidden"
           [] OTHER                        -> "error" }

\* Where an operator is done, the last pass was counted as what it was.
CountedRight(op, m) == Settled(op, m) => counted[op][m] \in Outcomes(api[m])

\* The gauge is set before the status is patched, and is right once it is.
GaugeRight(op, m) ==
  /\ Settled(op, m) /\ api[m].exists /\ api[m].status.phase = "Ready" =>
       gauge[op][m] = Len(api[m].status.res)
  /\ OnCall(op, m) /\ work[op].pc = "status" /\ work[op].status.phase = "Ready" =>
       gauge[op][m] = Len(work[op].status.res)

MetricsInvariant ==
  /\ MetricsTyped
  /\ \A op \in Operators, m \in Manifests : CountedRight(op, m) /\ GaugeRight(op, m)

\* The metrics change for one operator and manifest at most.
OnlyAt(o, k) ==
  /\ \A p \in Operators, m \in Manifests : p # o \/ m # k =>
        counted'[p][m] = counted[p][m] /\ gauge'[p][m] = gauge[p][m]
  /\ MetricsTyped'

LEMMA Counts ==
  ASSUME MetricsTyped, NEW o \in Operators, NEW k \in Manifests, NEW r, ObserveReconcile(o, k, r)
  PROVE  /\ counted'[o][k] = r
         /\ counted' = [op \in Operators |-> [m \in Manifests |-> counted'[op][m]]]
         /\ \A p \in Operators, m \in Manifests : p # o \/ m # k => counted'[p][m] = counted[p][m]
BY DEF MetricsTyped, ObserveReconcile

LEMMA Sets ==
  ASSUME MetricsTyped, NEW o \in Operators, NEW k \in Manifests, NEW n, SetGenerated(o, k, n)
  PROVE  /\ gauge'[o][k] = n
         /\ gauge' = [op \in Operators |-> [m \in Manifests |-> gauge'[op][m]]]
         /\ \A p \in Operators, m \in Manifests : p # o \/ m # k => gauge'[p][m] = gauge[p][m]
BY DEF MetricsTyped, SetGenerated

\* Where a pass is counted and the gauge set, or not.
LEMMA Measures ==
  ASSUME MetricsTyped, NEW o \in Operators, NEW k \in Manifests,
         counted' = counted \/ \E r : ObserveReconcile(o, k, r),
         gauge' = gauge \/ \E n : SetGenerated(o, k, n)
  PROVE  OnlyAt(o, k)
<1>1. /\ counted' = [op \in Operators |-> [m \in Manifests |-> counted'[op][m]]]
      /\ \A p \in Operators, m \in Manifests : p # o \/ m # k => counted'[p][m] = counted[p][m]
  <2>1. CASE counted' = counted
    BY <2>1 DEF MetricsTyped
  <2>2. CASE \E r : ObserveReconcile(o, k, r)
    BY <2>2, Counts
  <2>. QED  BY <2>1, <2>2
<1>2. /\ gauge' = [op \in Operators |-> [m \in Manifests |-> gauge'[op][m]]]
      /\ \A p \in Operators, m \in Manifests : p # o \/ m # k => gauge'[p][m] = gauge[p][m]
  <2>1. CASE gauge' = gauge
    BY <2>1 DEF MetricsTyped
  <2>2. CASE \E n : SetGenerated(o, k, n)
    BY <2>2, Sets
  <2>. QED  BY <2>1, <2>2
<1>. QED  BY <1>1, <1>2 DEF OnlyAt, MetricsTyped

\* The calls of Reconcile that are counted, or set the gauge.
MeasuredCall(o) ==
  \/ MeasuredApply(o) \/ MeasuredStatus(o) \/ MeasuredAddFinalizer(o) \/ MeasuredRemoval(o)
  \/ MeasuredSweep(o) \/ MeasuredFailure(o)

\* A measured call is a step of the call.
LEMMA MeasuredWork ==
  ASSUME NEW o \in Operators, MeasuredCall(o)
  PROVE  Work(o)
BY DEF MeasuredCall, MeasuredApply, MeasuredStatus, MeasuredAddFinalizer, MeasuredRemoval,
       MeasuredSweep, MeasuredFailure, Work

\* Measuring changes nothing of what the operator does.
LEMMA MeasuredSteps ==
  ASSUME [MetricsNext]_allVars
  PROVE  [Next]_vars
<1>1. CASE UNCHANGED allVars
  BY <1>1 DEF allVars, vars
<1>2. CASE Users \/ CollectGarbage
  BY <1>2 DEF Next
<1>3. ASSUME NEW o \in Operators, NEW m \in Manifests, MeasuredNothing(o, m)
      PROVE  Next
  BY <1>3 DEF MeasuredNothing, Begin, Next
<1>4. ASSUME NEW o \in Operators, MeasuredCall(o)
      PROVE  Next
  BY <1>4, MeasuredWork DEF Next
<1>5. ASSUME NEW o \in Operators, MeasuredRestart(o)
      PROVE  Next
  BY <1>5 DEF MeasuredRestart, Next
<1>6. ASSUME NEW o \in Operators, Unmeasured(o)
      PROVE  Next
  BY <1>6 DEF Unmeasured, Begin, Work, Next
<1>. QED  BY <1>1, <1>2, <1>3, <1>4, <1>5, <1>6 DEF MetricsNext, MeasuredCall

\* A measured call changes the metrics of its manifest only.
LEMMA MeasuredHere ==
  ASSUME TypeOK, MetricsTyped, NEW o \in Operators, MeasuredCall(o)
  PROVE  OnlyAt(o, work[o].m)
<1>. DEFINE k == work[o].m
<1>0. k \in Manifests
  BY DEF TypeOK, Calls
<1>1. counted' = counted \/ \E r : ObserveReconcile(o, k, r)
  BY DEF MeasuredCall, MeasuredApply, MeasuredStatus, MeasuredAddFinalizer, MeasuredRemoval,
         MeasuredSweep, MeasuredFailure
<1>2. gauge' = gauge \/ \E n : SetGenerated(o, k, n)
  BY DEF MeasuredCall, MeasuredApply, MeasuredStatus, MeasuredAddFinalizer, MeasuredRemoval,
         MeasuredSweep, MeasuredFailure
<1>. HIDE DEF k
<1>3. OnlyAt(o, k)
  BY <1>0, <1>1, <1>2, Measures
<1>. QED  BY <1>3 DEF k

\* The metrics of m are left alone, and it does not come to rest just now.
Elsewhere(op, m) ==
  /\ counted'[op][m] = counted[op][m] /\ gauge'[op][m] = gauge[op][m]
  /\ Settled(op, m)' => Settled(op, m) /\ api'[m] = api[m]
  /\ OnCall(op, m)' /\ work'[op].pc = "status" /\ work'[op].status.phase = "Ready" =>
       work'[op] = work[op]

LEMMA ElsewhereKeeps ==
  ASSUME NEW op \in Operators, NEW m \in Manifests, CountedRight(op, m), GaugeRight(op, m),
         Elsewhere(op, m)
  PROVE  CountedRight(op, m)' /\ GaugeRight(op, m)'
<1>1. ASSUME Settled(op, m)'
      PROVE  /\ counted'[op][m] \in Outcomes(api'[m])
             /\ api'[m].exists /\ api'[m].status.phase = "Ready" =>
                  gauge'[op][m] = Len(api'[m].status.res)
  BY <1>1 DEF Elsewhere, CountedRight, GaugeRight
<1>2. ASSUME OnCall(op, m)', work'[op].pc = "status", work'[op].status.phase = "Ready"
      PROVE  gauge'[op][m] = Len(work'[op].status.res)
  BY <1>2 DEF Elsewhere, GaugeRight, OnCall
<1>. QED  BY <1>1, <1>2 DEF CountedRight, GaugeRight

\* A step about one manifest of one operator brings no other to rest.
LEMMA StepsElsewhere ==
  ASSUME TypeOK, TypeOK', NEW o \in Operators, NEW k \in Manifests,
         Deliver(o, k) \/ Begin(o, k) \/ (Work(o) /\ work[o].m = k),
         NEW op \in Operators, NEW m \in Manifests, op # o \/ m # k
  PROVE  /\ Settled(op, m)' => Settled(op, m) /\ api'[m] = api[m]
         /\ OnCall(op, m)' => work'[op] = work[op]
<1>1. CASE Deliver(o, k)
  <2>1. /\ api' = api /\ work' = work /\ watch'[op][m] = watch[op][m]
        /\ queue[op] \subseteq queue'[op]
    BY <1>1, DeliverMoves
  <2>. QED  BY <2>1 DEF Settled, OnCall
<1>2. CASE Begin(o, k)
  <2>1. PICK w : Take(o, k, w) /\ (w.pc # "idle" => w.m = k)
    BY <1>2, BeginTakes
  <2>2. api' = api /\ watch' = watch
    BY <2>1, TakeMoves
  <2>3. CASE op # o
    <3>1. work'[op] = work[op] /\ queue'[op] = queue[op]
      BY <2>1, <2>3, TakeMoves
    <3>. QED  BY <2>2, <3>1 DEF Settled, OnCall
  <2>4. CASE op = o
    <3>1. work[op].pc = "idle" /\ work'[op] = w /\ queue'[op] = queue[op] \ {k} /\ m # k
      BY <2>1, <2>4, TakeMoves
    <3>. QED  BY <2>1, <2>2, <3>1 DEF Settled, OnCall
  <2>. QED  BY <2>3, <2>4
<1>3. CASE Work(o) /\ work[o].m = k
  <2>1. WorkStep(o) /\ KeepsCopies
    BY <1>3, WorkSteps, WorkCopies
  <2>2. queue[op] \subseteq queue'[op] /\ (op # o => work'[op] = work[op])
    BY <2>1 DEF WorkStep
  <2>3. watch'[op][m] = <<>> => watch[op][m] = <<>> /\ api'[m] = api[m]
    BY <2>1, QuietWatch DEF WorkStep
  <2>4. CASE op # o
    BY <2>2, <2>3, <2>4 DEF Settled, OnCall
  <2>5. CASE op = o
    <3>1. ~OnCall(op, m) /\ ~OnCall(op, m)'
      BY <1>3, <2>1, <2>5 DEF OnCall, KeepsCopies
    <3>. QED  BY <2>2, <2>3, <3>1 DEF Settled
  <2>. QED  BY <2>4, <2>5
<1>. QED  BY <1>1, <1>2, <1>3

\* A call that comes to rest has patched the status of a manifest that exists.
LEMMA DoneExists ==
  ASSUME TypeOK, TypeOK', NEW op \in Operators, Work(op),
         NEW m \in Manifests, work[op].m = m,
         Sync(op, m), Reading(op, m), Settled(op, m)'
  PROVE  /\ api[m].exists /\ api'[m] = api[m]
         /\ PatchStatus(op) /\ ~work[op].retry /\ work[op].pc = "status"
         /\ work[op].copy = api[m] /\ api[m].status = work[op].status
<1>. DEFINE w == work[op]
<1>1. WorkStep(op) /\ KeepsCopies /\ w \in Calls /\ CallOK(w)
  BY WorkSteps, WorkCopies DEF TypeOK
<1>2. /\ AsWritten /\ watch'[op][m] = <<>> /\ cache' = cache /\ m \notin queue[op]
      /\ m \notin queue'[op] /\ (work'[op].pc = "idle" \/ work'[op].m # m)
  BY <1>1 DEF WorkStep, Settled, OnCall
<1>3. api'[m] = api[m] /\ watch[op][m] = <<>>
  BY <1>2, QuietWatch
<1>4. \/ PatchStatus(op) /\ api[m].exists
      \/ RemoveFinalizer(op)
  BY <1>1, <1>2 DEF WorkStep, KeepsCopies
<1>5. ASSUME RemoveFinalizer(op)
      PROVE  api[m].exists
  <2>1. w.pc = "removeFinalizer"
    BY <1>5 DEF RemoveFinalizer
  <2>2. w.copy = cache[op][m] /\ w.copy.exists
    BY <1>1, <1>2, <2>1 DEF Reading, OnCall, CallOK
  <2>. QED  BY <1>3, <2>2 DEF Sync
<1>6. api[m].exists
  BY <1>4, <1>5
<1>. QED  BY <1>3, <1>6, DoneIsRight

\* What the users and the garbage collector do is about no pass at all.
LEMMA OutsideElsewhere ==
  ASSUME TypeOK, TypeOK', Users \/ CollectGarbage \/ UNCHANGED vars, UNCHANGED metricVars,
         NEW op \in Operators, NEW m \in Manifests
  PROVE  Elsewhere(op, m)
<1>1. Outside
  BY OutsideSteps
<1>2. watch'[op][m] = <<>> => watch[op][m] = <<>> /\ api'[m] = api[m]
  BY <1>1, QuietWatch DEF Outside
<1>. QED  BY <1>1, <1>2 DEF Outside, Elsewhere, Settled, OnCall, metricVars

LEMMA HereElsewhere ==
  ASSUME TypeOK, TypeOK', NEW o \in Operators, NEW k \in Manifests, OnlyAt(o, k),
         Deliver(o, k) \/ Begin(o, k) \/ (Work(o) /\ work[o].m = k),
         NEW op \in Operators, NEW m \in Manifests, op # o \/ m # k
  PROVE  Elsewhere(op, m)
BY StepsElsewhere DEF Elsewhere, OnlyAt

\* A pass that finds nothing to do is counted as a deletion.
LEMMA NothingMeasured ==
  ASSUME TypeOK, TypeOK', MetricsTyped, NEW o \in Operators, NEW k \in Manifests,
         MeasuredNothing(o, k), Sync(o, k), Reading(o, k)
  PROVE  CountedRight(o, k)' /\ GaugeRight(o, k)'
<1>1. Begin(o, k) /\ ReconcileNothing(o, k)
  BY DEF MeasuredNothing, Begin
<1>2. work'[o] = Idle /\ k \in queue[o] /\ work[o].pc = "idle" /\ Idle.pc = "idle"
  BY <1>1, TakeMoves DEF ReconcileNothing, Idle
<1>3. ~OnCall(o, k)'
  BY <1>2 DEF OnCall
<1>4. counted'[o][k] = "deleted"
  BY Counts DEF MeasuredNothing
<1>5. ASSUME Settled(o, k)'
      PROVE  ~api'[k].exists
  <2>1. api'[k] = api[k]
    BY <1>1, <1>5, BecomesSettled DEF Next
  <2>2. /\ ~Settled(o, k)
        /\ work[o].pc # "status"
    BY <1>2 DEF Settled
  <2>3. Settled(o, k) \/ ~api[k].exists \/ work[o].pc = "status"
    <3>1. [Next]_vars
      BY <1>1 DEF Next
    <3>. QED  BY <1>5, <3>1, BecomesSettled
  <2>. QED  BY <2>1, <2>2, <2>3
<1>6. CountedRight(o, k)'
  <2>1. Settled(o, k)' => counted'[o][k] \in Outcomes(api'[k])
    BY <1>4, <1>5 DEF Outcomes
  <2>. QED  BY <2>1 DEF CountedRight
<1>7. GaugeRight(o, k)'
  BY <1>3, <1>5 DEF GaugeRight
<1>. QED  BY <1>6, <1>7

\* The gauge is set after the last object, as the status will have it.
LEMMA ApplyMeasured ==
  ASSUME TypeOK, TypeOK', MetricsTyped, NEW o \in Operators, NEW k \in Manifests,
         MeasuredApply(o), work[o].m = k
  PROVE  CountedRight(o, k)' /\ GaugeRight(o, k)'
<1>. DEFINE w == work[o]
<1>1. w.pc = "apply" /\ (GoOn(o, AfterApply(w)) \/ GoOn(o, ApplyFailed(w)))
  BY DEF MeasuredApply, ApplyObject, Answered
<1>2. w \in Calls
  BY DEF TypeOK
<1>3. OnCall(o, k)'
  <2>1. AfterApply(w).pc \in {"apply", "status"} /\ ApplyFailed(w).pc = "status"
        /\ AfterApply(w).m = w.m /\ ApplyFailed(w).m = w.m
    BY <1>1, <1>2, CallCarried
  <2>2. work'[o] = AfterApply(w) \/ work'[o] = ApplyFailed(w)
    BY <1>1, GoesOn
  <2>. HIDE DEF w
  <2>3. work'[o].pc # "idle" /\ work'[o].m = w.m
    BY <2>1, <2>2
  <2>. QED  BY <2>3 DEF OnCall, w
<1>4. ~Settled(o, k)'
  BY <1>3 DEF Settled
<1>5. ASSUME work'[o].status.phase = "Ready"
      PROVE  gauge'[o][k] = Len(work'[o].status.res)
  <2>. DEFINE n == Len(work'[o].status.res)
  <2>1. SetGenerated(o, k, n)
    BY <1>5 DEF MeasuredApply
  <2>. HIDE DEF n
  <2>2. gauge'[o][k] = n
    BY <2>1, Sets
  <2>. QED  BY <2>2 DEF n
<1>. QED  BY <1>4, <1>5 DEF CountedRight, GaugeRight

\* A pass is counted by the status it patches, or tries to.
LEMMA StatusMeasured ==
  ASSUME TypeOK, TypeOK', MetricsTyped, NEW o \in Operators, NEW k \in Manifests,
         MeasuredStatus(o), work[o].m = k, Sync(o, k), Reading(o, k),
         CallRight(work[o], env[o]), GaugeRight(o, k)
  PROVE  CountedRight(o, k)' /\ GaugeRight(o, k)'
<1>. DEFINE w == work[o]
<1>1. Work(o) /\ w.pc = "status" /\ (PatchStatus(o) \/ CallFails(o)) /\ gauge' = gauge
  BY DEF MeasuredStatus, PatchStatus, Work
<1>2. counted'[o][k] = StatusResult(w)
  <2>. DEFINE r == StatusResult(w)
  <2>1. ObserveReconcile(o, k, r)
    BY DEF MeasuredStatus
  <2>. HIDE DEF r
  <2>2. counted'[o][k] = r
    BY <2>1, Counts
  <2>. QED  BY <2>2 DEF r
<1>3. ~OnCall(o, k)'
  <2>1. Finish(o) \/ Requeue(o)
    BY <1>1 DEF PatchStatus, CallFails, Answered
  <2>2. work'[o].pc = "idle"
    BY <2>1, EndsIdle
  <2>. QED  BY <2>2 DEF OnCall
<1>4. ASSUME Settled(o, k)'
      PROVE  /\ api'[k].exists /\ api'[k].status = w.status
             /\ w.status.phase \in {"Ready", "Forbidden", "Error"}
             /\ w.status.phase = "Ready" => gauge'[o][k] = Len(w.status.res)
  <2>1. api[k].exists /\ api'[k] = api[k] /\ ~w.retry /\ api[k].status = w.status
    BY <1>1, <1>4, DoneExists
  <2>2. RightStatus(w.m, w.copy, env[o], w.status)
    BY <1>1, <2>1 DEF CallRight
  <2>3. w.status.phase \in {"Ready", "Forbidden", "Error"}
    BY <2>2 DEF RightStatus
  <2>4. w.status.phase = "Ready" => gauge[o][k] = Len(w.status.res)
    BY <1>1 DEF GaugeRight, OnCall
  <2>. QED  BY <1>1, <2>1, <2>3, <2>4
<1>5. ASSUME Settled(o, k)'
      PROVE  counted'[o][k] \in Outcomes(api'[k])
  <2>. DEFINE st == w.status
  <2>1. api'[k].exists /\ api'[k].status = st /\ st.phase \in {"Ready", "Forbidden", "Error"}
    BY <1>4, <1>5
  <2>2. StatusResult(w) = CASE st.phase = "Forbidden" -> "forbidden"
                            [] st.phase = "Error"     -> "error"
                            [] OTHER                  -> "success"
    BY DEF StatusResult
  <2>3. Outcomes(api'[k]) = { CASE st.phase = "Ready"     -> "success"
                                [] st.phase = "Forbidden" -> "forbidden"
                                [] OTHER                  -> "error" }
    BY <2>1 DEF Outcomes
  <2>. HIDE DEF st
  <2>4. CASE st.phase = "Ready"
    <3>1. StatusResult(w) = "success" /\ Outcomes(api'[k]) = {"success"}
      BY <2>2, <2>3, <2>4
    <3>. QED  BY <1>2, <3>1
  <2>5. CASE st.phase = "Forbidden"
    <3>1. StatusResult(w) = "forbidden" /\ Outcomes(api'[k]) = {"forbidden"}
      BY <2>2, <2>3, <2>5
    <3>. QED  BY <1>2, <3>1
  <2>6. CASE st.phase = "Error"
    <3>1. StatusResult(w) = "error" /\ Outcomes(api'[k]) = {"error"}
      BY <2>2, <2>3, <2>6
    <3>. QED  BY <1>2, <3>1
  <2>. QED  BY <2>1, <2>4, <2>5, <2>6
<1>. QED  BY <1>3, <1>4, <1>5 DEF CountedRight, GaugeRight

\* Any other call leaves its manifest queued or under way.
LEMMA OtherMeasured ==
  ASSUME TypeOK, TypeOK', NEW o \in Operators, NEW k \in Manifests, Work(o),
         work[o].pc \notin {"apply", "status"}, work[o].m = k, Sync(o, k), Reading(o, k)
  PROVE  CountedRight(o, k)' /\ GaugeRight(o, k)'
<1>1. ~Settled(o, k)'
  BY DoneExists
<1>2. work'[o].pc # "status"
  <2>. DEFINE w == work[o]
              c(items) == [w EXCEPT !.pc = "delete", !.items = items]
              d(items) == [w EXCEPT !.items = items]
  <2>1. w \in Calls
    BY DEF TypeOK
  <2>2. \A items : c(items).pc = "delete" /\ d(items).pc = w.pc
    BY <2>1 DEF Calls
  <2>. HIDE DEF c, d
  <2>3. NextPlace(w).pc # "status"
    BY <2>1, NextPlacePc
  <2>4. CASE Finish(o) \/ Requeue(o)
    BY <2>4, EndsIdle
  <2>5. CASE \E items : GoOn(o, NextPlace(w)) \/ GoOn(o, c(items)) \/ GoOn(o, d(items))
    BY <2>2, <2>3, <2>5, GoesOn
  <2>6. CASE AddFinalizer(o) \/ PatchStatus(o) \/ RemoveFinalizer(o) \/ CallFails(o)
    BY <2>4, <2>6 DEF AddFinalizer, PatchStatus, RemoveFinalizer, CallFails, Answered
  <2>7. CASE ListOwned(o) \/ ListNoMatch(o)
    BY <2>5, <2>7 DEF ListOwned, ListNoMatch, c
  <2>8. CASE \E key \in w.items : DeleteOwned(o, key)
    BY <2>4, <2>5, <2>8 DEF DeleteOwned, Answered, d
  <2>9. ~ApplyObject(o) /\ ~ApplyFails(o)
    BY DEF ApplyObject, ApplyFails
  <2>. QED  BY <2>6, <2>7, <2>8, <2>9 DEF Work
<1>. QED  BY <1>1, <1>2 DEF CountedRight, GaugeRight

\* A new process has counted nothing, and queues whatever exists.
LEMMA RestartMeasured ==
  ASSUME TypeOK, TypeOK', MetricsTyped, NEW o \in Operators, MeasuredRestart(o),
         NEW op \in Operators, NEW m \in Manifests, CountedRight(op, m), GaugeRight(op, m)
  PROVE  CountedRight(op, m)' /\ GaugeRight(op, m)' /\ MetricsTyped'
<1>1. /\ Restart(o)
      /\ gauge' = [gauge EXCEPT ![o] = [k \in Manifests |-> 0]]
      /\ counted' = [counted EXCEPT ![o] = [k \in Manifests |-> ""]]
  BY DEF MeasuredRestart
<1>2. MetricsTyped'
  BY <1>1 DEF MetricsTyped
<1>3. CASE op = o
  <2>1. counted'[op][m] = "" /\ ~OnCall(op, m)'
    <3>1. counted'[op][m] = ""
      BY <1>1, <1>3 DEF MetricsTyped
    <3>2. work'[op] = Idle /\ Idle.pc = "idle"
      BY <1>1, <1>3, RestartMoves DEF Idle
    <3>. QED  BY <3>1, <3>2 DEF OnCall
  <2>2. Settled(op, m)' => ~api'[m].exists
    BY <1>1, <1>3, RestartMoves DEF Settled
  <2>3. Settled(op, m)' => counted'[op][m] \in Outcomes(api'[m])
    BY <2>1, <2>2 DEF Outcomes
  <2>. QED  BY <1>2, <2>1, <2>2, <2>3 DEF CountedRight, GaugeRight
<1>4. CASE op # o
  <2>1. counted'[op][m] = counted[op][m] /\ gauge'[op][m] = gauge[op][m]
    BY <1>1, <1>4 DEF MetricsTyped
  <2>2. api' = api /\ work'[op] = work[op] /\ queue'[op] = queue[op] /\ watch'[op] = watch[op]
    BY <1>1, <1>4, RestartMoves
  <2>3. Elsewhere(op, m)
    BY <2>1, <2>2 DEF Elsewhere, Settled, OnCall
  <2>. QED  BY <1>2, <2>3, ElsewhereKeeps
<1>. QED  BY <1>3, <1>4

\* What is not measured brings nothing to rest, and no Ready status about.
LEMMA UnmeasuredElsewhere ==
  ASSUME TypeOK, TypeOK', MetricsTyped, NEW o \in Operators, Unmeasured(o),
         NEW op \in Operators, NEW m \in Manifests
  PROVE  Elsewhere(op, m)
<1>1. UNCHANGED <<gauge, counted>>
  BY DEF Unmeasured, metricVars
<1>2. \A k \in Manifests : OnlyAt(o, k)
  BY <1>1 DEF OnlyAt, MetricsTyped
<1>3. ASSUME ApplyFails(o)
      PROVE  Elsewhere(op, m)
  <2>1. Work(o) /\ work[o].m \in Manifests /\ work[o] \in Calls
    BY <1>3 DEF Work, TypeOK, Calls
  <2>2. CASE op # o \/ m # work[o].m
    BY <1>2, <2>1, <2>2, HereElsewhere
  <2>3. CASE op = o /\ m = work[o].m
    <3>. DEFINE w == work[o]
                st == Status("Error", Message("apply", w.i), Names(Desired(w.m, w.copy.spec)), w.copy.gen)
                yes == TRUE
                c == [w EXCEPT !.pc = "status", !.retry = yes, !.status = st]
    <3>1. GoOn(o, c)
      BY <1>3 DEF ApplyFails, ApplyFailed, StatusCall
    <3>2. st.phase = "Error"
      BY DEF Status
    <3>. HIDE DEF st, yes
    <3>3. c.pc = "status" /\ c.m = w.m /\ c.status = st
      BY <2>1 DEF Calls
    <3>. HIDE DEF c
    <3>4. work'[o] = c
      BY <3>1, GoesOn
    <3>5. work'[o].pc = "status" /\ work'[o].m = m /\ work'[o].status.phase = "Error"
      BY <2>3, <3>2, <3>3, <3>4
    <3>. QED  BY <1>1, <2>3, <3>5 DEF Elsewhere, Settled, OnCall
  <2>. QED  BY <2>2, <2>3
<1>4. ASSUME NEW k \in Manifests, Deliver(o, k)
      PROVE  Elsewhere(op, m)
  <2>1. CASE op # o \/ m # k
    BY <1>2, <1>4, <2>1, HereElsewhere
  <2>2. CASE op = o /\ m = k
    <3>1. m \in queue'[op] /\ work' = work
      BY <1>4, <2>2, DeliverMoves
    <3>. QED  BY <1>1, <3>1 DEF Elsewhere, Settled
  <2>. QED  BY <2>1, <2>2
<1>5. ASSUME NEW k \in Manifests,
             ReconcileForbidden(o, k) \/ ReconcileDeleting(o, k) \/ ReconcileUnfinalized(o, k)
               \/ ReconcileInvalid(o, k) \/ ReconcileValid(o, k)
      PROVE  Elsewhere(op, m)
  <2>1. CASE op # o \/ m # k
    <3>1. Begin(o, k)
      BY <1>5 DEF Begin
    <3>. QED  BY <1>2, <2>1, <3>1, HereElsewhere
  <2>2. CASE op = o /\ m = k
    <3>. DEFINE c == Call(o, k, "status")
    <3>0. /\ c \in Calls /\ c.m = k
          /\ \A pc \in {"addFinalizer", "apply", "list"} : Call(o, k, pc).pc = pc /\ Call(o, k, pc).m = k
      BY CallTyped
    <3>1. ASSUME NEW pc \in {"addFinalizer", "apply", "list"}, Take(o, k, Call(o, k, pc))
          PROVE  work'[o].pc = pc /\ work'[o].m = k
      <4>1. work'[o] = Call(o, k, pc)
        BY <3>1, TakeMoves
      <4>. QED  BY <3>0, <4>1
    <3>2. ASSUME NEW phase, phase # "Ready", NEW msg,
                 Take(o, k, StatusCall(c, phase, msg, <<>>, FALSE))
          PROVE  work'[o].pc = "status" /\ work'[o].m = k /\ work'[o].status.phase # "Ready"
      <4>. DEFINE st == Status(phase, msg, <<>>, c.copy.gen)
                  no == FALSE
                  w == [c EXCEPT !.pc = "status", !.retry = no, !.status = st]
      <4>1. Take(o, k, w)
        BY <3>2 DEF StatusCall
      <4>2. st.phase = phase
        BY DEF Status
      <4>. HIDE DEF c, st, no
      <4>3. w.pc = "status" /\ w.m = c.m /\ w.status = st
        BY <3>0 DEF Calls
      <4>. HIDE DEF w
      <4>4. work'[o] = w
        BY <4>1, TakeMoves
      <4>. QED  BY <3>0, <3>2, <4>2, <4>3, <4>4
    <3>3. /\ work'[o].pc # "idle" /\ work'[o].m = k
          /\ work'[o].pc # "status" \/ work'[o].status.phase # "Ready"
      <4>1. CASE ReconcileForbidden(o, k) \/ ReconcileInvalid(o, k)
        <5>1. \E phase \in {"Forbidden", "Error"} : \E msg :
                 Take(o, k, StatusCall(c, phase, msg, <<>>, FALSE))
          BY <4>1 DEF ReconcileForbidden, ReconcileInvalid
        <5>. HIDE DEF c
        <5>. QED  BY <3>2, <5>1
      <4>2. CASE ReconcileDeleting(o, k) \/ ReconcileUnfinalized(o, k) \/ ReconcileValid(o, k)
        <5>1. \E pc \in {"addFinalizer", "apply", "list"} : Take(o, k, Call(o, k, pc))
          BY <4>2 DEF ReconcileDeleting, ReconcileUnfinalized, ReconcileValid
        <5>. QED  BY <3>1, <5>1
      <4>. QED  BY <1>5, <4>1, <4>2
    <3>. QED  BY <1>1, <2>2, <3>3 DEF Elsewhere, Settled, OnCall
  <2>. QED  BY <2>1, <2>2
<1>. QED  BY <1>3, <1>4, <1>5 DEF Unmeasured

LEMMA MetricsInitial ==
  ASSUME MetricsInit
  PROVE  MetricsInvariant
<1>1. MetricsTyped /\ \A op \in Operators, m \in Manifests : counted[op][m] = ""
  BY DEF MetricsInit, MetricsTyped
<1>2. \A op \in Operators, m \in Manifests :
        ~api[m].exists /\ work[op].pc = "idle"
  BY DEF MetricsInit, Init, NoManifest, Idle
<1>. QED  BY <1>1, <1>2 DEF MetricsInvariant, CountedRight, GaugeRight, Outcomes, OnCall

LEMMA MetricsStep ==
  ASSUME TypeOK, TypeOK', StatusInvariant, MetricsInvariant, [MetricsNext]_allVars
  PROVE  MetricsInvariant'
<1>. SUFFICES ASSUME NEW op \in Operators, NEW m \in Manifests
              PROVE  CountedRight(op, m)' /\ GaugeRight(op, m)' /\ MetricsTyped'
  <2>1. CASE Operators # {} /\ Manifests # {}
    BY <2>1 DEF MetricsInvariant
  <2>2. CASE Operators = {}
    <3>1. (Users \/ CollectGarbage \/ UNCHANGED vars) /\ UNCHANGED metricVars
      BY <2>2 DEF MetricsNext, allVars
    <3>. QED  BY <2>2, <3>1 DEF MetricsInvariant, MetricsTyped, metricVars
  <2>. QED  BY <2>1, <2>2, OperatorAssumption DEF OperatorAssumption
<1>0. /\ MetricsTyped /\ CountedRight(op, m) /\ GaugeRight(op, m)
      /\ \A o \in Operators, k \in Manifests : Sync(o, k) /\ Reading(o, k) /\ GaugeRight(o, k)
      /\ \A o \in Operators : CallRight(work[o], env[o])
  BY DEF MetricsInvariant, StatusInvariant
<1>1. CASE (Users \/ CollectGarbage \/ UNCHANGED vars) /\ UNCHANGED metricVars
  <2>1. MetricsTyped'
    BY <1>0, <1>1 DEF MetricsTyped, metricVars
  <2>. QED  BY <1>0, <1>1, <2>1, OutsideElsewhere, ElsewhereKeeps
<1>2. ASSUME NEW o \in Operators, NEW k \in Manifests, MeasuredNothing(o, k)
      PROVE  CountedRight(op, m)' /\ GaugeRight(op, m)' /\ MetricsTyped'
  <2>1. OnlyAt(o, k)
    BY <1>0, <1>2, Measures DEF MeasuredNothing
  <2>2. MetricsTyped'
    BY <2>1 DEF OnlyAt
  <2>3. CASE op = o /\ m = k
    BY <1>0, <1>2, <2>2, <2>3, NothingMeasured
  <2>4. CASE op # o \/ m # k
    <3>1. Begin(o, k)
      BY <1>2 DEF MeasuredNothing, Begin
    <3>. QED  BY <1>0, <2>1, <2>2, <2>4, <3>1, HereElsewhere, ElsewhereKeeps
  <2>. QED  BY <2>3, <2>4
<1>3. ASSUME NEW o \in Operators, MeasuredCall(o)
      PROVE  CountedRight(op, m)' /\ GaugeRight(op, m)' /\ MetricsTyped'
  <2>1. OnlyAt(o, work[o].m) /\ Work(o) /\ work[o].m \in Manifests
    BY <1>0, <1>3, MeasuredHere, MeasuredWork DEF TypeOK, Calls
  <2>2. MetricsTyped'
    BY <2>1 DEF OnlyAt
  <2>3. CASE op = o /\ m = work[o].m
    <3>1. CASE MeasuredApply(o)
      BY <1>0, <2>2, <2>3, <3>1, ApplyMeasured
    <3>2. CASE MeasuredStatus(o)
      BY <1>0, <2>2, <2>3, <3>2, StatusMeasured
    <3>3. CASE ~MeasuredApply(o) /\ ~MeasuredStatus(o)
      <4>1. work[o].pc \notin {"apply", "status"}
        BY <1>3, <3>3 DEF MeasuredCall, MeasuredAddFinalizer, MeasuredRemoval, MeasuredSweep,
           MeasuredFailure, AddFinalizer, RemoveFinalizer, ListOwned, ListNoMatch, DeleteOwned,
           CallFails
      <4>. QED  BY <1>0, <2>1, <2>2, <2>3, <4>1, OtherMeasured
    <3>. QED  BY <3>1, <3>2, <3>3
  <2>4. CASE op # o \/ m # work[o].m
    <3>. DEFINE k == work[o].m
    <3>1. k \in Manifests /\ OnlyAt(o, k) /\ Work(o) /\ work[o].m = k /\ (op # o \/ m # k)
      BY <2>1, <2>4
    <3>. HIDE DEF k
    <3>. QED  BY <1>0, <2>2, <3>1, HereElsewhere, ElsewhereKeeps
  <2>. QED  BY <2>3, <2>4
<1>4. ASSUME NEW o \in Operators, MeasuredRestart(o)
      PROVE  CountedRight(op, m)' /\ GaugeRight(op, m)' /\ MetricsTyped'
  BY <1>0, <1>4, RestartMeasured
<1>5. ASSUME NEW o \in Operators, Unmeasured(o)
      PROVE  CountedRight(op, m)' /\ GaugeRight(op, m)' /\ MetricsTyped'
  <2>1. MetricsTyped'
    BY <1>0, <1>5 DEF MetricsTyped, Unmeasured, metricVars
  <2>. QED  BY <1>0, <1>5, <2>1, UnmeasuredElsewhere, ElsewhereKeeps
<1>. QED  BY <1>1, <1>2, <1>3, <1>4, <1>5 DEF MetricsNext, MeasuredCall, allVars

(***************************************************************************)
(* What is gone                                                            *)
(***************************************************************************)

\* As long as no call fails, a manifest whose gauge is set has its finalizer:
\* the call that removes it resets the gauge.
GaugeOwned ==
  /\ budget["fault"] <= Budget["fault"]
  /\ budget["fault"] = Budget["fault"] =>
       \A op \in Operators, m \in Manifests : gauge[op][m] # 0 => Alive(m)

LEMMA GaugeInitial ==
  ASSUME MetricsInit
  PROVE  GaugeOwned
<1>1. budget = Budget /\ Budget["fault"] \in Nat
  BY OperatorAssumption DEF MetricsInit, Init, OperatorAssumption, Events
<1>2. \A op \in Operators, m \in Manifests : gauge[op][m] = 0
  BY DEF MetricsInit
<1>. QED  BY <1>1, <1>2 DEF GaugeOwned

\* Only the removal of the finalizer ends a manifest's life.
LEMMA AliveStep ==
  ASSUME TypeOK, Versioned,
         \/ api' = api
         \/ Users
         \/ \E op \in Operators : AddFinalizer(op) \/ PatchStatus(op),
         NEW m \in Manifests, Alive(m)
  PROVE  Alive(m)'
<1>1. CASE api' = api
  BY <1>1 DEF Alive
<1>2. CASE Users
  BY <1>2, UsersKeep, KeepingAlive
<1>3. CASE \E op \in Operators : AddFinalizer(op) \/ PatchStatus(op)
  BY <1>3, UpdatesKeep, KeepingAlive
<1>. QED  BY <1>1, <1>2, <1>3

\* The removal of the finalizer resets the gauge, unless its answer is lost.
LEMMA RemovalResets ==
  ASSUME TypeOK, MetricsTyped, GaugeOwned, NEW o \in Operators, MeasuredRemoval(o),
         budget'["fault"] = Budget["fault"], budget["fault"] = Budget["fault"],
         NEW op \in Operators, op = o, NEW m \in Manifests, gauge'[op][m] # 0
  PROVE  Alive(m)'
<1>. DEFINE w == work[o]
            k == w.m
<1>0. k \in Manifests /\ w.copy \in Versions /\ budget["fault"] \in Nat
  BY DEF TypeOK, Calls, Events
<1>1. budget' = budget
  <2>1. SUFFICES ASSUME Spend("fault") PROVE FALSE
    BY DEF MeasuredRemoval, RemoveFinalizer, Answered
  <2>2. budget'["fault"] = budget["fault"] - 1
    BY <2>1 DEF Spend, TypeOK, Events
  <2>. QED  BY <1>0, <2>2
<1>2. CASE UpdateAccepted(w)
  <2>1. gauge'[o][k] = 0 /\ (m # k => gauge'[o][m] = gauge[o][m])
    BY <1>0, <1>1, <1>2, Sets DEF MeasuredRemoval
  <2>2. m # k /\ Alive(m)
    BY <2>1 DEF GaugeOwned
  <2>. DEFINE u == [w.copy EXCEPT !.fin = FALSE]
  <2>3. Discard(k, u)
    BY <1>2 DEF MeasuredRemoval, RemoveFinalizer
  <2>4. ~u.fin
    BY <1>0 DEF Versions, Records
  <2>. HIDE DEF u
  <2>5. Write(k, NoManifest(u.rv))
    BY <2>3, <2>4 DEF Discard
  <2>6. api'[m] = api[m]
    BY <2>2, <2>5 DEF Write, TypeOK
  <2>. QED  BY <2>2, <2>6 DEF Alive
<1>3. CASE ~UpdateAccepted(w)
  <2>1. api' = api /\ gauge' = gauge
    BY <1>3 DEF MeasuredRemoval, RemoveFinalizer
  <2>. QED  BY <2>1 DEF GaugeOwned, Alive
<1>. QED  BY <1>2, <1>3

LEMMA GaugeStep ==
  ASSUME TypeOK, TypeOK', OneOperator, Versioned, MetricsTyped, GaugeOwned,
         [MetricsNext]_allVars
  PROVE  GaugeOwned'
<1>0. /\ budget["fault"] \in Nat /\ budget'["fault"] \in Nat /\ Budget["fault"] \in Nat
      /\ budget'["fault"] <= budget["fault"] /\ [Next]_vars
  BY OperatorAssumption, MeasuredSteps, BudgetShrinks DEF TypeOK, OperatorAssumption, Events
<1>1. budget'["fault"] <= Budget["fault"]
  BY <1>0 DEF GaugeOwned
<1>2. ASSUME budget'["fault"] = Budget["fault"], NEW op \in Operators, NEW m \in Manifests,
             gauge'[op][m] # 0
      PROVE  Alive(m)'
  <2>1. budget["fault"] = Budget["fault"]
    BY <1>0, <1>2 DEF GaugeOwned
  <2>3. CASE \E o \in Operators : MeasuredRemoval(o)
    BY <1>2, <2>1, <2>3, RemovalResets DEF OneOperator
  <2>4. CASE \E o \in Operators : MeasuredApply(o)
    <3>1. PICK o \in Operators : MeasuredApply(o)
      BY <2>4
    <3>2. op = o /\ api' = api /\ work[o].pc = "apply" /\ ApplyObject(o)
      BY <3>1 DEF OneOperator, MeasuredApply, ApplyObject
    <3>3. CASE m = work[o].m
      <4>1. work[o].copy.fin /\ ~work[o].copy.del /\ work[o].copy \in Known(o, m)
        BY <3>2, <3>3 DEF TypeOK, CallOK, Known
      <4>2. Alive(m)
        BY <4>1 DEF Versioned, VersionOK, Alive
      <4>. QED  BY <3>2, <4>2 DEF Alive
    <3>4. CASE m # work[o].m
      <4>1. OnlyAt(o, work[o].m)
        BY <3>1, MeasuredHere DEF MeasuredCall
      <4>2. gauge'[op][m] = gauge[op][m]
        BY <3>4, <4>1 DEF OnlyAt
      <4>. QED  BY <1>2, <2>1, <3>2, <4>2 DEF GaugeOwned, Alive
    <3>. QED  BY <3>3, <3>4
  <2>5. CASE /\ ~\E o \in Operators : MeasuredRemoval(o)
             /\ ~\E o \in Operators : MeasuredApply(o)
    <3>1. gauge' = gauge \/ \E o \in Operators : MeasuredRestart(o)
      BY <2>5 DEF MetricsNext, MeasuredNothing, MeasuredStatus, MeasuredAddFinalizer,
         MeasuredSweep, MeasuredFailure, Unmeasured, metricVars, allVars
    <3>2. CASE \E o \in Operators : MeasuredRestart(o)
      <4>1. gauge' = [gauge EXCEPT ![op] = [k \in Manifests |-> 0]]
        BY <3>2 DEF MeasuredRestart, OneOperator
      <4>2. gauge'[op][m] = 0
        BY <4>1 DEF MetricsTyped
      <4>. QED  BY <1>2, <4>2
    <3>3. CASE gauge' = gauge
      <4>1. \/ api' = api
            \/ Users
            \/ \E o \in Operators : AddFinalizer(o) \/ PatchStatus(o)
        <5>1. CASE \E o \in Operators : MeasuredRestart(o) \/ Unmeasured(o)
          BY <5>1, BeginTakes DEF MeasuredRestart, Restart, Unmeasured, ApplyFails, Deliver, Begin,
             Take
        <5>2. CASE \E o \in Operators, k \in Manifests : MeasuredNothing(o, k)
          BY <5>2 DEF MeasuredNothing, ReconcileNothing, Take
        <5>3. CASE \E o \in Operators : MeasuredStatus(o) \/ MeasuredAddFinalizer(o)
          BY <5>3 DEF MeasuredStatus, MeasuredAddFinalizer, CallFails
        <5>4. CASE \E o \in Operators : MeasuredSweep(o) \/ MeasuredFailure(o)
          BY <5>4 DEF MeasuredSweep, MeasuredFailure, ListOwned, ListNoMatch, DeleteOwned,
             CallFails
        <5>5. CASE UNCHANGED allVars \/ Users \/ CollectGarbage
          BY <5>5 DEF allVars, vars, CollectGarbage
        <5>. QED  BY <2>5, <5>1, <5>2, <5>3, <5>4, <5>5 DEF MetricsNext
      <4>2. Alive(m)
        BY <1>2, <2>1, <3>3 DEF GaugeOwned
      <4>. QED  BY <4>1, <4>2, AliveStep
    <3>. QED  BY <3>1, <3>2, <3>3
  <2>. QED  BY <2>3, <2>4, <2>5
<1>. QED  BY <1>1, <1>2 DEF GaugeOwned

(***************************************************************************)
(* The metrics at rest                                                     *)
(***************************************************************************)

LEMMA MetricsSteps ==
  MetricsSpec => [](TypeOK /\ StatusInvariant /\ MetricsInvariant)
<1>1. MetricsInit => Init /\ MetricsInvariant
  BY MetricsInitial DEF MetricsInit
<1>2. [MetricsNext]_allVars => [Next]_vars
  BY MeasuredSteps
<1>3. /\ TypeOK /\ TypeOK' /\ StatusInvariant /\ MetricsInvariant /\ [MetricsNext]_allVars
      => MetricsInvariant'
  BY MetricsStep
<1>. QED  BY <1>1, <1>2, <1>3, TypeCorrect, StatusSafe, PTL DEF Spec, MetricsSpec

\* ObserveReconcile and patchStatus (simulationmanifest_controller.go:57-143,
\* metrics.go): the last result counted for each manifest is what became of
\* it whenever the loop rests, for any number of operators and manifests,
\* whatever users, faults, lost answers, stale caches and restarts did before.
THEOREM ResultSafe == MetricsSpec => []ResultTrue
<1>1. ASSUME MetricsInvariant, Quiescent, NEW op \in Operators, NEW m \in Manifests
      PROVE  counted[op][m] \in Outcomes(api[m])
  BY <1>1, RestSettled DEF MetricsInvariant, CountedRight
<1>2. MetricsInvariant => ResultTrue
  BY <1>1 DEF ResultTrue, Outcomes
<1>. QED  BY <1>2, MetricsSteps, PTL

\* SetGenerated (simulationmanifest_controller.go:90-130): the gauge of a
\* Ready manifest is the number of resources in its status whenever the loop
\* rests, and that of a manifest that is gone is 0 unless a call failed, for
\* one operator process and any number of manifests.
THEOREM GaugeSafe == OneOperator => (MetricsSpec => []GaugeTrue)
<1>. SUFFICES ASSUME OneOperator
              PROVE  MetricsSpec => []GaugeTrue
  OBVIOUS
<1>1. MetricsInit => Versioned /\ GaugeOwned
  BY VersionedInit, GaugeInitial DEF MetricsInit
<1>2. /\ TypeOK /\ TypeOK' /\ MetricsInvariant /\ Versioned /\ GaugeOwned
      /\ [MetricsNext]_allVars
      => Versioned' /\ GaugeOwned'
  BY MeasuredSteps, VersionedStep, GaugeStep DEF MetricsInvariant
<1>3. MetricsInvariant /\ GaugeOwned => GaugeTrue
  <2>1. ASSUME MetricsInvariant, GaugeOwned, Quiescent, NEW op \in Operators, NEW m \in Manifests
        PROVE  /\ api[m].exists /\ api[m].status.phase = "Ready" =>
                    gauge[op][m] = Len(api[m].status.res)
               /\ ~api[m].exists /\ budget["fault"] = Budget["fault"] => gauge[op][m] = 0
    <3>1. GaugeRight(op, m) /\ Settled(op, m)
      BY <2>1, RestSettled DEF MetricsInvariant
    <3>. QED  BY <2>1, <3>1 DEF GaugeRight, GaugeOwned, Alive
  <2>. QED  BY <2>1 DEF GaugeTrue
<1>. QED  BY <1>1, <1>2, <1>3, MetricsSteps, PTL DEF MetricsSpec
=============================================================================
