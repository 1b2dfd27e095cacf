----------------------------- MODULE StartUpProofs -----------------------------
(***************************************************************************)
(* Proofs about StartUp: for any services, timeouts and schedule that      *)
(* satisfies ScheduleAssumption, nobody gives up, every service serves in  *)
(* time, and a main that does give up does so late.                        *)
(***************************************************************************)
EXTENDS StartUp, TLAPS

\* What holds of each main whatever crashes: time has not passed what it has
\* to do, and a sleep is only taken before the deadline.
Timely(s) ==
  /\ pc[s] = "idle" => now <= Spread
  /\ pc[s] = "attempt" =>
       /\ began[s] <= now /\ now <= began[s] + AttemptTimeout
       /\ began[s] < Deadline(s) + Interval
  /\ pc[s] = "sleep" =>
       /\ now <= WakeTime(s)
       /\ began[s] + AttemptTimeout < Deadline(s)
  /\ pc[s] = "failed" =>
       /\ Deadline(s) <= began[s] + AttemptTimeout
       /\ began[s] < Deadline(s) + Interval
  /\ pc[s] = "serving" => since[s] <= now

\* What holds as long as nothing has crashed: each dial keeps to the schedule.
OnTime(s) ==
  /\ pc[s] # "failed"
  /\ pc[s] = "attempt" => began[s] + AttemptTimeout <= By[s][dial[s]]
  /\ pc[s] = "sleep" => WakeTime(s) + AttemptTimeout <= By[s][dial[s]]
  /\ pc[s] = "serving" => since[s] <= ReadyBy(s)

IndInv ==
  /\ TypeOK
  /\ \A s \in Services : Timely(s)
  /\ NoCrash => \A s \in Services : OnTime(s)

(***************************************************************************)
(* The schedule                                                            *)
(***************************************************************************)

LEMMA Times ==
  /\ AttemptTimeout \in Nat /\ AttemptTimeout > 0
  /\ Interval \in Nat /\ Interval > 0
  /\ MaxWait \in Nat /\ Spread \in Nat
BY TimeAssumption DEF TimeAssumption

\* A service has a list of peers, and a time for its first n dials.
LEMMA Schedule ==
  ASSUME NEW s \in Services
  PROVE  /\ Len(Peers[s]) \in Nat
         /\ ReadyBy(s) \in Nat
         /\ \A n \in 0..Len(Peers[s]) : By[s][n] \in Nat /\ By[s][n] <= ReadyBy(s)
         /\ By[s][0] >= Spread
<1>1. Len(Peers[s]) \in Nat
  BY PeersAssumption DEF PeersAssumption
<1>2. By[s] \in [0..Len(Peers[s]) -> Nat]
  BY ScheduleAssumption DEF ScheduleAssumption
<1>. QED  BY <1>1, <1>2, ScheduleAssumption DEF ScheduleAssumption, ReadyBy

\* The n-th dial is over one attempt after the one before it, and one sleep
\* and two attempts after its peer serves, which the wait allows for.
LEMMA DialSchedule ==
  ASSUME NEW s \in Services, NEW n \in 1..Len(Peers[s])
  PROVE  /\ Peers[s][n] \in Services
         /\ n - 1 \in 0..Len(Peers[s]) /\ n \in 0..Len(Peers[s])
         /\ By[s][n] >= By[s][n - 1] + AttemptTimeout
         /\ By[s][n] >= ReadyBy(Peers[s][n]) + 2 * AttemptTimeout + Interval
         /\ ReadyBy(Peers[s][n]) + AttemptTimeout <= MaxWait
<1>1. Peers[s] \in Seq(Services)
  BY PeersAssumption DEF PeersAssumption
<1>2. Peers[s][n] \in Services
  BY <1>1
<1>. QED  BY <1>1, <1>2, ScheduleAssumption DEF ScheduleAssumption

(***************************************************************************)
(* Waiting for a peer                                                      *)
(***************************************************************************)

\* A service that does not serve yet has not missed its time.
LEMMA NotYetServing ==
  ASSUME IndInv, NoCrash, NEW s \in Services, pc[s] # "serving"
  PROVE  now <= ReadyBy(s)
<1>1. TypeOK /\ Timely(s) /\ OnTime(s) /\ pc[s] # "crashed"
  BY DEF IndInv, NoCrash
<1>2. pc[s] \in {"idle", "attempt", "sleep"}
  BY <1>1 DEF TypeOK, OnTime
<1>3. now \in Nat /\ dial[s] \in Nat /\ began[s] \in Nat
  BY <1>1 DEF TypeOK
<1>4. CASE pc[s] = "idle"
  <2>1. now <= By[s][0] /\ By[s][0] \in Nat /\ By[s][0] <= ReadyBy(s)
    BY <1>1, <1>3, <1>4, Schedule, Times DEF Timely
  <2>. QED  BY <2>1, <1>3, Schedule
<1>5. CASE pc[s] \in {"attempt", "sleep"}
  <2>1. dial[s] \in 0..Len(Peers[s])
    BY <1>1, <1>5, <1>3, Schedule DEF TypeOK
  <2>2. By[s][dial[s]] \in Nat /\ By[s][dial[s]] <= ReadyBy(s)
    BY <2>1, Schedule
  <2>3. now <= By[s][dial[s]]
    BY <1>1, <1>3, <1>5, <2>2, Times DEF Timely, OnTime, WakeTime
  <2>. QED  BY <2>2, <2>3, <1>3, Schedule
<1>. QED  BY <1>2, <1>4, <1>5

\* An attempt fails only if it began before its peer was to serve.
LEMMA TimedOutEarly ==
  ASSUME IndInv, NoCrash, NEW s \in Services, pc[s] = "attempt", TimedOut(s)
  PROVE  began[s] <= ReadyBy(Peer(s))
<1>1. dial[s] \in 1..Len(Peers[s]) /\ now \in Nat /\ began[s] \in Nat
  BY DEF IndInv, TypeOK
<1>2. Peer(s) \in Services
  BY <1>1, DialSchedule DEF Peer
<1>3. since[Peer(s)] \in Nat /\ ReadyBy(Peer(s)) \in Nat /\ OnTime(Peer(s))
  BY <1>2, Schedule DEF IndInv, TypeOK
<1>4. CASE pc[Peer(s)] = "serving"
  <2>1. since[Peer(s)] <= ReadyBy(Peer(s)) /\ ~(since[Peer(s)] <= began[s])
    BY <1>3, <1>4 DEF OnTime, TimedOut
  <2>. QED  BY <2>1, <1>1, <1>3
<1>5. CASE pc[Peer(s)] # "serving"
  <2>1. now <= ReadyBy(Peer(s)) /\ now = began[s] + AttemptTimeout
    BY <1>2, <1>5, NotYetServing DEF TimedOut
  <2>. QED  BY <2>1, <1>1, <1>3, Times
<1>. QED  BY <1>4, <1>5

(***************************************************************************)
(* The steps                                                               *)
(***************************************************************************)

LEMMA InitHolds == Init => IndInv
<1>. SUFFICES ASSUME Init  PROVE IndInv
  OBVIOUS
<1>. USE DEF Init
<1>1. TypeOK
  BY DEF TypeOK
<1>2. ASSUME NEW s \in Services  PROVE Timely(s)
  <2>1. pc[s] = "idle" /\ now = 0
    OBVIOUS
  <2>. QED  BY <2>1, Times DEF Timely
<1>3. \A s \in Services : OnTime(s)
  BY DEF OnTime
<1>. QED  BY <1>1, <1>2, <1>3 DEF IndInv

\* A main that moves on after n dials, no later than the schedule says,
\* begins the next attempt or serves in time.
LEMMA GoOnHolds ==
  ASSUME IndInv, NEW s \in Services, NEW n \in 0..Len(Peers[s]),
         GoOn(s, n), UNCHANGED now, pc[s] \in {"idle", "attempt"},
         NoCrash => now <= By[s][n]
  PROVE  IndInv'
<1>. USE DEF IndInv
<1>1. TypeOK /\ now \in Nat /\ Len(Peers[s]) \in Nat
  BY Schedule DEF TypeOK
<1>2. NoCrash' => NoCrash
  <2>1. \A t \in Services : t # s => pc'[t] = pc[t]
    BY <1>1 DEF GoOn, TypeOK
  <2>. QED  BY <2>1 DEF NoCrash
<1>3. CASE n < Len(Peers[s])
  <2>1. n + 1 \in 1..Len(Peers[s])
    BY <1>1, <1>3
  <2>2. /\ pc' = [pc EXCEPT ![s] = "attempt"]
        /\ dial' = [dial EXCEPT ![s] = n + 1]
        /\ start' = [start EXCEPT ![s] = now]
        /\ began' = [began EXCEPT ![s] = now]
        /\ since' = since /\ now' = now
    BY <1>3 DEF GoOn
  <2>3. TypeOK'
    BY <1>1, <2>1, <2>2 DEF TypeOK
  <2>4. ASSUME NEW t \in Services  PROVE Timely(t)'
    <3>1. CASE t = s
      BY <1>1, <2>2, <3>1, Times DEF TypeOK, Timely, Deadline
    <3>2. CASE t # s
      BY <1>1, <2>2, <3>2 DEF TypeOK, Timely, Deadline, WakeTime
    <3>. QED  BY <3>1, <3>2
  <2>5. ASSUME NoCrash, NEW t \in Services  PROVE OnTime(t)'
    <3>1. CASE t = s
      <4>1. By[s][n + 1] \in Nat /\ By[s][n] \in Nat
        BY <2>1, <1>1, Schedule
      <4>2. By[s][n + 1] >= By[s][n] + AttemptTimeout
        <5>1. (n + 1) - 1 = n
          BY <1>1
        <5>. QED  BY <2>1, <5>1, DialSchedule
      <4>3. now + AttemptTimeout <= By[s][n + 1]
        BY <1>1, <2>5, <4>1, <4>2, Times
      <4>4. pc'[s] = "attempt" /\ began'[s] = now /\ dial'[s] = n + 1
        BY <1>1, <2>2 DEF TypeOK
      <4>. QED  BY <3>1, <4>3, <4>4 DEF OnTime
    <3>2. CASE t # s
      BY <1>1, <2>2, <2>5, <3>2 DEF TypeOK, OnTime, WakeTime, ReadyBy
    <3>. QED  BY <3>1, <3>2
  <2>. QED  BY <1>2, <2>3, <2>4, <2>5
<1>4. CASE ~(n < Len(Peers[s]))
  <2>1. n = Len(Peers[s])
    BY <1>1, <1>4
  <2>2. /\ pc' = [pc EXCEPT ![s] = "serving"]
        /\ since' = [since EXCEPT ![s] = now]
        /\ dial' = dial /\ start' = start /\ began' = began /\ now' = now
    BY <1>4 DEF GoOn
  <2>3. TypeOK'
    BY <1>1, <2>2 DEF TypeOK
  <2>4. ASSUME NEW t \in Services  PROVE Timely(t)'
    BY <1>1, <2>2 DEF TypeOK, Timely, Deadline, WakeTime
  <2>5. ASSUME NoCrash, NEW t \in Services  PROVE OnTime(t)'
    BY <1>1, <2>1, <2>2, <2>5 DEF TypeOK, OnTime, WakeTime, ReadyBy
  <2>. QED  BY <1>2, <2>3, <2>4, <2>5
<1>. QED  BY <1>3, <1>4

LEMMA BeginHolds ==
  ASSUME IndInv, NEW s \in Services, Begin(s)
  PROVE  IndInv'
<1>1. now \in Nat /\ now <= Spread
  BY DEF Begin, IndInv, TypeOK, Timely
<1>2. 0 \in 0..Len(Peers[s]) /\ By[s][0] \in Nat /\ now <= By[s][0]
  BY <1>1, Schedule, Times
<1>. QED  BY <1>2, GoOnHolds DEF Begin

LEMMA ConnectedHolds ==
  ASSUME IndInv, NEW s \in Services, Connected(s)
  PROVE  IndInv'
<1>1. dial[s] \in 0..Len(Peers[s]) /\ now \in Nat /\ began[s] \in Nat
  BY Schedule DEF Connected, IndInv, TypeOK
<1>2. NoCrash => now <= By[s][dial[s]]
  BY <1>1, Schedule, Times DEF Connected, IndInv, Timely, OnTime
<1>. QED  BY <1>1, <1>2, GoOnHolds DEF Connected

LEMMA AttemptFailsHolds ==
  ASSUME IndInv, NEW s \in Services, AttemptFails(s)
  PROVE  IndInv'
<1>. USE DEF IndInv
<1>1. /\ TypeOK /\ now \in Nat /\ began[s] \in Nat /\ start[s] \in Nat
      /\ dial[s] \in 1..Len(Peers[s]) /\ dial[s] \in Nat
  BY DEF AttemptFails, TypeOK
<1>2. now = began[s] + AttemptTimeout /\ pc[s] = "attempt" /\ TimedOut(s)
  BY DEF AttemptFails, TimedOut
<1>3. pc' = [pc EXCEPT ![s] = IF Expired(s) THEN "failed" ELSE "sleep"]
      /\ UNCHANGED <<now, dial, start, began, since>>
  BY DEF AttemptFails
<1>4. TypeOK'
  BY <1>1, <1>3 DEF TypeOK
<1>5. ASSUME NEW t \in Services  PROVE Timely(t)'
  <2>1. CASE t = s
    <3>1. pc'[t] = IF Expired(s) THEN "failed" ELSE "sleep"
      BY <1>1, <1>3, <2>1 DEF TypeOK
    <3>2. began[s] < Deadline(s) + Interval
      BY <1>2 DEF Timely
    <3>. QED  BY <1>1, <1>2, <1>3, <2>1, <3>1, <3>2, Times, SMTT(20)
           DEF Timely, Deadline, WakeTime, Expired
  <2>2. CASE t # s
    BY <1>1, <1>3, <2>2 DEF TypeOK, Timely, Deadline, WakeTime
  <2>. QED  BY <2>1, <2>2
<1>6. ASSUME NoCrash'  PROVE \A t \in Services : OnTime(t)'
  <2>1. NoCrash
    BY <1>1, <1>2, <1>3, <1>6 DEF NoCrash, TypeOK
  <2>2. Peer(s) \in Services /\ ReadyBy(Peer(s)) \in Nat /\ By[s][dial[s]] \in Nat
    BY <1>1, DialSchedule, Schedule DEF Peer
  <2>3. began[s] <= ReadyBy(Peer(s))
    BY <1>2, <2>1, TimedOutEarly
  <2>4. /\ By[s][dial[s]] >= ReadyBy(Peer(s)) + 2 * AttemptTimeout + Interval
        /\ ReadyBy(Peer(s)) + AttemptTimeout <= MaxWait
    BY <1>1, DialSchedule DEF Peer
  <2>5. WakeTime(s) + AttemptTimeout <= By[s][dial[s]]
    <3>. DEFINE r == ReadyBy(Peer(s))
                y == By[s][dial[s]]
    <3>1. r \in Nat /\ y \in Nat /\ began[s] <= r /\ y >= r + 2 * AttemptTimeout + Interval
      BY <2>2, <2>3, <2>4
    <3>. HIDE DEF r, y
    <3>2. WakeTime(s) + AttemptTimeout <= y
      BY <1>1, <3>1, Times DEF WakeTime
    <3>. QED  BY <3>2 DEF y
  <2>6. ~Expired(s)
    <3>1. CASE pc[Peer(s)] = "serving"
      <4>1. since[Peer(s)] \in Nat /\ since[Peer(s)] <= ReadyBy(Peer(s))
            /\ began[s] < since[Peer(s)]
        BY <1>1, <1>2, <2>1, <2>2, <3>1 DEF TypeOK, OnTime, TimedOut
      <4>2. now < MaxWait
        BY <1>1, <1>2, <2>2, <2>4, <4>1, Times
      <4>. QED  BY <1>1, <4>2, Times DEF Expired, Deadline
    <3>2. CASE pc[Peer(s)] # "serving"
      <4>1. now <= ReadyBy(Peer(s))
        BY <2>1, <2>2, <3>2, NotYetServing
      <4>. QED  BY <1>1, <2>2, <2>4, <4>1, Times DEF Expired, Deadline
    <3>. QED  BY <3>1, <3>2
  <2>7. ASSUME NEW t \in Services  PROVE OnTime(t)'
    <3>1. CASE t = s
      <4>1. pc'[s] = "sleep"
        BY <1>1, <1>3, <2>6 DEF TypeOK
      <4>. QED  BY <1>3, <2>5, <3>1, <4>1 DEF OnTime, WakeTime
    <3>2. CASE t # s
      BY <1>1, <1>3, <2>1, <3>2 DEF TypeOK, OnTime, WakeTime, ReadyBy
    <3>. QED  BY <3>1, <3>2
  <2>. QED  BY <2>7
<1>. QED  BY <1>4, <1>5, <1>6

LEMMA WakeHolds ==
  ASSUME IndInv, NEW s \in Services, Wake(s)
  PROVE  IndInv'
<1>. USE DEF IndInv
<1>1. TypeOK /\ now \in Nat /\ began[s] \in Nat /\ start[s] \in Nat /\ Timely(s)
  BY DEF TypeOK
<1>2. /\ pc[s] = "sleep" /\ now = WakeTime(s)
      /\ pc' = [pc EXCEPT ![s] = "attempt"]
      /\ began' = [began EXCEPT ![s] = now]
      /\ now' = now /\ dial' = dial /\ start' = start /\ since' = since
  BY DEF Wake
<1>3. TypeOK'
  BY <1>1, <1>2 DEF TypeOK
<1>4. ASSUME NEW t \in Services  PROVE Timely(t)'
  <2>1. CASE t = s
    <3>1. pc'[s] = "attempt" /\ began'[s] = now
      BY <1>1, <1>2 DEF TypeOK
    <3>. QED  BY <1>1, <1>2, <2>1, <3>1, Times DEF Timely, Deadline, WakeTime
  <2>2. CASE t # s
    BY <1>1, <1>2, <2>2 DEF TypeOK, Timely, Deadline, WakeTime
  <2>. QED  BY <2>1, <2>2
<1>5. ASSUME NoCrash', NEW t \in Services  PROVE OnTime(t)'
  <2>1. NoCrash
    BY <1>1, <1>2, <1>5 DEF NoCrash, TypeOK
  <2>. QED  BY <1>1, <1>2, <2>1 DEF TypeOK, OnTime, WakeTime, ReadyBy
<1>. QED  BY <1>3, <1>4, <1>5

LEMMA CrashHolds ==
  ASSUME IndInv, NEW s \in Services, Crash(s)
  PROVE  IndInv'
<1>. USE DEF IndInv
<1>1. pc' = [pc EXCEPT ![s] = "crashed"] /\ UNCHANGED <<now, dial, start, began, since>>
  BY DEF Crash
<1>2. TypeOK' /\ pc'[s] = "crashed"
  BY <1>1 DEF TypeOK
<1>3. ASSUME NEW t \in Services  PROVE Timely(t)'
  BY <1>1 DEF TypeOK, Timely, Deadline, WakeTime
<1>. QED  BY <1>2, <1>3 DEF NoCrash

LEMMA TickHolds ==
  ASSUME IndInv, Tick
  PROVE  IndInv'
<1>. USE DEF IndInv
<1>1. /\ now' = now + 1 /\ now \in Nat
      /\ UNCHANGED <<pc, dial, start, began, since>>
      /\ \A s \in Services : Patient(s)
  BY DEF Tick, TypeOK
<1>2. TypeOK'
  BY <1>1 DEF TypeOK
<1>3. ASSUME NEW s \in Services  PROVE Timely(s)'
  <2>1. began[s] \in Nat /\ since[s] \in Nat /\ start[s] \in Nat /\ Timely(s) /\ Patient(s)
    BY <1>1 DEF TypeOK
  <2>2. pc[s] \in {"idle", "attempt", "sleep", "serving", "failed", "crashed"}
    BY DEF TypeOK
  <2>3. CASE pc[s] = "idle"
    BY <1>1, <2>1, <2>3, Times DEF Timely, Patient
  <2>4. CASE pc[s] = "attempt"
    BY <1>1, <2>1, <2>4, Times DEF Timely, Patient, Deadline
  <2>5. CASE pc[s] = "sleep"
    BY <1>1, <2>1, <2>5, Times DEF Timely, Patient, Deadline, WakeTime
  <2>6. CASE pc[s] \in {"serving", "failed", "crashed"}
    BY <1>1, <2>1, <2>6, Times DEF Timely, Deadline
  <2>. QED  BY <2>2, <2>3, <2>4, <2>5, <2>6
<1>4. NoCrash' => NoCrash /\ \A s \in Services : OnTime(s) => OnTime(s)'
  BY <1>1 DEF NoCrash, OnTime, WakeTime, ReadyBy
<1>. QED  BY <1>2, <1>3, <1>4

LEMMA NextHolds ==
  ASSUME IndInv, [Next]_vars
  PROVE  IndInv'
<1>1. CASE Tick
  BY <1>1, TickHolds
<1>2. ASSUME NEW s \in Services, Step(s) \/ Crash(s)  PROVE IndInv'
  BY <1>2, BeginHolds, ConnectedHolds, AttemptFailsHolds, WakeHolds, CrashHolds DEF Step
<1>3. CASE UNCHANGED vars
  BY <1>3 DEF vars, IndInv, TypeOK, Timely, OnTime, NoCrash, Deadline, WakeTime, ReadyBy
<1>. QED  BY <1>1, <1>2, <1>3 DEF Next

LEMMA IndInvSafe == Spec => []IndInv
<1>1. IndInv /\ [Next]_vars => IndInv'
  BY NextHolds
<1>. QED  BY InitHolds, <1>1, PTL DEF Spec

(***************************************************************************)
(* The theorems                                                            *)
(***************************************************************************)

\* The variables keep their types, and a main that dials is within its list
\* of peers (cmd/*/main.go).
THEOREM TypeCorrect == Spec => []TypeOK
<1>1. IndInv => TypeOK
  BY DEF IndInv
<1>. QED  BY IndInvSafe, <1>1, PTL

\* DialInsecureRetry never gives up on a peer that starts within the spread,
\* as long as nothing crashes and MaxWait covers the schedule, for any number
\* of services, peers and timeouts.
THEOREM NobodyGivesUpSafe == Spec => []NobodyGivesUp
<1>1. IndInv => NobodyGivesUp
  BY DEF IndInv, OnTime, NobodyGivesUp
<1>. QED  BY IndInvSafe, <1>1, PTL

\* Every service serves when the schedule says, whatever the order they are
\* started in.
THEOREM ServesInTimeSafe == Spec => []ServesInTime
<1>1. IndInv => ServesInTime
  BY NotYetServing DEF IndInv, OnTime, ServesInTime
<1>. QED  BY IndInvSafe, <1>1, PTL

\* A main exits no earlier than maxWait after the dial began, and less than a
\* sleep and an attempt later.
THEOREM GivesUpLateSafe == Spec => []GivesUpLate
<1>1. ASSUME IndInv, NEW s \in Services, pc[s] = "failed"
      PROVE  LET gaveUp == began[s] + AttemptTimeout
             IN  Deadline(s) <= gaveUp /\ gaveUp < Deadline(s) + Interval + AttemptTimeout
  <2>1. began[s] \in Nat /\ start[s] \in Nat /\ Timely(s)
    BY <1>1 DEF IndInv, TypeOK
  <2>. QED  BY <1>1, <2>1, Times DEF Timely, Deadline
<1>2. IndInv => GivesUpLate
  BY <1>1 DEF GivesUpLate
<1>. QED  BY IndInvSafe, <1>2, PTL
=============================================================================
