-------------------------------- MODULE StartUp --------------------------------
(***************************************************************************)
(* The start of the reference application against the clock: each main     *)
(* dials its peers one after the other with DialInsecureRetry              *)
(* (internal/grpcx/client.go) before it listens.  RequestChain has the     *)
(* same dials without time; this module has the time and nothing else.     *)
(*                                                                         *)
(* An attempt keeps trying until it is connected or attemptTimeout is      *)
(* over.  Only after a failed attempt is the deadline looked at; before    *)
(* the next one the loop sleeps, past the deadline if it must.             *)
(***************************************************************************)
EXTENDS Integers, Sequences

CONSTANTS
  Services,
  Peers,           \* service -> the peers its main dials, in order
  AttemptTimeout, Interval, MaxWait,   \* arguments of DialInsecureRetry
  Spread,          \* the last service is started this long after the first
  By,              \* service -> n -> when its first n dials are done at the latest
  MayCrash,        \* services that may crash once they serve
  Horizon          \* bound: the clock stops here

\* When a service serves at the latest, by the schedule.
ReadyBy(s) == By[s][Len(Peers[s])]

ASSUME TimeAssumption ==
  /\ AttemptTimeout \in Nat \ {0} /\ Interval \in Nat \ {0}
  /\ MaxWait \in Nat /\ Spread \in Nat /\ Horizon \in Nat
  /\ MayCrash \subseteq Services

ASSUME PeersAssumption == Peers \in [Services -> Seq(Services)]

\* A schedule: a dial takes one attempt when the peer serves already.  When
\* it does not, an attempt that began before may still fail, and another one
\* follows after the sleep.  MaxWait covers the wait for each peer.
ASSUME ScheduleAssumption ==
  \A s \in Services :
    /\ By[s] \in [0..Len(Peers[s]) -> Nat]
    /\ By[s][0] >= Spread
    /\ \A n \in 0..Len(Peers[s]) : By[s][n] <= ReadyBy(s)
    /\ \A n \in 1..Len(Peers[s]) :
         /\ By[s][n] >= By[s][n - 1] + AttemptTimeout
         /\ By[s][n] >= ReadyBy(Peers[s][n]) + 2 * AttemptTimeout + Interval
         /\ ReadyBy(Peers[s][n]) + AttemptTimeout <= MaxWait

VARIABLES
  now,      \* the clock
  pc,       \* where each main is
  dial,     \* the number of the peer it dials
  start,    \* when that dial started
  began,    \* when the attempt at hand began
  since     \* since when it serves

vars == <<now, pc, dial, start, began, since>>

Peer(s) == Peers[s][dial[s]]
Deadline(s) == start[s] + MaxWait

(***************************************************************************)
(* DialInsecureRetry                                                       *)
(***************************************************************************)

\* Mutant: one dial too many.
GoOn_OneMore(s, n) ==
  /\ pc' = [pc EXCEPT ![s] = IF n <= Len(Peers[s]) THEN "attempt" ELSE "serving"]
  /\ dial' = [dial EXCEPT ![s] = n + 1]
  /\ start' = [start EXCEPT ![s] = now]
  /\ began' = [began EXCEPT ![s] = now]
  /\ UNCHANGED since

\* The main of s goes on after n dials: to the next one, or it listens.
GoOn(s, n) ==
  IF n < Len(Peers[s])
  THEN /\ pc' = [pc EXCEPT ![s] = "attempt"]
       /\ dial' = [dial EXCEPT ![s] = n + 1]
       /\ start' = [start EXCEPT ![s] = now]
       /\ began' = [began EXCEPT ![s] = now]
       /\ UNCHANGED since
  ELSE /\ pc' = [pc EXCEPT ![s] = "serving"]
       /\ since' = [since EXCEPT ![s] = now]
       /\ UNCHANGED <<dial, start, began>>

Begin(s) ==
  /\ pc[s] = "idle"
  /\ GoOn(s, 0)
  /\ UNCHANGED now

Connected(s) ==
  /\ pc[s] = "attempt"
  /\ pc[Peer(s)] = "serving"
  /\ GoOn(s, dial[s])
  /\ UNCHANGED now

\* Mutant: the sleep is counted in.
Expired_BeforeSleep(s) == now + Interval >= Deadline(s)

\* !time.Now().Before(deadline)
Expired(s) == now >= Deadline(s)

\* Mutant: DialInsecure with a context that does not end.
TimedOut_Never(s) == FALSE

\* A peer that has served since before the attempt began is reached in time;
\* one that came up meanwhile may be missed, waiting out gRPC's back-off.
TimedOut(s) ==
  /\ now = began[s] + AttemptTimeout
  /\ ~(pc[Peer(s)] = "serving" /\ since[Peer(s)] <= began[s])

AttemptFails(s) ==
  /\ pc[s] = "attempt"
  /\ TimedOut(s)
  /\ pc' = [pc EXCEPT ![s] = IF Expired(s) THEN "failed" ELSE "sleep"]
  /\ UNCHANGED <<now, dial, start, began, since>>

\* Mutant: the wait doubles.
WakeTime_Backoff(s) == began[s] + AttemptTimeout + 2 * Interval

WakeTime(s) == began[s] + AttemptTimeout + Interval

Wake(s) ==
  /\ pc[s] = "sleep"
  /\ now = WakeTime(s)
  /\ pc' = [pc EXCEPT ![s] = "attempt"]
  /\ began' = [began EXCEPT ![s] = now]
  /\ UNCHANGED <<now, dial, start, since>>

\* Nothing restarts a process here: the compose file and the script do not.
Crash(s) ==
  /\ s \in MayCrash
  /\ pc[s] = "serving"
  /\ pc' = [pc EXCEPT ![s] = "crashed"]
  /\ UNCHANGED <<now, dial, start, began, since>>

Settled(s) == pc[s] \in {"serving", "failed", "crashed"}

\* Time does not pass a service that has something to do now.
Patient(s) ==
  CASE pc[s] = "idle"    -> now < Spread
    [] pc[s] = "attempt" -> now < began[s] + AttemptTimeout
    [] pc[s] = "sleep"   -> now < WakeTime(s)
    [] OTHER             -> TRUE

Tick ==
  /\ now < Horizon
  /\ \E s \in Services : ~Settled(s)
  /\ \A s \in Services : Patient(s)
  /\ now' = now + 1
  /\ UNCHANGED <<pc, dial, start, began, since>>

(***************************************************************************)
(* The specification                                                       *)
(***************************************************************************)

Init ==
  /\ now = 0
  /\ pc = [s \in Services |-> "idle"]
  /\ dial = [s \in Services |-> 0]
  /\ start = [s \in Services |-> 0]
  /\ began = [s \in Services |-> 0]
  /\ since = [s \in Services |-> 0]

Step(s) == Begin(s) \/ Connected(s) \/ AttemptFails(s) \/ Wake(s)

Next == Tick \/ \E s \in Services : Step(s) \/ Crash(s)

Spec == Init /\ [][Next]_vars

\* Time passes and the processes run; nothing has to crash.
FairSpec == Spec /\ WF_vars(Tick \/ \E s \in Services : Step(s))

(***************************************************************************)
(* Properties                                                              *)
(***************************************************************************)

TypeOK ==
  /\ now \in Nat
  /\ pc \in [Services -> {"idle", "attempt", "sleep", "serving", "failed", "crashed"}]
  /\ dial \in [Services -> Nat]
  /\ start \in [Services -> Nat] /\ began \in [Services -> Nat] /\ since \in [Services -> Nat]
  /\ \A s \in Services : pc[s] \in {"attempt", "sleep", "failed"} => dial[s] \in 1..Len(Peers[s])

NoCrash == \A s \in Services : pc[s] # "crashed"

\* client.go:31, "mesh startup races": as long as nothing crashes, no main
\* gives up, in whatever order the services are started within Spread of each
\* other, although a peer that has to wait for its own peers comes up late.
NobodyGivesUp == NoCrash => \A s \in Services : pc[s] # "failed"

\* Nor does the wait drag on: each service serves when the schedule says,
\* which is one attempt and one sleep more than it takes in theory.
ServesInTime ==
  NoCrash => \A s \in Services : IF pc[s] = "serving" THEN since[s] <= ReadyBy(s)
                                 ELSE now <= ReadyBy(s)

\* client.go:31, "retries dial until maxWait elapses": a main that gives up
\* does so no earlier than that, and overruns it by less than one sleep and
\* one attempt (the deadline is not looked at before the sleep).
GivesUpLate ==
  \A s \in Services : pc[s] = "failed" =>
    LET gaveUp == began[s] + AttemptTimeout
    IN  Deadline(s) <= gaveUp /\ gaveUp < Deadline(s) + Interval + AttemptTimeout

\* Every start ends, also when a peer has crashed and does not come back:
\* the service serves, or has exited.
EveryStartEnds == \A s \in Services : <>(Settled(s))
=============================================================================
