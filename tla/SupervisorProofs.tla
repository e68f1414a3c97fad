--------------------------- MODULE SupervisorProofs ---------------------------
(***************************************************************************)
(* Proofs about Supervisor, for any set of cameras, any timeouts, backoffs *)
(* and failures, with or without the VLM service.                          *)
(***************************************************************************)
EXTENDS Supervisor, FiniteSetTheorems, TLAPS

ProcessTypes ==
  /\ known \subseteq Camera /\ pending \subseteq Camera /\ victim \subseteq Camera
  /\ live \in [Camera -> Nat]

(* A camera is known, waits for a restart or is being stopped, never two   *)
(* of these; one is stopped at a time, and none while others start.        *)
OneRole ==
  /\ known \intersect pending = {} /\ known \intersect victim = {}
  /\ \A c, d \in victim : c = d
  /\ victim # {} => pc \in {"stop", "shutdown"}

Manned == ProcessTypes /\ OneRole /\ OneProcess

(* The steps that neither start, end nor rename a process.                 *)
LEMMA SameProcesses ==
  ASSUME Manned, UNCHANGED <<known, live, victim>>, pending' \subseteq pending,
         victim # {} => pc' = pc
  PROVE  Manned'
BY DEF Manned, ProcessTypes, OneRole, OneProcess

(* A process that ends.                                                    *)
LEMMA ProcessEnds ==
  ASSUME Manned, NEW c \in Camera, live[c] > 0,
         live' = [live EXCEPT ![c] = live[c] - 1],
         UNCHANGED <<known, pending, pc>>, victim' = victim \/ (c \in victim /\ victim' = {})
  PROVE  Manned'
<1>1. /\ live' \in [Camera -> Nat] /\ live'[c] = 0
      /\ \A d \in Camera : d # c => live'[d] = live[d]
  BY DEF Manned, ProcessTypes, OneProcess
<1> QED
  BY <1>1 DEF Manned, ProcessTypes, OneRole, OneProcess

(* A worker told to stop leaves the table and is being stopped.             *)
LEMMA TerminateKeeps == ASSUME Manned, NEW c \in Camera, Terminate(c) PROVE Manned'
<1>1. /\ victim = {} /\ c \in known /\ pc \in {"stop", "shutdown"} /\ pc' = pc
      /\ known' = known \ {c} /\ pending' = pending \ {c} /\ victim' = {c}
      /\ live' = live
  BY DEF Terminate, reconcileVars
<1> QED
  BY <1>1 DEF Manned, ProcessTypes, OneRole, OneProcess

(* A worker that has exited is stopped no longer.                           *)
LEMMA StoppedKeeps == ASSUME Manned, NEW c \in Camera, Stopped(c) PROVE Manned'
<1>1. /\ c \in victim /\ live[c] = 0 /\ victim' = {}
      /\ UNCHANGED <<pc, known, pending, live>>
  BY DEF Stopped, reconcileVars, workerVars
<1> QED
  BY <1>1 DEF Manned, ProcessTypes, OneRole, OneProcess

(* Nor is one that was killed.                                              *)
LEMMA KillKeeps == ASSUME Manned, NEW c \in Camera, Kill(c) PROVE Manned'
BY ProcessEnds DEF Kill, reconcileVars

(* A worker that exited by itself becomes pending.                          *)
LEMMA ReapKeeps == ASSUME Manned, Reap PROVE Manned'
<1> DEFINE dead == {c \in known : live[c] = 0}
<1>1. /\ known' = known \ dead /\ pending' = pending \union dead
      /\ live' = live /\ victim' = victim /\ pc = "reap"
  BY DEF Reap, stopVars
<1>2. victim = {}
  BY <1>1 DEF Manned, OneRole
<1> QED
  BY <1>1, <1>2 DEF Manned, ProcessTypes, OneRole, OneProcess

(* A worker starts only for a camera that has none.                         *)
LEMMA SpawnKeeps == ASSUME Manned, NEW c \in Camera, Spawn(c) PROVE Manned'
<1>1. /\ pc = "start" /\ pc' = pc /\ victim' = victim
      /\ known' = known \union {c} /\ pending' = pending \ {c}
      /\ live' = [live EXCEPT ![c] = live[c] + 1]
  BY DEF Spawn, reconcileVars, stopVars
<1>2. victim = {} /\ c \notin known
  BY <1>1 DEF Manned, OneRole, Spawn, ToStart
<1>3. live[c] = 0
  BY <1>2 DEF Manned, ProcessTypes, OneProcess
<1>4. /\ live' \in [Camera -> Nat] /\ live'[c] = 1
      /\ \A d \in Camera : d # c => live'[d] = live[d]
  BY <1>1, <1>3 DEF Manned, ProcessTypes
<1> QED
  BY <1>1, <1>2, <1>4 DEF Manned, ProcessTypes, OneRole, OneProcess

(* Every step keeps the invariant.                                          *)
LEMMA MannedStays == ASSUME Manned, [Next]_vars PROVE Manned'
<1>1. CASE Wake \/ VlmRuns \/ VlmExited \/ VlmWaits \/ VlmStarted \/ VlmCannotStart
           \/ ReadDesired \/ AllStopped \/ CycleDone \/ StopVlm
  <2>1. pc \in {"stop", "shutdown"} => AllStopped \/ StopVlm
    BY <1>1 DEF Wake, VlmRuns, VlmExited, VlmWaits, VlmStarted, VlmCannotStart,
                ReadDesired, CycleDone
  <2>2. victim = {}
    BY <2>1 DEF Manned, OneRole, AllStopped, StopVlm
  <2>3. UNCHANGED <<known, live, victim>> /\ pending' \subseteq pending
    BY <1>1 DEF Wake, VlmRuns, VlmExited, VlmWaits, VlmStarted, VlmCannotStart,
                ReadDesired, AllStopped, CycleDone, StopVlm, workerVars, stopVars
  <2> QED
    BY <2>2, <2>3, SameProcesses
<1>2. CASE Reap
  BY <1>2, ReapKeeps
<1>3. ASSUME NEW c \in Camera, Terminate(c) \/ Stopped(c) \/ Kill(c) \/ Spawn(c)
      PROVE  Manned'
  BY <1>3, TerminateKeeps, StoppedKeeps, KillKeeps, SpawnKeeps
<1>4. ASSUME NEW c \in Camera, SpawnFails(c)
      PROVE  Manned'
  <2>1. victim = {} /\ UNCHANGED <<known, live, victim>> /\ pending' \subseteq pending
    BY <1>4 DEF Manned, OneRole, SpawnFails, stopVars
  <2> QED
    BY <2>1, SameProcesses
<1>5. ASSUME NEW c \in Camera, WorkerDies(c) \/ DrainedExit(c)
      PROVE  Manned'
  BY <1>5, ProcessEnds DEF WorkerDies, DrainedExit, reconcileVars, stopVars
<1>6. ASSUME NEW c \in Camera, VehicleWaits(c) \/ VehicleSettled(c) \/ Toggle(c)
      PROVE  Manned'
  BY <1>6, SameProcesses
     DEF VehicleWaits, VehicleSettled, Toggle, reconcileVars, workerVars, stopVars
<1>7. CASE VlmDies \/ Signal \/ Tick
  BY <1>7, SameProcesses DEF VlmDies, Signal, Tick, reconcileVars, workerVars, stopVars
<1>8. CASE UNCHANGED vars
  BY <1>8, SameProcesses DEF vars
<1> QED
  BY <1>1, <1>2, <1>3, <1>4, <1>5, <1>6, <1>7, <1>8 DEF Next, Reconcile

(* The invariant holds of every state.                                      *)
LEMMA MannedCorrect == Spec => []Manned
<1>1. Init => Manned
  BY DEF Init, Manned, ProcessTypes, OneRole, OneProcess
<1>2. Manned /\ [Next]_vars => Manned'
  BY MannedStays
<1> QED
  BY <1>1, <1>2, PTL DEF Spec

(* A camera never has two processes and the supervisor never loses sight   *)
(* of one, wherever processes die, starts fail and cameras are toggled.    *)
THEOREM OneProcessCorrect == Spec => []OneProcess
<1>1. Manned => OneProcess
  BY DEF Manned
<1> QED
  BY <1>1, MannedCorrect, PTL

(* The VLM service is stopped only when no worker is left to drain.        *)
THEOREM ServiceOutlivesWorkersCorrect == Spec => ServiceOutlivesWorkers
<1> DEFINE Last == (vlm = "running" /\ vlm' = "none") => \A c \in Camera : live[c] = 0
<1>1. Manned /\ [Next]_vars => [Last]_vars
  <2> SUFFICES ASSUME Manned, Next, vlm = "running", vlm' = "none"
               PROVE  \A c \in Camera : live[c] = 0
    OBVIOUS
  <2>1. StopVlm
    BY DEF Next, Reconcile, Wake, VlmRuns, VlmExited, VlmWaits, VlmStarted, VlmCannotStart,
           ReadDesired, AllStopped, Reap, CycleDone, Terminate, Stopped, Kill, Spawn,
           SpawnFails, WorkerDies, VehicleWaits, VehicleSettled, DrainedExit, Toggle,
           VlmDies, Signal, Tick, vlmVars
  <2>2. known = {} /\ victim = {}
    BY <2>1 DEF StopVlm
  <2> QED
    BY <2>2 DEF Manned, ProcessTypes, OneProcess
<1> QED
  BY <1>1, MannedCorrect, PTL DEF Spec, ServiceOutlivesWorkers

-----------------------------------------------------------------------------
(* Restarts.  A pending camera has served its backoff when its timer has   *)
(* run out; the timer is set from a clock that was read lag ago, and a     *)
(* cycle that stops several workers lags by a timeout for each.            *)
ClockTypes ==
  /\ age \in [Camera -> Nat] /\ timer \in [Camera -> Nat]
  /\ backoff \in [Camera -> MinBackoff..MaxBackoff]
  /\ lag \in 0..MaxLag /\ patience \in Nat
  /\ ripe \subseteq Camera

(* Each timeout so far was for a worker that is not known any more.        *)
LagIsBounded ==
  /\ victim = {} => patience = 0
  /\ pc = "sleep" => lag = 0
  /\ pc \in {"stop", "shutdown"} => lag + patience <= Cardinality(Camera \ known) * StopTimeout

(* A worker that is known was started before this cycle read its clock.    *)
StartedBefore == pc \in {"stop", "reap"} => \A c \in known : age[c] >= lag

RipeIsDue ==
  /\ pc \in {"stop", "reap"} => ripe \intersect known = {}
  /\ pc \in {"stop", "reap", "start"} => \A c \in ripe \intersect pending : timer[c] = 0

BackoffServed == \A c \in pending : age[c] + timer[c] >= backoff[c]

Paced ==
  /\ Manned /\ ClockTypes /\ LagIsBounded /\ StartedBefore /\ RipeIsDue /\ BackoffServed

(* The constants are numbers in their order.                                *)
LEMMA Bounds ==
  /\ StopTimeout \in Nat \ {0} /\ MinBackoff \in Nat \ {0} /\ MaxBackoff \in Nat
  /\ MinBackoff <= MaxBackoff /\ IsFiniteSet(Camera) /\ StableUptime \in Nat
  /\ Cardinality(Camera) \in Nat /\ MaxLag \in Nat /\ Oldest \in Nat
  /\ Oldest >= MaxLag /\ Oldest >= MaxBackoff
<1>1. Cardinality(Camera) \in Nat
  BY TimesAssumption, FS_CardinalityType
<1>2. MaxLag \in Nat
  BY <1>1, TimesAssumption DEF MaxLag
<1> QED
  BY <1>1, <1>2, TimesAssumption DEF Oldest

(* Products grow with their factors.                                        *)
LEMMA Times == ASSUME NEW m \in Nat, NEW n \in Nat, NEW k \in Nat, m <= n
               PROVE  m * k \in Nat /\ m * k <= n * k /\ (m + 1) * k = m * k + k
OBVIOUS

(* How many cameras are left when one is taken out.                         *)
LEMMA KnownCards ==
  ASSUME NEW S \in SUBSET Camera
  PROVE  /\ Cardinality(Camera \ S) \in Nat /\ Cardinality(Camera \ S) <= Cardinality(Camera)
         /\ \A c \in S : Cardinality(Camera \ (S \ {c})) = Cardinality(Camera \ S) + 1
<1>1. IsFiniteSet(Camera \ S) /\ Cardinality(Camera \ S) <= Cardinality(Camera)
  BY Bounds, FS_Subset
<1>2. ASSUME NEW c \in S
      PROVE  Cardinality(Camera \ (S \ {c})) = Cardinality(Camera \ S) + 1
  <2>1. Camera \ (S \ {c}) = (Camera \ S) \union {c} /\ c \notin Camera \ S
    BY <1>2
  <2> QED BY <1>1, <2>1, FS_AddElement
<1> QED BY <1>1, <1>2, FS_CardinalityType

(* The steps that leave the clocks and the workers alone.                  *)
LEMMA SamePace ==
  ASSUME Paced, Manned', UNCHANGED <<known, age, pending, timer, backoff, lag, patience, victim, ripe>>,
         pc' = pc \/ (pc \in {"sleep", "vlm", "start", "shutdown"}
                     /\ pc' \in {"vlm", "read", "done", "shutdown"} /\ (pc' = "shutdown" => pc = "sleep"))
  PROVE  Paced'
<1>1. pc \notin {"stop", "shutdown"} => patience = 0
  BY DEF Paced, Manned, OneRole, LagIsBounded
<1>2. 0 <= Cardinality(Camera \ known) * StopTimeout
  BY KnownCards, Times, Bounds DEF Paced, Manned, ProcessTypes
<1> QED
  BY <1>1, <1>2 DEF Paced, ClockTypes, LagIsBounded, StartedBefore, RipeIsDue, BackoffServed

(* The end of a cycle.                                                     *)
LEMMA CycleOverPaces ==
  ASSUME Paced, Manned', CycleOver, pc \in {"vlm", "start"}, pending' \subseteq pending,
         UNCHANGED <<known, age, timer, backoff, patience, victim>>
  PROVE  Paced'
BY Bounds DEF Paced, CycleOver, ClockTypes, LagIsBounded, StartedBefore, RipeIsDue, BackoffServed

(* A new cycle counts its lag from nothing.                                 *)
LEMMA ReadPaces == ASSUME Paced, Manned', ReadDesired PROVE Paced'
<1>1. /\ pc = "read" /\ pc' = "stop" /\ lag' = 0
      /\ ripe' = {c \in pending : timer[c] = 0}
      /\ UNCHANGED <<known, age, pending, timer, backoff, patience, victim>>
  BY DEF ReadDesired, workerVars, stopVars
<1>2. patience = 0
  BY <1>1 DEF Paced, Manned, OneRole, LagIsBounded
<1>3. 0 <= Cardinality(Camera \ known) * StopTimeout
  BY KnownCards, Times, Bounds DEF Paced, Manned, ProcessTypes
<1> QED
  BY <1>1, <1>2, <1>3, Bounds DEF Paced, Manned, ProcessTypes, OneRole, ClockTypes, LagIsBounded,
                                  StartedBefore, RipeIsDue, BackoffServed

(* Each stop of a cycle lags it by at most the patience.                    *)
LEMMA TerminatePaces == ASSUME Paced, Manned', NEW c \in Camera, Terminate(c) PROVE Paced'
<1>1. /\ victim = {} /\ c \in known /\ pc \in {"stop", "shutdown"} /\ pc' = pc
      /\ known' = known \ {c} /\ pending' = pending \ {c} /\ victim' = {c}
      /\ patience' = StopTimeout /\ age' = [age EXCEPT ![c] = 0]
      /\ UNCHANGED <<timer, backoff, lag, ripe>>
  BY DEF Terminate, reconcileVars
<1>2. lag <= Cardinality(Camera \ known) * StopTimeout /\ lag \in Nat
  BY <1>1 DEF Paced, LagIsBounded, ClockTypes
<1>3. lag' + patience' <= Cardinality(Camera \ known') * StopTimeout
  <2>1. Cardinality(Camera \ known') = Cardinality(Camera \ known) + 1
        /\ Cardinality(Camera \ known) \in Nat
    BY <1>1, KnownCards DEF Paced, Manned, ProcessTypes
  <2>2. StopTimeout \in Nat
    BY Bounds
  <2> DEFINE n == Cardinality(Camera \ known)
  <2> HIDE DEF n
  <2>3. (n + 1) * StopTimeout = n * StopTimeout + StopTimeout /\ n * StopTimeout \in Nat
    BY <2>1, <2>2, Times DEF n
  <2> QED BY <1>1, <1>2, <2>1, <2>2, <2>3 DEF n
<1>4. ClockTypes'
  BY <1>1, Bounds DEF Paced, ClockTypes
<1>5. \A d \in Camera : d # c => age'[d] = age[d]
  BY <1>1 DEF Paced, ClockTypes
<1>6. StartedBefore' /\ RipeIsDue' /\ BackoffServed'
  BY <1>1, <1>5 DEF Paced, Manned, ProcessTypes, StartedBefore, RipeIsDue, BackoffServed
<1>7. LagIsBounded'
  BY <1>1, <1>3 DEF LagIsBounded
<1> QED
  BY <1>4, <1>6, <1>7 DEF Paced

(* The worker that was being stopped is gone.                              *)
LEMMA VictimGonePaces ==
  ASSUME Paced, Manned', victim' = {}, patience' = 0,
         UNCHANGED <<pc, known, age, pending, timer, backoff, lag, ripe>>
  PROVE  Paced'
<1>1. Cardinality(Camera \ known) * StopTimeout \in Nat
  BY KnownCards, Times, Bounds DEF Paced, Manned, ProcessTypes
<1>2. lag \in Nat /\ patience \in Nat
  BY DEF Paced, ClockTypes
<1>3. LagIsBounded'
  BY <1>1, <1>2 DEF Paced, LagIsBounded
<1> QED
  BY <1>3 DEF Paced, ClockTypes, StartedBefore, RipeIsDue, BackoffServed

(* With all stops made, the lag of the cycle is settled.                    *)
LEMMA AllStoppedPaces == ASSUME Paced, Manned', AllStopped PROVE Paced'
<1>1. /\ pc = "stop" /\ pc' = "reap" /\ known \subseteq desired
      /\ pending' = pending \intersect desired
      /\ age' = [c \in Camera |-> IF c \in desired THEN age[c] ELSE 0]
      /\ timer' = [c \in Camera |-> IF c \in desired THEN timer[c] ELSE 0]
      /\ UNCHANGED <<known, backoff, lag, patience, victim, ripe>>
  BY DEF AllStopped, stopVars
<1>2. known \subseteq Camera /\ pending \subseteq Camera
  BY DEF Paced, Manned, ProcessTypes
<1> QED
  BY <1>1, <1>2 DEF Paced, ClockTypes, LagIsBounded, StartedBefore, RipeIsDue, BackoffServed

(* A worker found dead waits its backoff from the time of the cycle.        *)
LEMMA ReapPaces == ASSUME Paced, Manned', Reap PROVE Paced'
<1> DEFINE dead == {c \in known : live[c] = 0}
<1>1. /\ pc = "reap" /\ pc' = "start" /\ known' = known \ dead /\ pending' = pending \union dead
      /\ backoff' = [c \in Camera |->
             CASE c \notin dead -> backoff[c]
               [] c \in dead /\ Uptime(c) > StableUptime -> MinBackoff
               [] OTHER -> Doubled(backoff[c])]
      /\ timer' = [c \in Camera |-> IF c \in dead THEN Less(backoff'[c], lag) ELSE timer[c]]
      /\ UNCHANGED <<age, lag, patience, victim, ripe>>
  BY DEF Reap, stopVars
<1>2. known \subseteq Camera /\ pending \subseteq Camera /\ known \intersect pending = {}
  BY DEF Paced, Manned, ProcessTypes, OneRole
<1>3. \A c \in dead : age[c] >= lag
  BY <1>1 DEF Paced, StartedBefore
<1> HIDE DEF dead
<1>4. dead \subseteq known
  BY DEF dead
<1>5. \A c \in Camera : c \notin dead => backoff'[c] = backoff[c] /\ timer'[c] = timer[c]
  BY <1>1
<1>6. backoff' \in [Camera -> MinBackoff..MaxBackoff]
  <2> SUFFICES ASSUME NEW c \in Camera PROVE backoff'[c] \in MinBackoff..MaxBackoff
    BY <1>1
  <2>1. backoff[c] \in MinBackoff..MaxBackoff
    BY DEF Paced, ClockTypes
  <2>2. Doubled(backoff[c]) \in MinBackoff..MaxBackoff
    BY <2>1, Bounds DEF Doubled, Capped
  <2>3. MinBackoff \in MinBackoff..MaxBackoff
    BY Bounds
  <2>4. backoff'[c] = CASE c \notin dead -> backoff[c]
               [] c \in dead /\ Uptime(c) > StableUptime -> MinBackoff
               [] OTHER -> Doubled(backoff[c])
    BY <1>1
  <2>5. CASE c \notin dead
    BY <2>1, <2>4, <2>5
  <2>6. CASE c \in dead /\ Uptime(c) > StableUptime
    BY <2>3, <2>4, <2>6
  <2>7. CASE c \in dead /\ ~(Uptime(c) > StableUptime)
    BY <2>2, <2>4, <2>7
  <2> QED BY <2>5, <2>6, <2>7
<1>7. timer' \in [Camera -> Nat] /\ \A c \in dead : timer'[c] + lag >= backoff'[c]
  BY <1>1, <1>2, <1>4, <1>6, Bounds DEF Less, Paced, ClockTypes
<1>8. BackoffServed'
  <2> SUFFICES ASSUME NEW c \in pending' PROVE age'[c] + timer'[c] >= backoff'[c]
    BY DEF BackoffServed
  <2>1. CASE c \in dead
    <3>1. age[c] >= lag /\ age' = age /\ timer'[c] + lag >= backoff'[c] /\ c \in Camera
      BY <1>1, <1>2, <1>3, <1>4, <1>7, <2>1
    <3>2. age[c] \in Nat /\ lag \in Nat /\ timer'[c] \in Nat /\ backoff'[c] \in Nat
      BY <1>6, <1>7, <3>1, Bounds DEF Paced, ClockTypes
    <3> QED BY <3>1, <3>2
  <2>2. CASE c \in pending /\ c \notin dead
    BY <1>1, <1>2, <1>5, <2>2 DEF Paced, BackoffServed
  <2> QED BY <1>1, <2>1, <2>2
<1>9. RipeIsDue'
  BY <1>1, <1>2, <1>4, <1>5 DEF Paced, RipeIsDue
<1> QED
  BY <1>1, <1>6, <1>7, <1>8, <1>9 DEF Paced, ClockTypes, LagIsBounded, StartedBefore

(* A worker starts with no age.                                             *)
LEMMA SpawnPaces == ASSUME Paced, Manned', NEW c \in Camera, Spawn(c) PROVE Paced'
<1>1. /\ pc = "start" /\ pc' = pc /\ known' = known \union {c} /\ pending' = pending \ {c}
      /\ age' = [age EXCEPT ![c] = 0]
      /\ UNCHANGED <<timer, backoff, lag, patience, victim, ripe>>
  BY DEF Spawn, reconcileVars, stopVars
<1> QED
  BY <1>1 DEF Paced, ClockTypes, LagIsBounded, StartedBefore, RipeIsDue, BackoffServed, Manned,
              ProcessTypes

(* Time passes for ages and backoffs alike.                                 *)
LEMMA TickPaces == ASSUME Paced, Manned', Tick PROVE Paced'
<1>1. /\ pc = "sleep" \/ patience > 0
      /\ age' = [c \in Camera |-> IF c \in known \union pending
                              THEN Capped(age[c] + 1, Oldest)
                              ELSE age[c]]
      /\ timer' = [c \in Camera |-> Less(timer[c], 1)]
      /\ lag' = IF pc = "sleep" THEN 0 ELSE lag + 1
      /\ patience' = Less(patience, 1)
      /\ UNCHANGED <<pc, known, pending, backoff, victim, ripe>>
  BY DEF Tick
<1>2. patience \in Nat /\ lag \in Nat /\ age \in [Camera -> Nat] /\ timer \in [Camera -> Nat]
      /\ known \subseteq Camera /\ pending \subseteq Camera
  BY DEF Paced, ClockTypes, Manned, ProcessTypes
<1>3. patience > 0 => victim # {} /\ pc \in {"stop", "shutdown"}
  BY DEF Paced, LagIsBounded, Manned, OneRole
<1>4. LagIsBounded'
  BY <1>1, <1>2, <1>3 DEF Paced, LagIsBounded, Less
<1>5. lag' \in 0..MaxLag
  <2>1. Cardinality(Camera \ known) * StopTimeout <= MaxLag
    BY KnownCards, Times, Bounds DEF MaxLag, Paced, Manned, ProcessTypes
  <2>2. CASE pc = "sleep"
    BY <1>1, <2>2, Bounds
  <2>3. CASE pc # "sleep"
    <3>1. lag + patience <= MaxLag
      <4>1. Cardinality(Camera \ known) * StopTimeout \in Nat
        BY KnownCards, Times, Bounds DEF Paced, Manned, ProcessTypes
      <4> HIDE DEF MaxLag
      <4> QED BY <1>1, <1>2, <1>3, <2>1, <2>3, <4>1, Bounds DEF Paced, LagIsBounded
    <3> QED BY <1>1, <1>2, <2>3, <3>1, Bounds
  <2> QED BY <2>2, <2>3
<1>6. age' \in [Camera -> Nat] /\ timer' \in [Camera -> Nat] /\ patience' \in Nat
  BY <1>1, <1>2, Bounds DEF Capped, Less
<1>7. StartedBefore'
  BY <1>1, <1>2, <1>5, Bounds DEF Capped, Paced, StartedBefore
<1>8. BackoffServed'
  <2> SUFFICES ASSUME NEW c \in pending PROVE age'[c] + timer'[c] >= backoff[c]
    BY <1>1 DEF BackoffServed
  <2>1. age[c] + timer[c] >= backoff[c] /\ backoff[c] \in Nat /\ backoff[c] <= Oldest
    BY <1>2, Bounds DEF Paced, BackoffServed, ClockTypes
  <2> QED BY <1>1, <1>2, <2>1, Bounds DEF Capped, Less
<1>9. RipeIsDue'
  BY <1>1, <1>2 DEF Paced, RipeIsDue, Less
<1> QED
  BY <1>1, <1>4, <1>5, <1>6, <1>7, <1>8, <1>9 DEF Paced, ClockTypes

(* Every step keeps ages and backoffs in relation.                          *)
LEMMA PacedStays == ASSUME Paced, [Next]_vars PROVE Paced'
<1>1. Manned'
  BY MannedStays DEF Paced
<1>2. CASE Wake \/ VlmRuns \/ VlmExited \/ VlmWaits \/ VlmStarted \/ StopVlm
  BY <1>1, <1>2, SamePace DEF Wake, VlmRuns, VlmExited, VlmWaits, VlmStarted, StopVlm,
                              workerVars, stopVars
<1>3. CASE VlmCannotStart \/ CycleDone
  BY <1>1, <1>3, CycleOverPaces DEF VlmCannotStart, CycleDone, workerVars, stopVars
<1>4. ASSUME NEW c \in Camera, SpawnFails(c) PROVE Paced'
  BY <1>1, <1>4, CycleOverPaces DEF SpawnFails, stopVars
<1>5. CASE ReadDesired \/ AllStopped \/ Reap \/ Tick
  BY <1>1, <1>5, ReadPaces, AllStoppedPaces, ReapPaces, TickPaces
<1>6. ASSUME NEW c \in Camera, Terminate(c) \/ Spawn(c) PROVE Paced'
  BY <1>1, <1>6, TerminatePaces, SpawnPaces
<1>7. ASSUME NEW c \in Camera, Stopped(c) \/ Kill(c) PROVE Paced'
  BY <1>1, <1>7, VictimGonePaces DEF Stopped, Kill, reconcileVars, workerVars
<1>8. ASSUME NEW c \in Camera,
             WorkerDies(c) \/ VehicleWaits(c) \/ VehicleSettled(c) \/ DrainedExit(c) \/ Toggle(c)
      PROVE Paced'
  BY <1>1, <1>8, SamePace DEF WorkerDies, VehicleWaits, VehicleSettled, DrainedExit, Toggle,
                              reconcileVars, workerVars, stopVars
<1>9. CASE VlmDies \/ Signal
  BY <1>1, <1>9, SamePace DEF VlmDies, Signal, reconcileVars, workerVars, stopVars
<1>10. CASE UNCHANGED vars
  BY <1>1, <1>10, SamePace DEF vars
<1> QED
  BY <1>2, <1>3, <1>4, <1>5, <1>6, <1>7, <1>8, <1>9, <1>10 DEF Next, Reconcile

(* A worker that exited is restarted no earlier than its backoff after its *)
(* start before, though the cycle that reaps it reads its clock before it  *)
(* waits for other workers to stop.                                        *)
THEOREM RestartsBackOffCorrect == Spec => RestartsBackOff
<1> DEFINE Served == \A c \in pending : live'[c] > live[c] => age[c] >= backoff[c]
<1>1. Init => Paced
  <2> SUFFICES ASSUME Init PROVE Paced
    OBVIOUS
  <2>1. Manned
    BY DEF Init, Manned, ProcessTypes, OneRole, OneProcess
  <2> QED
    BY <2>1, Bounds DEF Init, Paced, ClockTypes, LagIsBounded, StartedBefore, RipeIsDue, BackoffServed
<1>2. Paced /\ [Next]_vars => Paced'
  BY PacedStays
<1>3. Paced /\ [Next]_vars => [Served]_vars
  <2> SUFFICES ASSUME Paced, Next, NEW c \in pending, live'[c] > live[c]
               PROVE  age[c] >= backoff[c]
    OBVIOUS
  <2>1. live \in [Camera -> Nat] /\ c \in Camera
    BY DEF Paced, Manned, ProcessTypes
  <2>2. live' # live
    BY <2>1
  <2>3. PICK d \in Camera : Spawn(d) \/ Kill(d) \/ WorkerDies(d) \/ DrainedExit(d)
    BY <2>2 DEF Next, Reconcile, Wake, VlmRuns, VlmExited, VlmWaits, VlmStarted, VlmCannotStart,
           ReadDesired, AllStopped, Reap, CycleDone, StopVlm, Terminate, Stopped,
           SpawnFails, VehicleWaits, VehicleSettled, Toggle,
           VlmDies, Signal, Tick, workerVars
  <2>4. Spawn(d)
    BY <2>1, <2>3 DEF Kill, WorkerDies, DrainedExit
  <2>5. d = c
    BY <2>1, <2>4 DEF Spawn
  <2>6. timer[c] = 0
    BY <2>4, <2>5 DEF Spawn, ToStart, Paced, RipeIsDue
  <2> QED
    BY <2>1, <2>6 DEF Paced, BackoffServed, ClockTypes
<1> QED
  BY <1>1, <1>2, <1>3, PTL DEF Spec, RestartsBackOff
==============================================================================
