----------------------------- MODULE Supervisor ------------------------------
(***************************************************************************)
(* backend/app/workers/supervisor.py: the supervisor process, the camera   *)
(* workers and the VLM service it runs, and the camera table.              *)
(*                                                                         *)
(* One reconcile is a sequence of steps (ensure the VLM service, read the  *)
(* desired cameras, stop, reap, start) between which workers die, cameras  *)
(* are enabled and disabled and, while a worker is being stopped, time     *)
(* passes.  Clocks are timers that count ticks up to the largest value the *)
(* code compares them with.                                                *)
(***************************************************************************)
EXTENDS Naturals, FiniteSets

CONSTANTS Camera,
          StopTimeout,    \* _stop_worker's timeout
          ShutdownWait,   \* VlmConfig.shutdown_wait_s
          Interval,       \* reconcile_interval
          MinBackoff, MaxBackoff,
          StableUptime,   \* the 120 s after which a failure is a fresh one
          Service,        \* "off" when vlm_threads = 0; "broken" when the
                          \* service's interpreter cannot be executed
          MaxFaults       \* bound: times that Popen or the camera query raises

ASSUME TimesAssumption ==
  /\ StopTimeout \in Nat \ {0} /\ ShutdownWait \in Nat
  /\ MinBackoff \in Nat \ {0} /\ MaxBackoff \in Nat /\ MinBackoff <= MaxBackoff
  /\ StableUptime \in Nat /\ Service \in {"off", "works", "broken"} /\ MaxFaults \in Nat
  /\ Interval \in Nat \ {0} /\ IsFiniteSet(Camera)

VARIABLES
  pc,         \* where the supervisor is: asleep, in a reconcile, stopping
  nap,        \* time left to sleep
  stop,       \* Supervisor._stop
  enabled,    \* database: the active cameras
  desired,    \* what desired_camera_ids returned
  known,      \* Supervisor._workers
  live,       \* number of live processes of each camera
  age,        \* time since a known or pending camera's process was started
  pending,    \* Supervisor._pending
  timer,      \* time until the pending restart
  backoff,    \* Supervisor._backoff
  ripe,       \* restarts that were due when the reconcile read its clock
  lag,        \* time since the reconcile read its clock
  victim,     \* the worker being stopped, if any
  patience,   \* time left for it before it is killed
  owes,       \* cameras whose worker has vehicles waiting for the VLM
  grace,      \* time left for a terminated worker to drain
  lost,       \* cameras whose worker was killed while it had such vehicles
  vlm,        \* the service process: "none", "running", "exited"
  vlmAge, vlmTimer, vlmBackoff,
  faults

reconcileVars == <<pc, nap, stop, desired, ripe, lag>>
workerVars == <<known, live, age, pending, timer, backoff>>
stopVars == <<victim, patience, grace>>
vlmVars == <<vlm, vlmAge, vlmTimer, vlmBackoff>>
vars == <<pc, nap, stop, enabled, desired, known, live, age, pending, timer, backoff,
          ripe, lag, victim, patience, owes, grace, lost,
          vlm, vlmAge, vlmTimer, vlmBackoff, faults>>

Capped(n, bound) == IF n < bound THEN n ELSE bound
Less(m, n) == IF m > n THEN m - n ELSE 0
Doubled(b) == Capped(2 * b, MaxBackoff)

(* The longest that a cycle can be held up: it stops every worker.          *)
MaxLag == Cardinality(Camera) * StopTimeout

(* The largest age that matters: an uptime, with its clock read a lag ago,  *)
(* is compared with StableUptime, and a backoff is counted from a start.    *)
Oldest == MaxLag + (IF StableUptime < MaxBackoff THEN MaxBackoff ELSE StableUptime + 1)

-----------------------------------------------------------------------------
(* Reconcile *)

(* The end of a cycle, in whatever way; desired, ripe and lag were local.   *)
CycleOver ==
  /\ pc' = "sleep" /\ nap' = Interval
  /\ desired' = {} /\ ripe' = {} /\ lag' = 0

Wake ==
  /\ pc = "sleep" /\ nap = 0
  /\ pc' = IF stop THEN "shutdown" ELSE "vlm"
  /\ UNCHANGED <<nap, stop, enabled, desired, ripe, lag, workerVars, stopVars, owes, lost, vlmVars, faults>>

(* _ensure_vlm *)
VlmRuns ==
  /\ pc = "vlm" /\ (vlm = "running" \/ Service = "off")
  /\ pc' = "read"
  /\ UNCHANGED <<nap, stop, enabled, desired, ripe, lag, workerVars, stopVars, owes, lost, vlmVars, faults>>

(* Mutant: the handle of a service that exited is kept. *)
VlmExitedKept ==
  /\ pc = "vlm" /\ vlm = "exited"
  /\ vlmBackoff' = IF vlmAge > StableUptime THEN MinBackoff ELSE Doubled(vlmBackoff)
  /\ vlmTimer' = vlmBackoff'
  /\ pc' = "read"
  /\ UNCHANGED <<nap, stop, enabled, desired, ripe, lag, workerVars, stopVars, owes, lost, vlm, vlmAge, faults>>

(* The service exited: it is started again after its backoff. *)
VlmExited ==
  /\ pc = "vlm" /\ vlm = "exited"
  /\ vlm' = "none" /\ vlmAge' = 0
  /\ vlmBackoff' = IF vlmAge > StableUptime THEN MinBackoff ELSE Doubled(vlmBackoff)
  /\ vlmTimer' = vlmBackoff'
  /\ pc' = "read"
  /\ UNCHANGED <<nap, stop, enabled, desired, ripe, lag, workerVars, stopVars, owes, lost, faults>>

VlmWaits ==
  /\ pc = "vlm" /\ vlm = "none" /\ vlmTimer > 0 /\ Service # "off"
  /\ pc' = "read"
  /\ UNCHANGED <<nap, stop, enabled, desired, ripe, lag, workerVars, stopVars, owes, lost, vlmVars, faults>>

VlmStarted ==
  /\ pc = "vlm" /\ vlm = "none" /\ vlmTimer = 0
  /\ Service = "works"
  /\ vlm' = "running" /\ vlmAge' = 0
  /\ pc' = "read"
  /\ UNCHANGED <<nap, stop, enabled, desired, ripe, lag, workerVars, stopVars, owes, lost,
                 vlmTimer, vlmBackoff, faults>>

(* Popen raises: run() catches it and the rest of the reconcile is skipped. *)
VlmCannotStart ==
  /\ pc = "vlm" /\ vlm = "none" /\ vlmTimer = 0
  /\ \/ Service = "broken" /\ UNCHANGED faults
     \/ Service = "works" /\ faults < MaxFaults /\ faults' = faults + 1
  /\ CycleOver
  /\ UNCHANGED <<stop, enabled, workerVars, stopVars, owes, lost, vlmVars>>

(* desired_camera_ids, and the one reading of the clock for this cycle; a   *)
(* failing query keeps the present workers.                                 *)
ReadDesired ==
  /\ pc = "read"
  /\ \/ desired' = enabled /\ UNCHANGED faults
     \/ desired' = known \union pending /\ faults < MaxFaults /\ faults' = faults + 1
  /\ ripe' = {c \in pending : timer[c] = 0}
  /\ lag' = 0
  /\ pc' = "stop"
  /\ UNCHANGED <<nap, stop, enabled, workerVars, stopVars, owes, lost, vlmVars>>

(* _stop_worker, up to its wait: popped and sent SIGTERM. *)
Terminate(c) ==
  /\ victim = {}
  /\ \/ pc = "stop" /\ c \in known \ desired
     \/ pc = "shutdown" /\ c \in known
  /\ known' = known \ {c}
  /\ pending' = pending \ {c}
  /\ victim' = {c}
  /\ patience' = StopTimeout
  /\ grace' = ShutdownWait
  /\ age' = [age EXCEPT ![c] = 0]
  /\ UNCHANGED <<reconcileVars, enabled, live, timer, backoff, owes, lost, vlmVars, faults>>

Stopped(c) ==
  /\ c \in victim /\ live[c] = 0
  /\ victim' = {}
  /\ patience' = 0 /\ grace' = 0
  /\ UNCHANGED <<reconcileVars, enabled, workerVars, owes, lost, vlmVars, faults>>

(* Mutant: after the timeout the worker is left to itself. *)
LeaveAlone(c) ==
  /\ c \in victim /\ patience = 0 /\ live[c] > 0
  /\ victim' = {}
  /\ patience' = 0 /\ grace' = 0
  /\ UNCHANGED <<reconcileVars, enabled, workerVars, owes, lost, vlmVars, faults>>

(* The wait times out: SIGKILL. *)
Kill(c) ==
  /\ c \in victim /\ patience = 0 /\ live[c] > 0
  /\ live' = [live EXCEPT ![c] = @ - 1]
  /\ lost' = lost \union (owes \intersect {c})
  /\ owes' = owes \ {c}
  /\ victim' = {}
  /\ patience' = 0 /\ grace' = 0
  /\ UNCHANGED <<reconcileVars, enabled, known, age, pending, timer, backoff, vlmVars, faults>>

AllStopped ==
  /\ pc = "stop" /\ victim = {} /\ known \subseteq desired
  /\ pending' = pending \intersect desired
  /\ age' = [c \in Camera |-> IF c \in desired THEN age[c] ELSE 0]
  /\ timer' = [c \in Camera |-> IF c \in desired THEN timer[c] ELSE 0]
  /\ pc' = "reap"
  /\ UNCHANGED <<nap, stop, enabled, desired, ripe, lag, known, live, backoff, stopVars, owes, lost, vlmVars,
                 faults>>

Uptime(c) == Less(age[c], lag)

(* Mutant: an exited worker may be started again at once. *)
ReapNow ==
  /\ pc = "reap"
  /\ LET dead == {c \in known : live[c] = 0}
     IN /\ known' = known \ dead
        /\ pending' = pending \union dead
        /\ backoff' = [c \in Camera |->
             CASE c \notin dead -> backoff[c]
               [] c \in dead /\ Uptime(c) > StableUptime -> MinBackoff
               [] OTHER -> Doubled(backoff[c])]
        /\ timer' = [c \in Camera |-> IF c \in dead THEN 0 ELSE timer[c]]
  /\ pc' = "start"
  /\ UNCHANGED <<nap, stop, enabled, desired, ripe, lag, live, age, stopVars, owes, lost, vlmVars, faults>>

(* The workers that exited are scheduled for a restart.  The restart time   *)
(* is counted from the clock reading at the start of the cycle.             *)
Reap ==
  /\ pc = "reap"
  /\ LET dead == {c \in known : live[c] = 0}
     IN /\ known' = known \ dead
        /\ pending' = pending \union dead
        /\ backoff' = [c \in Camera |->
             CASE c \notin dead -> backoff[c]
               [] c \in dead /\ Uptime(c) > StableUptime -> MinBackoff
               [] OTHER -> Doubled(backoff[c])]
        /\ timer' = [c \in Camera |-> IF c \in dead THEN Less(backoff'[c], lag) ELSE timer[c]]
  /\ pc' = "start"
  /\ UNCHANGED <<nap, stop, enabled, desired, ripe, lag, live, age, stopVars, owes, lost, vlmVars, faults>>

(* Mutant: the restarts that are due are left out. *)
ToStartFresh == desired \ (known \union pending)

(* What is desired and neither runs nor waits, and the restarts that were   *)
(* due when the cycle read its clock.                                       *)
ToStart == (desired \ (known \union pending)) \union (pending \intersect ripe)

Spawn(c) ==
  /\ pc = "start" /\ c \in ToStart
  /\ pending' = pending \ {c}
  /\ known' = known \union {c}
  /\ live' = [live EXCEPT ![c] = @ + 1]
  /\ age' = [age EXCEPT ![c] = 0]
  /\ UNCHANGED <<reconcileVars, enabled, timer, backoff, stopVars, owes, lost, vlmVars, faults>>

(* Popen raises: the cycle ends; the camera is neither known nor pending.   *)
SpawnFails(c) ==
  /\ pc = "start" /\ c \in ToStart
  /\ faults < MaxFaults
  /\ faults' = faults + 1
  /\ pending' = pending \ {c}
  /\ CycleOver
  /\ UNCHANGED <<stop, enabled, known, live, age, timer, backoff, stopVars, owes, lost, vlmVars>>

CycleDone ==
  /\ pc = "start" /\ ToStart = {}
  /\ CycleOver
  /\ UNCHANGED <<stop, enabled, workerVars, stopVars, owes, lost, vlmVars, faults>>

(* Mutant: the service is stopped before the workers. *)
StopVlmFirst ==
  /\ pc = "shutdown"
  /\ vlm' = "none"
  /\ pc' = IF known = {} /\ victim = {} THEN "done" ELSE pc
  /\ UNCHANGED <<nap, stop, enabled, desired, ripe, lag, workerVars, stopVars, owes, lost, vlmAge, vlmTimer, vlmBackoff,
                 faults>>

(* The service is stopped last. *)
StopVlm ==
  /\ pc = "shutdown" /\ known = {} /\ victim = {}
  /\ vlm' = "none"
  /\ pc' = "done"
  /\ UNCHANGED <<nap, stop, enabled, desired, ripe, lag, workerVars, stopVars, owes, lost, vlmAge, vlmTimer, vlmBackoff,
                 faults>>

-----------------------------------------------------------------------------
(* The other processes *)

WorkerDies(c) ==
  /\ live[c] > 0 /\ c \notin victim
  /\ live' = [live EXCEPT ![c] = @ - 1]
  /\ owes' = owes \ {c}
  /\ UNCHANGED <<reconcileVars, enabled, known, age, pending, timer, backoff, stopVars, lost, vlmVars, faults>>

(* A vehicle is handed to the VLM, or the last one that waits is settled.   *)
VehicleWaits(c) ==
  /\ live[c] > 0 /\ c \notin victim /\ c \notin owes
  /\ owes' = owes \union {c}
  /\ UNCHANGED <<reconcileVars, enabled, workerVars, stopVars, lost, vlmVars, faults>>

VehicleSettled(c) ==
  /\ c \in owes
  /\ owes' = owes \ {c}
  /\ UNCHANGED <<reconcileVars, enabled, workerVars, stopVars, lost, vlmVars, faults>>

(* A terminated worker exits when nothing waits any more or when its drain  *)
(* gives up; either way every vehicle has its event.                        *)
DrainedExit(c) ==
  /\ c \in victim /\ live[c] > 0
  /\ c \notin owes \/ grace = 0
  /\ live' = [live EXCEPT ![c] = @ - 1]
  /\ owes' = owes \ {c}
  /\ UNCHANGED <<reconcileVars, enabled, known, age, pending, timer, backoff, stopVars, lost, vlmVars, faults>>

VlmDies ==
  /\ vlm = "running"
  /\ vlm' = "exited"
  /\ UNCHANGED <<reconcileVars, enabled, workerVars, stopVars, owes, lost, vlmAge, vlmTimer, vlmBackoff, faults>>

Toggle(c) ==
  /\ pc # "done"
  /\ enabled' = IF c \in enabled THEN enabled \ {c} ELSE enabled \union {c}
  /\ UNCHANGED <<reconcileVars, workerVars, stopVars, owes, lost, vlmVars, faults>>

Signal ==
  /\ ~stop
  /\ stop' = TRUE
  /\ UNCHANGED <<pc, nap, enabled, desired, ripe, lag, workerVars, stopVars, owes, lost, vlmVars, faults>>

(* Time passes while the supervisor sleeps or waits for a victim; a victim  *)
(* whose drain is over exits without waiting any longer.                    *)
Tick ==
  /\ \/ pc = "sleep"
     \/ /\ patience > 0
        /\ \A c \in victim : live[c] > 0 /\ c \in owes /\ grace > 0
  /\ nap' = Less(nap, 1)
  /\ age' = [c \in Camera |-> IF c \in known \union pending
                              THEN Capped(age[c] + 1, Oldest)
                              ELSE age[c]]
  /\ timer' = [c \in Camera |-> Less(timer[c], 1)]
  /\ lag' = IF pc = "sleep" THEN 0 ELSE lag + 1
  /\ patience' = Less(patience, 1)
  /\ grace' = Less(grace, 1)
  /\ vlmAge' = IF vlm = "none" THEN 0 ELSE Capped(vlmAge + 1, StableUptime + 1)
  /\ vlmTimer' = Less(vlmTimer, 1)
  /\ UNCHANGED <<pc, stop, enabled, desired, ripe, known, live, pending, backoff, victim, owes, lost,
                 vlm, vlmBackoff, faults>>

-----------------------------------------------------------------------------
Init ==
  /\ pc = "sleep" /\ nap = 0 /\ stop = FALSE
  /\ enabled \in SUBSET Camera
  /\ desired = {} /\ known = {} /\ pending = {} /\ ripe = {} /\ lag = 0
  /\ live = [c \in Camera |-> 0]
  /\ age = [c \in Camera |-> 0]
  /\ timer = [c \in Camera |-> 0]
  /\ backoff = [c \in Camera |-> MinBackoff]
  /\ victim = {} /\ patience = 0 /\ grace = 0 /\ owes = {} /\ lost = {}
  /\ vlm = "none" /\ vlmAge = 0 /\ vlmTimer = 0 /\ vlmBackoff = MinBackoff
  /\ faults = 0

Reconcile ==
  \/ Wake
  \/ VlmRuns \/ VlmExited \/ VlmWaits \/ VlmStarted \/ VlmCannotStart
  \/ ReadDesired \/ AllStopped \/ Reap \/ CycleDone \/ StopVlm
  \/ \E c \in Camera : \/ Terminate(c) \/ Stopped(c) \/ Kill(c)
                       \/ Spawn(c)

Next ==
  \/ Reconcile
  \/ \E c \in Camera : \/ SpawnFails(c)
                       \/ WorkerDies(c) \/ VehicleWaits(c) \/ VehicleSettled(c)
                       \/ DrainedExit(c) \/ Toggle(c)
  \/ VlmDies \/ Signal \/ Tick

Spec == Init /\ [][Next]_vars

(* The supervisor runs, time passes, and a terminated worker whose drain is *)
(* over exits.  Nothing is assumed of the operator or of the failures.      *)
Fairness ==
  /\ WF_vars(Reconcile)
  /\ WF_vars(Tick)
  /\ \A c \in Camera : WF_vars(DrainedExit(c))

FairSpec == Spec /\ Fairness

-----------------------------------------------------------------------------
(* Properties *)

TypeOK ==
  /\ pc \in {"sleep", "vlm", "read", "stop", "reap", "start", "shutdown", "done"}
  /\ nap \in 0..Interval /\ stop \in BOOLEAN
  /\ enabled \in SUBSET Camera /\ desired \in SUBSET Camera
  /\ known \in SUBSET Camera /\ pending \in SUBSET Camera /\ known \intersect pending = {}
  /\ live \in [Camera -> Nat]
  /\ age \in [Camera -> 0..Oldest]
  /\ timer \in [Camera -> 0..MaxBackoff] /\ backoff \in [Camera -> MinBackoff..MaxBackoff]
  /\ ripe \in SUBSET Camera /\ lag \in 0..MaxLag
  /\ victim \in SUBSET Camera /\ Cardinality(victim) <= 1
  /\ patience \in 0..StopTimeout /\ grace \in 0..ShutdownWait
  /\ owes \in SUBSET Camera /\ lost \in SUBSET Camera
  /\ vlm \in {"none", "running", "exited"}
  /\ vlmAge \in 0..(StableUptime + 1)
  /\ vlmTimer \in 0..MaxBackoff /\ vlmBackoff \in MinBackoff..MaxBackoff
  /\ faults \in 0..MaxFaults

(* A camera never has two processes at once, through restarts, failed       *)
(* starts and reconfigurations, and no process is left that the supervisor  *)
(* does not know of (it would hold the camera and never be stopped).        *)
OneProcess ==
  \A c \in Camera : live[c] <= 1 /\ (live[c] = 1 => c \in known \union victim)

(* The supervisor stops the service only when no worker is left to drain.   *)
ServiceOutlivesWorkers ==
  [][(vlm = "running" /\ vlm' = "none") => \A c \in Camera : live[c] = 0]_vars

(* A worker that exited is restarted no earlier than its backoff after the  *)
(* start before, however long stopping other workers holds up a cycle.      *)
RestartsBackOff ==
  [][\A c \in pending : live'[c] > live[c] => age[c] >= backoff[c]]_vars

(* No worker is killed while vehicles of its camera wait for their event.   *)
NoneLostOnStop == lost = {}

(* The processes follow the table: an enabled camera is watched again and   *)
(* again, whatever dies, and one that stays disabled is not in the end.     *)
CamerasFollowed ==
  \A c \in Camera :
    /\ <>[](c \in enabled /\ ~stop) => []<>(live[c] > 0)
    /\ <>[](c \notin enabled) => <>[](live[c] = 0)

(* A service that died is started again.                                    *)
ServiceComesBack == (Service = "works" /\ <>[]~stop) => []<>(vlm = "running")
==============================================================================
