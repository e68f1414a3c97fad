------------------------------- MODULE CameraLoop -------------------------------
(***************************************************************************)
(* What the worker of one camera does with the vehicles its frames         *)
(* finalize (workers/camera_worker.py): the batch of a frame handled in    *)
(* order, validated and emitted at once (inline) or when the VLM has       *)
(* answered (deferred), de-duplicated by plate (events/dedupe.py), and the *)
(* shutdown that flushes what is left.  The VLM answers a camera's jobs    *)
(* one at a time, first come first served; a vehicle whose plate must be   *)
(* verified goes to the end of the line again.                             *)
(***************************************************************************)
EXTENDS Integers, Sequences, FiniteSets, FiniteSetsExt, Functions

CONSTANTS Plates, Modes, Declared, SameWindow, ReversalWindow, MaxEntries,
          MaxTime, MaxVehicles, MaxFaults

NoPlate == "unread"

ASSUME LoopAssumption ==
    /\ {SameWindow, ReversalWindow, MaxEntries, MaxTime, MaxVehicles, MaxFaults} \subseteq Nat
    /\ NoPlate \notin Plates

VARIABLES camera,    \* [mode, direction]: recognition_mode, camera.direction
          now,       \* wall clock, in ticks
          worker,    \* [phase, batch]: vehicles of the frame still to handle
          line,      \* deferred: vehicles that wait for the VLM
          recent,    \* EventDeduplicator._recent
          log,       \* history: what became of each vehicle
          faults     \* submissions that raised

loopVars == <<camera, now, worker, line, recent, log, faults>>

Min2(a, b) == IF a <= b THEN a ELSE b
Max2(a, b) == IF a >= b THEN a ELSE b

LoopInit ==
    /\ camera \in [mode : Modes, direction : Declared]
    /\ now = 0
    /\ worker = [phase |-> "running", batch |-> <<>>]
    /\ line = <<>>
    /\ recent = <<>>
    /\ log = <<>>
    /\ faults = 0

Handled == Len(log) + Len(worker.batch) + Len(line)

-----------------------------------------------------------------------------
Horizon == 2 * Max2(SameWindow, ReversalWindow)

(* _evict()                                                                *)
Kept(memory, at) == Restrict(memory, {p \in DOMAIN memory : at - memory[p].at <= Horizon})

(* record() on a full memory: the oldest goes; of several as old, the new  *)
(* plate stays.                                                            *)
Capped(memory, new) ==
    LET excess == Cardinality(DOMAIN memory) - MaxEntries
        before(p) == {q \in DOMAIN memory : \/ memory[q].at < memory[p].at
                                            \/ p = new /\ memory[q].at = memory[p].at}
    IN IF excess <= 0 THEN {memory}
       ELSE {Restrict(memory, DOMAIN memory \ old) :
               old \in {S \in SUBSET DOMAIN memory :
                          /\ Cardinality(S) = excess
                          /\ \A p \in S : before(p) \ {p} \subseteq S}}

(* Mutant: whatever is still remembered is a duplicate.                    *)
RememberedIsDuplicate(memory, v) == v.plate \in DOMAIN memory

(* is_duplicate()                                                          *)
IsDuplicate(memory, v) ==
    /\ v.plate \in DOMAIN memory
    /\ LET elapsed == v.wall - memory[v.plate].at
       IN IF memory[v.plate].direction = v.direction THEN elapsed < SameWindow
          ELSE elapsed < ReversalWindow

(* Mutant: a suppressed sighting is forgotten instead of renewing the window. *)
Forgotten(memory, v) == Restrict(memory, DOMAIN memory \ {v.plate})

Refreshed(memory, v) == [memory EXCEPT ![v.plate].at = v.wall]

(* check_and_record(): the memories it may leave, and whether the vehicle  *)
(* goes out.                                                               *)
Checked(v) ==
    LET memory == Kept(recent, v.wall)
        recorded == [p \in DOMAIN memory \cup {v.plate} |->
                        IF p = v.plate THEN [at |-> v.wall, direction |-> v.direction]
                        ELSE memory[p]]
    IN IF IsDuplicate(memory, v)
       THEN {[memory |-> Refreshed(memory, v), emit |-> FALSE]}
       ELSE {[memory |-> m, emit |-> TRUE] : m \in Capped(recorded, v.plate)}

(* _resolve_direction(): a track that crossed no line gets the camera's.   *)
Resolved(direction) ==
    IF direction # "none" THEN direction
    ELSE IF camera.direction \in {"in", "out"} THEN camera.direction ELSE "none"

(* What became of v; m is the memory it leaves, without the plates that    *)
(* record() forced out of it.                                              *)
Entry(v, outcome, m) ==
    [plate |-> v.plate, direction |-> v.direction, wall |-> v.wall, outcome |-> outcome,
     forced |-> IF outcome = "suppressed" THEN {}
                ELSE Plates \cap ((DOMAIN Kept(recent, v.wall) \cup {v.plate}) \ DOMAIN m)]

-----------------------------------------------------------------------------
(* What a track may be when it is final: a line crossed or not, a plate    *)
(* that the validator or the VLM settles, or none.                         *)
Sighted == [plate : Plates, direction : {"in", "none"}]
           \cup [plate : {NoPlate}, direction : {"in"}]

(* A frame is processed: its tracks may finalize some vehicles.            *)
ProcessFrame ==
    /\ worker.phase = "running"
    /\ worker.batch = <<>>
    /\ now < MaxTime
    /\ \E n \in 1 .. Min2(2, MaxVehicles - Handled) :
         \E vehicles \in [1 .. n -> Sighted] :
            worker' = [worker EXCEPT !.batch =
                         [i \in 1 .. n |-> [plate |-> vehicles[i].plate, wall |-> now,
                                            direction |-> Resolved(vehicles[i].direction)]]]
    /\ UNCHANGED <<camera, now, line, recent, log, faults>>

(* _finalize(): nothing the validator drops goes further; the vehicle is   *)
(* recorded before it is submitted.                                        *)
Finalized(v) ==
    \/ /\ v.plate = NoPlate
       /\ log' = Append(log, Entry(v, "dropped", recent))
       /\ UNCHANGED recent
    \/ /\ v.plate # NoPlate
       /\ \E c \in Checked(v) :
            /\ recent' = c.memory
            /\ log' = Append(log, Entry(v, IF c.emit THEN "emitted" ELSE "suppressed", c.memory))

HandleInline ==
    /\ camera.mode = "inline"
    /\ worker.phase \in {"running", "flushing"}
    /\ worker.batch # <<>>
    /\ Finalized(Head(worker.batch))
    /\ worker' = [worker EXCEPT !.batch = Tail(@)]
    /\ UNCHANGED <<camera, now, line, faults>>

(* The first of them has been recorded, the others were not reached.       *)
LogLost(vehicles, m) ==
    log \o [i \in DOMAIN vehicles |-> Entry(vehicles[i], "lost", IF i = 1 THEN m ELSE recent)]

(* The submission raises: in the loop it ends the loop, and with it the    *)
(* rest of the batch; in the flush of _shutdown() only this vehicle.       *)
HandleRaises ==
    /\ camera.mode = "inline"
    /\ worker.phase \in {"running", "flushing"}
    /\ worker.batch # <<>>
    /\ Head(worker.batch).plate # NoPlate
    /\ faults < MaxFaults
    /\ faults' = faults + 1
    /\ \E c \in Checked(Head(worker.batch)) :
        /\ c.emit
        /\ recent' = c.memory
        /\ IF worker.phase = "running"
           THEN /\ log' = LogLost(worker.batch, c.memory)
                /\ worker' = [phase |-> "stopping", batch |-> <<>>]
           ELSE /\ log' = LogLost(<<Head(worker.batch)>>, c.memory)
                /\ worker' = [worker EXCEPT !.batch = Tail(@)]
    /\ UNCHANGED <<camera, now, line>>

(* DeferredFinalizer.begin(): the vehicle waits for the VLM.               *)
BeginDeferred ==
    /\ camera.mode = "deferred"
    /\ worker.phase \in {"running", "flushing"}
    /\ worker.batch # <<>>
    /\ line' = Append(line, [vehicle |-> Head(worker.batch), verified |-> FALSE])
    /\ worker' = [worker EXCEPT !.batch = Tail(@)]
    /\ UNCHANGED <<camera, now, recent, log, faults>>

(* _emit_result(): a vehicle without a plate is not de-duplicated.         *)
Emitted(v) ==
    IF v.plate = NoPlate
    THEN /\ log' = Append(log, Entry(v, "emitted", recent))
         /\ UNCHANGED recent
    ELSE Finalized(v)

(* poll(): the oldest job is answered.                                     *)
Poll ==
    /\ worker.phase = "running"
    /\ worker.batch = <<>>
    /\ line # <<>>
    /\ line' = Tail(line)
    /\ Emitted(Head(line).vehicle)
    /\ UNCHANGED <<camera, now, worker, faults>>

PollUnsettled ==
    /\ worker.phase = "running"
    /\ worker.batch = <<>>
    /\ line # <<>>
    /\ ~Head(line).verified
    /\ Head(line).vehicle.plate # NoPlate
    /\ line' = Append(Tail(line), [Head(line) EXCEPT !.verified = TRUE])
    /\ UNCHANGED <<camera, now, worker, recent, log, faults>>

-----------------------------------------------------------------------------
(* SIGTERM: the loop ends when the frame in hand is done.                  *)
Stop ==
    /\ worker.phase = "running"
    /\ worker.batch = <<>>
    /\ worker' = [worker EXCEPT !.phase = "stopping"]
    /\ UNCHANGED <<camera, now, line, recent, log, faults>>

(* _shutdown(): the open tracks are finalized first.                       *)
Flush ==
    /\ worker.phase = "stopping"
    /\ \E n \in 0 .. Min2(1, MaxVehicles - Handled), s \in Sighted :
        worker' = [phase |-> "flushing",
                   batch |-> [i \in 1 .. n |-> [plate |-> s.plate, wall |-> now,
                                                direction |-> Resolved(s.direction)]]]
    /\ UNCHANGED <<camera, now, line, recent, log, faults>>

(* drain(): what the VLM has not answered in time goes out without plate.  *)
Close ==
    /\ worker.phase = "flushing"
    /\ worker.batch = <<>>
    /\ line' = <<>>
    /\ log' = log \o [i \in DOMAIN line |->
                        Entry([line[i].vehicle EXCEPT !.plate = NoPlate], "emitted", recent)]
    /\ worker' = [worker EXCEPT !.phase = "ended"]
    /\ UNCHANGED <<camera, now, recent, faults>>

Tick ==
    /\ now < MaxTime
    /\ worker.phase # "ended"
    /\ now' = now + 1
    /\ UNCHANGED <<camera, worker, line, recent, log, faults>>

LoopNext ==
    \/ ProcessFrame \/ HandleInline \/ HandleRaises \/ BeginDeferred
    \/ Poll \/ PollUnsettled \/ Stop \/ Flush \/ Close \/ Tick

LoopSpec == LoopInit /\ [][LoopNext]_loopVars

-----------------------------------------------------------------------------
Emissions(p) == {i \in DOMAIN log : log[i].plate = p /\ log[i].outcome = "emitted"}

(* Since l the plate was pushed out of a full memory, or it was too old    *)
(* for a vehicle handled before j (whose turn came late in deferred mode). *)
Evicted(p, l, j) == \E k \in l .. j - 1 : p \in log[k].forced
Outdated(l, j) ==
    \E k \in l + 1 .. j - 1 : log[k].plate \in Plates /\ log[k].wall - log[l].wall > Horizon

(* Before j, the plate last went out as i and was last handled as l.       *)
LastSeen(p, i, l, j) ==
    /\ \A k \in i + 1 .. j - 1 : log[k].plate # p \/ log[k].outcome = "suppressed"
    /\ log[l].plate = p
    /\ \A k \in l + 1 .. j - 1 : log[k].plate # p

(* Re-detection and bounce, inline and deferred: a plate goes out again    *)
(* only when it was last handled a window before, the window of its own    *)
(* direction if it goes the way of its last event and that of a reversal   *)
(* if not; or when it was forgotten in between.                            *)
OneEventPerArrival ==
    \A p \in Plates : \A i, j \in Emissions(p) : \A l \in i .. j - 1 :
        LastSeen(p, i, l, j)
        => \/ Evicted(p, l, j)
           \/ Outdated(l, j)
           \/ log[j].wall - log[l].wall
                >= IF log[i].direction = log[j].direction THEN SameWindow ELSE ReversalWindow

(* No arrival is hidden by chance: what is suppressed, in either mode,     *)
(* comes after a vehicle of the same plate that was seen less than a       *)
(* window before it (or after it, when the VLM answered out of order).     *)
NothingHidden ==
    \A j \in DOMAIN log :
        log[j].outcome = "suppressed"
        => \E i \in 1 .. j - 1 :
             /\ log[i].plate = log[j].plate
             /\ log[j].wall - log[i].wall < Max2(SameWindow, ReversalWindow)

(* DedupeConfig: "Same plate, same camera, same direction inside this      *)
(* window is the same arrival."                                            *)
SameArrivalOnce ==
    \A i, j \in DOMAIN log :
        /\ i < j
        /\ log[i].outcome = "emitted" /\ log[j].outcome = "emitted"
        /\ log[i].plate = log[j].plate /\ log[i].plate # NoPlate
        /\ log[i].direction = log[j].direction
        => log[j].wall - log[i].wall >= SameWindow
===============================================================================
