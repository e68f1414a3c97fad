----------------------------- MODULE LegacyCameras -----------------------------
(***************************************************************************)
(* The camera workers that run inside the web application                  *)
(* (services/camera_manager.py): the registry of workers, which request    *)
(* handlers of routers/cameras.py change while others do the same, and     *)
(* the two threads of a worker.  Each handler commits its own transaction  *)
(* and then stops and starts workers; only the registry is locked.         *)
(***************************************************************************)
EXTENDS Integers, Sequences, FiniteSets, Functions

CONSTANTS Cameras,       \* bound: camera ids, handed out in order
          Handlers,      \* request threads
          MaxWorkers     \* bound: workers ever made

ASSUME LegacyAssumption == Cameras \in Nat /\ MaxWorkers \in Nat

VARIABLES server,        \* "booting", "serving" or "down"
          rows,          \* cameras table: id -> [active, url]
          lastRow,       \* the id the last row was given
          registry,      \* _workers: camera -> worker
          workers,       \* worker -> [camera, stop, capture, inference, online]
          handler        \* request thread -> [phase, ...]

legacyVars == <<server, rows, lastRow, registry, workers, handler>>

(* Whether the camera is enabled, and whether it has a stream URL.         *)
CameraRow == [active : BOOLEAN, url : BOOLEAN]

Free == [phase |-> "free"]

LegacyInit ==
    /\ server = "booting"
    /\ lastRow \in 0 .. Cameras
    /\ rows \in [1 .. lastRow -> CameraRow]
    /\ registry = <<>>
    /\ workers = <<>>
    /\ handler = [h \in Handlers |-> Free]

-----------------------------------------------------------------------------
(* CameraWorker.__init__ and start(): both threads begin.                  *)
NewWorker(c) ==
    [camera |-> c, stop |-> FALSE, capture |-> "begun", inference |-> "waiting",
     online |-> FALSE]

Signalled(W, w) == [W EXCEPT ![w].stop = TRUE]

Registered(c) == c \in DOMAIN registry

(* start_all_cameras(): the enabled cameras, in the table's order, up to   *)
(* one whose worker cannot be made (the models do not load).               *)
Boot ==
    /\ server = "booting"
    /\ server' = "serving"
    /\ \E upTo \in 0 .. lastRow :
         LET enabled == {c \in 1 .. upTo : rows[c].active /\ rows[c].url} IN
         \E wanted \in Bijection(1 .. Cardinality(enabled), enabled) :
            /\ \A v, w \in DOMAIN wanted : v < w => wanted[v] < wanted[w]
            /\ workers' = [w \in DOMAIN wanted |-> NewWorker(wanted[w])]
            /\ registry' = AntiFunction(wanted)
    /\ UNCHANGED <<rows, lastRow, handler>>

(* stop_all_cameras(), when the last request has been answered.            *)
Shutdown ==
    /\ server = "serving"
    /\ \A h \in Handlers : handler[h] = Free
    /\ server' = "down"
    /\ workers' = [w \in DOMAIN workers |->
                     IF w \in Range(registry) THEN [workers[w] EXCEPT !.stop = TRUE]
                     ELSE workers[w]]
    /\ registry' = <<>>
    /\ UNCHANGED <<rows, lastRow, handler>>

-----------------------------------------------------------------------------
Accepts(h) ==
    /\ server = "serving"
    /\ handler[h] = Free

(* create_camera(): the row is committed, then the worker started, whether *)
(* the camera is enabled or not.                                           *)
Create(h) ==
    /\ Accepts(h)
    /\ lastRow < Cameras
    /\ lastRow' = lastRow + 1
    /\ \E row \in CameraRow :
        /\ rows' = [c \in DOMAIN rows \cup {lastRow'} |-> IF c = lastRow' THEN row ELSE rows[c]]
        /\ handler' = [handler EXCEPT ![h] = [phase |-> "start", camera |-> lastRow', row |-> row]]
    /\ UNCHANGED <<server, registry, workers>>

(* update_camera(), up to its commit: the URL, the flag, or both.          *)
Update(h) ==
    /\ Accepts(h)
    /\ \E c \in DOMAIN rows, row \in CameraRow :
        /\ rows' = [rows EXCEPT ![c] = row]
        /\ handler' = [handler EXCEPT ![h] = [phase |-> "refresh", camera |-> c]]
    /\ UNCHANGED <<server, lastRow, registry, workers>>

(* db.refresh(): the row as it is now; the request fails if it is gone.    *)
Refresh(h) ==
    /\ handler[h].phase = "refresh"
    /\ LET c == handler[h].camera IN
       handler' = [handler EXCEPT ![h] =
                     IF c \in DOMAIN rows
                     THEN [phase |-> "pop", camera |-> c, row |-> rows[c],
                           then |-> IF rows[c].active THEN "start" ELSE "free"]
                     ELSE Free]
    /\ UNCHANGED <<server, rows, lastRow, registry, workers>>

(* delete_camera(): the worker is stopped first.                           *)
Delete(h) ==
    /\ Accepts(h)
    /\ \E c \in DOMAIN rows :
        handler' = [handler EXCEPT ![h] = [phase |-> "pop", camera |-> c, row |-> rows[c],
                                           then |-> "delete"]]
    /\ UNCHANGED <<server, rows, lastRow, registry, workers>>

CommitDelete(h) ==
    /\ handler[h].phase = "delete"
    /\ rows' = Restrict(rows, DOMAIN rows \ {handler[h].camera})
    /\ handler' = [handler EXCEPT ![h] = Free]
    /\ UNCHANGED <<server, lastRow, registry, workers>>

Continued(q) ==
    IF q.then = "free" THEN Free
    ELSE [phase |-> q.then, camera |-> q.camera, row |-> q.row]

(* stop_camera(): popped under the lock ...                                *)
Pop(h) ==
    /\ handler[h].phase = "pop"
    /\ LET q == handler[h] IN
       /\ registry' = Restrict(registry, DOMAIN registry \ {q.camera})
       /\ handler' = [handler EXCEPT ![h] =
                        IF Registered(q.camera)
                        THEN [phase |-> "signal", camera |-> q.camera, row |-> q.row,
                              then |-> q.then, worker |-> registry[q.camera]]
                        ELSE Continued(q)]
    /\ UNCHANGED <<server, rows, lastRow, workers>>

(* ... and told to stop outside it.                                        *)
Signal(h) ==
    /\ handler[h].phase = "signal"
    /\ workers' = Signalled(workers, handler[h].worker)
    /\ handler' = [handler EXCEPT ![h] = Continued(handler[h])]
    /\ UNCHANGED <<server, rows, lastRow, registry>>

(* Mutant: a worker that is already there is replaced, not stopped.        *)
Replaced(c) == workers

Relieved(c) == IF Registered(c) THEN Signalled(workers, registry[c]) ELSE workers

(* start_camera(), under the lock.                                         *)
Start(h) ==
    /\ handler[h].phase = "start"
    /\ handler[h].row.url
    /\ Len(workers) < MaxWorkers
    /\ LET c == handler[h].camera IN
       /\ workers' = Append(Relieved(c), NewWorker(c))
       /\ registry' = [d \in DOMAIN registry \cup {c} |->
                        IF d = c THEN Len(workers') ELSE registry[d]]
    /\ handler' = [handler EXCEPT ![h] = Free]
    /\ UNCHANGED <<server, rows, lastRow>>

NotStarted(h) ==
    /\ handler[h].phase = "start"
    /\ ~handler[h].row.url
    /\ handler' = [handler EXCEPT ![h] = Free]
    /\ UNCHANGED <<server, rows, lastRow, registry, workers>>

(* The worker cannot be made: the one it relieves stays in the registry.   *)
StartRaises(h) ==
    /\ handler[h].phase = "start"
    /\ handler[h].row.url
    /\ workers' = Relieved(handler[h].camera)
    /\ handler' = [handler EXCEPT ![h] = Free]
    /\ UNCHANGED <<server, rows, lastRow, registry>>

Request ==
    \E h \in Handlers :
        \/ Create(h) \/ Update(h) \/ Refresh(h) \/ Delete(h) \/ CommitDelete(h)
        \/ Pop(h) \/ Signal(h) \/ Start(h) \/ NotStarted(h) \/ StartRaises(h)

-----------------------------------------------------------------------------
(* _capture_loop(): its first statement names a module that is not         *)
(* imported, so the thread ends before it opens the stream.                *)
Capture ==
    \E w \in DOMAIN workers :
        /\ workers[w].capture = "begun"
        /\ workers' = [workers EXCEPT ![w].capture = "raised"]
        /\ UNCHANGED <<server, rows, lastRow, registry, handler>>

(* _inference_loop(): waits for a first frame until it is told to stop.    *)
Inference ==
    \E w \in DOMAIN workers :
        /\ workers[w].inference = "waiting"
        /\ workers[w].stop
        /\ workers' = [workers EXCEPT ![w].inference = "ended"]
        /\ UNCHANGED <<server, rows, lastRow, registry, handler>>

LegacyNext == Boot \/ Shutdown \/ Request \/ Capture \/ Inference

(* The threads go on.                                                      *)
LegacySpec ==
    /\ LegacyInit
    /\ [][LegacyNext]_legacyVars
    /\ WF_legacyVars(Capture)
    /\ WF_legacyVars(Inference)

-----------------------------------------------------------------------------
(* is_camera_online()                                                      *)
Online(c) == Registered(c) /\ workers[registry[c]].online

(* However requests for one camera interleave, each camera is filmed once: *)
(* a worker that has not been told to stop is the registered one, or a     *)
(* handler that has taken it out of the registry is about to tell it.      *)
NoStrayWorker ==
    \A w \in DOMAIN workers :
        \/ workers[w].stop
        \/ Registered(workers[w].camera) /\ registry[workers[w].camera] = w
        \/ \E h \in Handlers : handler[h].phase = "signal" /\ handler[h].worker = w

(* The lifespan of main.py starts the workers because otherwise "a restart *)
(* leaves every camera dead until someone re-saves it": a camera that has  *)
(* a worker, and keeps it, comes online.                                   *)
CameraComesOnline ==
    \A c \in 1 .. Cameras :
        Registered(c) ~> (Online(c) \/ ~Registered(c))
===============================================================================
