# A formal model of the ANPR gate system

TLA+ modules, TLC configurations and TLAPS proofs about the system in `src/`: camera workers that
watch RTSP streams, track vehicles, read their number plates (inline, or deferred to a shared
vision-language model) and report one event per vehicle to an API that matches it with a registry and
raises alerts, all under a supervisor.  Paths below are relative to `src/backend/app/` unless they
start with `src/`.

## 1. The system

```
 RTSP ──> RtspReader ──slot──> CameraWorker.run ──> FrameProcessor ──> ByteTracker
                                    │    │              └─> OCR scheduling, track state
                     inline: validate    │  deferred: begin, poll, drain
                                    │    ▼
                                    │  DeferredFinalizer ──submit/poll──> SocketVlmClient ══socket══> VlmServer
                                    │    │ on_result                        (I/O thread)     (handler threads,
                                    ▼    ▼                                                    inference thread)
                            dedupe ──> IngestClient ──HTTP──> /internal/events ──> EventProcessor
                                       │ failed                                      │  media, match, alerts
                                       ▼                                             ▼
                                  EventSpool (disk)                               database <── corrections

 Supervisor ──Popen/SIGTERM──> workers, VLM service        web application ──> camera manager (own threads)
```

| component | state it keeps | operations | talks to |
|---|---|---|---|
| RTSP reader (`video/rtsp_reader.py`) | a slot of one frame with its number, connection, backoff | `_run`, `_publish`, `latest_with_timestamp`, `stop` | the stream; the worker, through the slot |
| vehicle tracker (`ai/vehicle_tracker/bytetrack.py`) | tracks: hits, misses, confirmed or not; retired ids | `update`, `removed_track_ids` | called by the frame processor |
| frame processor (`video/frame_processor.py`) | a `TrackState` per track, phase of the detector | `process`, `_collect_finalized`, `flush` | tracker, recognizer; the worker takes its finalized tracks |
| OCR scheduling (`video/ocr_scheduler.py`, budget in `events/track_state.py`) | calls, waits, recent widths, extension and retry of a track | `decide`, `grant_retry`, `note_ocr_call`, `note_ocr_wait` | inside the frame processor |
| track state, best frames (`events/track_state.py`, `video/best_frames.py`) | bank of views, reads, best crop per text | `note_observation`, `add_read`, `select_best`, `evidence_for` | filled per frame, read at the end |
| plate validation (`events/multi_frame_validator.py`, `events/char_fusion.py`) | none per call | `validate`, `fuse` | the worker or the finalizer |
| plate grammar (`ai/plate_recognizer/postprocess.py`, `grammar_decode.py`, `base.py`) | none | `resolve`, `decode`, `best_registry_match`, `normalize`, `finalize` | everything that holds a plate |
| line and association (`video/line_crossing.py`, `video/plate_association.py`) | none | `check`, `validate` | the frame processor |
| camera worker (`workers/camera_worker.py`) | stop flag, batch of finalized tracks | `run`, `_process`, `_finalize`, `_emit_result`, `_shutdown` | everything above, one thread |
| dedupe (`events/dedupe.py`) | plate → last time and direction, at most a fixed number | `check_and_record` | called by the worker |
| deferred finalizer (`workers/deferred.py`, `events/verification.py`, `events/result_class.py`) | `_pending`: job id → vehicle, stage, deadline, validated plate | `begin`, `poll`, `drain` | VLM client (calls), worker (`on_result` callback) |
| VLM client (`vlm/client.py`) | `_outbox`, `_inflight`, `_results`, connection | `submit`, `poll`, `close`, `_tick` | the service, on its own thread |
| VLM service (`vlm/server.py`) | bounded queue, connections | `_handle`, `_inference_loop` | every camera's client |
| ingest client, spool (`workers/ingest_client.py`, `storage/spool.py`) | one file per unsent event | `submit`, `drain_spool`, `close` | the API, or the database in direct mode |
| ingest endpoint, event processor (`api/v1/endpoints/internal.py`, `services/event_service.py`) | database rows, media files | `ingest_event`, `ingest`, `correct` | database, media store, rules |
| rules and alerts (`events/rules_engine.py`) | alerts, notification outbox | `evaluate`, `_in_cooldown` | inside the ingest transaction |
| registry (`repositories/vehicle_repo.py`) | vehicles, aliases | `match`, `add_alias` | event processor |
| supervisor (`workers/supervisor.py`) | workers, pending restarts, backoffs, the service's process | `reconcile`, `_stop_worker`, `_ensure_vlm`, `run` | database (desired cameras), processes |
| camera manager (`services/camera_manager.py`, `routers/cameras.py`, `main.py`) | in-process workers of the web application | `start_camera`, `stop_camera`, lifespan | request handlers |

Hard behaviours: the reader overwriting the slot the worker reads; tracks that retire while frames
fail half way; budgets checked in three places; verdicts assembled from reads, fusion, repair and the
registry, one after the other; the worker against the client's I/O thread; answers racing deadlines
and the shutdown drain; reconnection to a service that dies; requests that outlive the worker's
timeout; a spool that outlives both ends; concurrent ingests and corrections; request handlers that
start and stop threads; process restarts while the supervisor is busy stopping another worker.
`PROJECT.json` lists every hazard with its line and the properties that cover it.

What makes a component correct, in a sentence each: the reader hands out a frame once; a track is
reported once and never forgotten; a vehicle's recognizer calls stay within its budget and waiting for
a better view ends; the crops, the verdict and the pictures of an event are of one vehicle, and no
character is surer than its evidence; repairs and matches are made only when they are unambiguous; the
finalizer emits exactly one result for a vehicle, with a class it earned; the client answers each
accepted job once and leaks no slot; the service wastes no run; dedupe neither doubles an arrival nor
hides one; delivery stores an event once and loses none without a named cause; an alert is neither
repeated within its cooldown nor left out; the supervisor keeps one process per enabled camera, none
for others.

## 2. Modules

| module | models | how |
|---|---|---|
| `RtspReader` | `RtspReader` | the thread's phase, backoff and quiet time; the slot as sequence numbers; the stream goes away and comes back; `taken` is history |
| `ByteTracker` | `ByteTracker` | a track's hits, misses and state; which detections match which tracks is a choice, boxes and costs are left out |
| `FrameProcessor` | `FrameProcessor`, life cycle | extends `ByteTracker`; one action per frame (detect or coast, track, plate work, collect), `DetectorFails` and `PlateWorkFails` end it half way; `events` is history |
| `OcrScheduler` | `decide`, the gates before it, the budget of a `TrackState`, `max_per_frame`, extension and retry | one vehicle; what is seen of it and who competes is input; the quality of a crop is one of the policy's tiers |
| `PlateText` | the grammar: `resolve`, `repair`, `trim_noise`, `decode`, `best_registry_match`, `normalize`, `finalize` | operators over sequences of characters; alphabet, confusions and formats are constants |
| `GateGeometry` | `VirtualLine.check`, `plate_association.validate` | operators on integer points and boxes |
| `TrackEvidence` | the bank and `select_best`, reads, fusion, `MultiFrameValidator.validate`, `evidence_for`, the best crops of the whole track (`overall`), the draft | extends `PlateText`; numbers in hundredths; a crop is the text read from its frame; `said` (every text read) and the car that wears a plate are there to check by |
| `PlateReading` | `_observe_plate`, `_run_ocr` | composes the two: a track observed, a track read, or one call of a pure function; `astray` (chains that may have changed cars) is there to check by |
| `CameraLoop` | `run`, `_process`, `_finalize`, `_publish`, `_emit_result`, `_shutdown`, `EventDeduplicator` | the batch of a frame in order; the line of vehicles that wait for the VLM; `log` is history, with the plates that a full memory pushed out (`forced`) |
| `OneResult` | the promise in the docstring of `deferred.py` | abstract: vehicles handed over, at most one result each, eventually one |
| `DeferredFinalizer` | `DeferredFinalizer`, both policies, with `CameraWorker.run` and `_shutdown` | program counter `pc` for the worker thread; `pending`, `due` (deadline passed), `final`, `batch` (what `client.poll` returned); the client is its contract |
| `JobContract` | the contract in the docstring of `vlm/client.py` | abstract: open jobs, answers, polls |
| `VlmService` | `SocketVlmClient`, `VlmServer`, `_Reply` | a tick of the I/O thread step by step, connections as `<<camera, generation>>`, bytes in flight in both directions, crash and restart of the service |
| `JobExpiry` | the clocks of a job: age limit, deadline, wait of the drain | timed; `Tick` happens only when no thread has something to do at once; cameras drain, are killed and lose their connections (`LinkLost`), and their jobs stay with the service; `cut`, `gone` say whose |
| `EventDelivery` | `IngestClient`, `DirectIngestClient`, `EventSpool`, `ingest_event`, `EventProcessor.ingest` | each request is a record with a stage; the worker may stop waiting for it |
| `EventService` | `VehicleRepository.match`, the six rules, `_raise_alerts`, `correct` | each request is a transaction that reads what is committed and commits later; an event may be corrected again and again; `lessons`, the fields `filed`, `known`, `concerned` of rows, `seen` of requests and alerts and `cooldown` of alerts are history |
| `Supervisor` | `Supervisor` with the processes and the camera table | a reconcile step by step, timers for backoff, patience and drain |
| `LegacyCameras` | `camera_manager.py`, `routers/cameras.py`, the lifespan of `main.py` | request threads as program counters between the transaction, the registry (locked) and the signal; two threads per worker |
| `*Proofs` | | theorems and proofs: `DeferredFinalizerProofs`, `EventDeliveryProofs`, `SupervisorProofs` and `PlateReadingProofs` about the module they are named for, `CameraProofs` about `RtspReader` and `CameraLoop`, `VideoProofs` about `FrameProcessor` and `OcrScheduler`, `BackendProofs` about `EventService` and `LegacyCameras`, `VlmServiceProofs` about `VlmService` and `JobExpiry` |
| `MC*` | | values for TLC |

Composition.  `FrameProcessor` extends `ByteTracker`, `TrackEvidence` extends `PlateText`, and
`PlateReading` composes evidence and geometry.  `DeferredFinalizer` uses a client that may do anything
its contract allows; `VlmService` shows (`ContractKept`, a refinement) that the real client and server
keep that contract; `DeferredFinalizer` in turn implements `OneResult` (`PromiseKept`), with the
refinement mapping `handed` = vehicles past `begin`, `result` = the events of a vehicle, numbered, so
that a second event of the same class would be a change of the result.  `CameraLoop` treats the
finalizer as a first-come, first-served line (a camera's jobs are answered by one inference thread in
the order they were queued) and submission as a call that succeeds or raises, which is what
`DeferredFinalizer` and `EventDelivery` establish.

Several MC modules hold independent components side by side: a variable `part`, chosen in the initial
state, says which one a behaviour is of, so that one run checks them without the product of their
states (`MCVlmService`: `VlmService` and `JobExpiry`; `MCVideo`: `FrameProcessor` and `OcrScheduler`;
`MCGate`: reader, loop, service, web application's cameras).  Fairness is conditional on `part`.

What is abstracted.  Frames are numbers and looks; a detection is the track it matches; in
`CameraLoop`, `EventDelivery` and `DeferredFinalizer` a plate is a name or its recognition state; a
verification is yes, no or no answer; confidences and weights are hundredths rounded down; statistics,
wording and logs are left out.  In `DeferredFinalizer`, `events` holds what `on_result` accepted; the
plate dedupe inside `_emit_result` may drop such an event on purpose, and counts as acceptance.
`Faults` says how `on_result` may raise: before the draft reached ingest or after.  Definitions
commented "Mutant:" are variants of the definition that follows them with a plausible bug; no
specification uses them, and each checks that a property notices the bug.

## 3. Runs

| run | question | bounds, and why they are enough |
|---|---|---|
| `video` | each track is reported once, and in time; reads stay within the budget and waiting ends | 2 tracks, so that ids, buffers and frames of two interleave; 2 hits to confirm, buffer of 2 and a detector on every second frame, so that a track is hidden, coasts and comes back; frames 1 or 3 periods apart against a stay of 2, so that one outlives `max_track_seconds`. One vehicle with a budget of 3 of which 1 is reserved, a bonus of 1, three widths, two waits before a backoff of 2: every gate of `decide` declines, and each is met before and after the budget is spent |
| `plates` | crops, verdict and pictures are of one vehicle; a verdict is as sure as its characters; repair, decoding, registry match, alignment, crossing and association do what they promise | 3 letters, 2 digits, a foreign character; formats of 5 and 6 characters; up to 4 reads of which 3 are kept, 2 texts with crops (so one is dropped), reads without a crop of the vehicle, frames in which no plate is found; 4 frames, a bank of 2; a registry of 2 residents. Two cars are each seen alone and together, in reach of each other's plate and out of it, nearer and farther than the own plate, and with the own plate missed. The calls are all texts of 4 and 5 characters (and of 6 over 4 of them), decodings with up to two uncertain characters, every order of 3 registered plates, paths of 2 and 3 points on, over and past the line, boxes on a grid |
| `gate` | frames are handed out once and the stream returns; one event per arrival and none hidden; alerts spaced and none muted; corrections take effect; one worker per camera of the web application | reader: 3 frames, 2 outages, backoff 1 to 4. Loop: 2 plates in a memory of 1 (so it evicts), 3 vehicles in 6 ticks against windows of 2 and 1 (so a vehicle is out of reach of the memory's horizon of 4), inline and deferred, 1 failed submission. Service: 2 concurrent requests, 2 events, 2 corrections of the same event or of two, 5 rules, of which one raises and one is for another camera. Cameras: 1 camera, 2 concurrent handlers, 3 workers |
| `deferred` | exactly one emission, nobody forgotten, class A earned; refinement of `OneResult`; shutdown ends | 2 vehicles, 1 slot: both overflow and two vehicles waiting at once (a slot is free again once its answer arrived); a vehicle has two stages, so every race of answer, deadline, refusal and drain occurs; the proofs cover any number |
| `deferred_raises` | the books when `on_result` raises | the same, `Faults = {"before", "after"}` |
| `vlm` | refinement of `JobContract`, no leaked slot, every accepted job answered; no wasted run | one camera with 2 jobs, or two with 1 each, for 1 slot each and 1 place in the queue: overflow on both sides; 2 connections, 1 crash: reconnection with jobs out; a job that cannot be encoded, and one that cannot be decoded. Clocks: 2 jobs of one camera or of two and 1 place, in ticks of 30 s: 2 in the queue (90 s as shipped, less what a tick on the way may add), 4 for the camera (120 s), 1 for the drain (45 s), a run of up to 4: a job expires behind a long run, is given up while it waits or runs, or loses its camera or connection |
| `delivery` | stored once, with the picture; losses accounted; the spool empties | 3 events, spool of 2 (so the cap bites), 1 timeout (so two requests of one event are in the API at once), 1 outage, 1 exit, 1 disk fault; both clients |
| `supervisor_safety` | one process each, restarts back off | 2 cameras, one failing call, cycles that lag by the stops they make |
| `supervisor_live` | enabled cameras run, disabled ones end, the service comes back and is stopped last | 1 camera, one failing call, patience 3 > drain 2, backoffs 1 and 2 |

`plates` and most of `gate` ask for outcomes of finite computations and finite behaviours; `video`
covers behaviours of any length (the counters of its modules saturate).  Deadlock checking is off where
a bounded environment may run out of things to do or the program ends; the finalizer's runs check it,
with `Terminated` for the finished worker.

Runs that show a disagreement of the code with what the repository says of it (each is an entry of
`findings`, with the quoted line):

| run | what the counterexample shows |
|---|---|
| `legacy_online` | `camera_manager.py:294` uses `os`, which the module does not import: a worker of the web application ends in its first step and no camera comes online |
| `read_is_learned` | a correction teaches the plate the event was filed under, which matching may already have replaced, not what the camera read |
| `supervisor_stop` | the supervisor kills after 12 s a worker whose drain may take 45 s |

### Other disagreements

The first group is reproduced by a run above with one property, constant or specification changed:

- `deferred_raises` with `INVARIANT OneEmission`: an exception that leaves `on_result` after the draft
  reached `IngestClient.submit` (an `OSError` of the directory listing in `EventSpool._enforce_cap`,
  after `os.replace`) makes the except clause of `poll` (`deferred.py:197`) emit a second event, with
  a new uid; `deferred.py:19` promises exactly one emission.
- `vlm` with `NoWastedRun` without its `Orphan`: `_inference_loop` (`server.py:157`) never looks at
  `reply.alive`, so it still runs the jobs of a camera that has drained, was killed or has lost its
  connection: the "answer nobody is listening for" of `vlm/server.py:21`.
- `vlm` with `PROPERTIES ExpiredIsGivenUp`: the service expires jobs whose camera still waits (90 s
  against 120 s); `vlm/server.py:19` and `vlm/config.py:30` say it has given up.
- `vlm` with `EveryJobAnswered` for the undecodable job too: `_handle` skips a payload that
  `decode_job` rejects without a reply (`server.py:145`); the job keeps its slot until the connection
  drops.  `client.py:10` says that every submitted job produces exactly one result eventually.
- `delivery` with `BusySpec`: `run` drains the spool only on an iteration that finds no new frame
  (`camera_worker.py:254`), so a stream faster than `processing_fps` leaves spooled events on disk
  until it stalls or the worker stops.
- `delivery` with `SpooledIsDelivered` for the direct client too: `DirectIngestClient._send` answers
  False for `DuplicateEvent` (`ingest_client.py:130`); an event whose commit succeeded although the
  call failed is spooled and blocks the head of the spool for ever.  The HTTP client treats the same
  case as delivered (`ingest_client.py:96`).
- `supervisor_live` with `Service = "broken"`: the `Popen` of the VLM service is not guarded
  (`supervisor.py:158`), so an interpreter that cannot be executed ends every reconcile before the
  workers, and keeps every camera down.
- `gate` with `INVARIANT SameArrivalOnce`: two events of one plate and one direction within the window
  that `DedupeConfig` calls the same arrival.  A sighting in the other direction replaces the
  remembered one, a full memory forgets, and results of the deferred mode come in another order than
  the vehicles while their clock is the wall time of finalization (`deferred.py:182`; only
  `detected_at` is the time of emission), so the clock of the memory goes back.
- `video` with `INVARIANT GrantIsSpendable`: `grant_retry` raises the allowance of a track whose budget
  is spent, but `decide` compares the calls with the configured budget only, so the extra reads are
  never made before the end of the track.
- `video` with `INVARIANT StatesOfLiveTracks`: a tentative track that is dropped unreported leaves its
  state behind until it is overlong.

The second group was met while modelling, by reading:

- an exception inside inline `_finalize` (`camera_worker.py:279`) loses the rest of the frame's batch
  and ends the worker;
- a CONFIRMED plate may rest on texts of which no two reads agree, each character having enough support
  of its own;
- `PlateRecognizer.finalize` misaligns confidences when a character is alphanumeric for Python but not
  ASCII (`base.py:91`);
- `snapshot()` gives aliases of inactive vehicles; `cli.py:65` reads it once and never again;
- `add_alias` keeps an existing alias of another vehicle, silently; a correction to a blacklisted plate
  raises no alert; the cooldown test stands outside the `try` that isolates a failing rule;
- a spooled draft that the API answers with 422 blocks the spool (`spool.py:80`);
- `create_camera` starts the worker of an inactive camera too, and an update racing a deletion leaves
  a worker that no row asks for (it is still the registered one, so `NoStrayWorker` holds);
- `_Vehicle.best()` of `ai/anpr_pipeline/engine.py` unpacks five of six fields; `routers/setup.py`
  imports the engine by value, so that the status check after setup may use the one before;
- `LocalVlmClient` counts a job after it has queued it, so that its `depth` may be -1 for a moment.

### Fairness

- `FrameProcessor`: whole frames that are possible again and again happen (strong, since a failing
  frame disables nothing but takes the place of a whole one): the detector does not fail for ever.
- `RtspReader`: the thread goes on (`Open`, `Reopen`, `Lost`) and time passes.  That the stream comes
  back is not assumed: `StreamReturns` speaks of one that stays back.
- `LegacyCameras`: the two threads of a worker are scheduled.
- `DeferredFinalizer`: the worker thread is scheduled and the drain's grace period ends
  (`WorkerSpec`); in `FairSpec`, which `PromiseKept` needs, each job's deadline passes too.  The clock
  is read once per sweep, so a deadline is noticed only between sweeps and its fairness is strong.
  Nothing is assumed of the client.
- `VlmService`: each I/O thread, handler thread and the inference thread is scheduled and a model
  call returns.  That the service is restarted is not assumed.
- `EventDelivery`: the worker and the API run, the API is started again, vehicles come up to the
  bound.  `QuietSpec` adds that a drain is started again and again, which `run` does only on
  iterations without a frame; `BusySpec` leaves that out.
- `Supervisor`: the supervisor runs, time passes, a terminated worker whose drain is over exits.

Failures are never fair; they are bounded by constants (`MaxCrashes`, `MaxTimeouts`, `MaxOutages`,
`MaxExits`, `MaxDiskFaults`, `MaxFaults`), as are the inputs (`MaxFrames`, `MaxTracks`, `MaxVehicles`,
`JobsPerCamera`, `MaxConnections`, `MaxJobs`, `Events`, `MaxEvents`, `MaxCorrections`, `MaxWorkers`)
and time (`MaxTime`, `MaxClock`).  The proofs hold for every value of these bounds.

## 4. Proofs

Every safety invariant and every safety action property that a run checks is a theorem, for every value
of the constants under the assumptions listed below, and so are the steps of both refinements.

| theorem | states | the inductive invariant, and why it is needed |
|---|---|---|
| `DeferredFinalizerProofs`: `TypeCorrect` | the types of the finalizer's state | itself |
| `AccountedCorrect` | `Accounted`, whatever `on_result` raises | `Books`, below |
| `OneEmissionCorrect` | `OneEmission`, if `on_result` never raises after delivering | `Books` |
| `NobodyInLimboCorrect` | `NobodyInLimbo`, if `on_result` never raises | `Books` and `NobodyLost` |
| `ClassAIsEarnedCorrect` | `ClassAIsEarned`, under the shipped `on_unavailable = downgrade` | `Earned`: every event recorded is deserving when it is built, and a verdict recorded later never takes that away |
| `PromiseStepsCorrect` | the finalizer starts as `OneResult` does and its steps are steps of it or stutters, if `on_result` never raises after delivering | `Books`: a step that records an event must find none before it, else it is no step of the promise |
| `CameraProofs`: `EveryFrameOnceCorrect` | `EveryFrameOnce` | `SlotBooks`: the number taken last never exceeds the one in the slot, else a new frame could meet it and look stale |
| `NothingHiddenCorrect` | `NothingHidden`, in both modes | `Sightings`: what is remembered was handled, in the direction it last went out with (`DirectionKept`) and at the time it was last handled with (`TimeKept`), whatever the order of the answers |
| `OneEventPerArrivalCorrect` | `OneEventPerArrival`, in both modes | `Sightings`: from its last event on a plate is remembered (`DirectionKept`, `TimeKept`) until it is pushed out (`Evicted`) or too old for a vehicle handled in between (`Outdated`) |
| `VideoProofs`: `OneEventPerTrackCorrect` | `OneEventPerTrack` | `Reported`: a reported track keeps its state as a tombstone until the tracker has retired it, and ids are never used again |
| `RetirementIsReportedCorrect` | `RetirementIsReported`, an action property | `Reported` and `TracksKnown`: a tombstone says truly that its track was reported, and a track that was confirmed leaves the tracker only through its list of the retired |
| `BudgetIsKeptCorrect` | `BudgetIsKept` | `WithinBudget`: a track that is final is also resolved, so that its bonus is spent once |
| `PatienceIsBoundedCorrect` | `PatienceIsBounded` | `Patient`: the crops declined are bounded by the waits noted while these are below their limit, and by the time since the last call while that is within the pause |
| `BackendProofs`: `AlertsAreSpacedCorrect` | `AlertsAreSpaced` | `Spaced`: what a request has raised but not committed is already apart from every alert it could see (`RaisedApart`), an alert has the plate its event was filed under, and a row stands under another plate only as a correction of it says (`Filed`) |
| `NothingMutedCorrect` | `NothingMuted` | `Heard`: a rule that concerns the event of an open request has been raised by it, or an alert accounts for it (`NoSilence`) under the plate its event had as it was filed or as some correction left it, and neither commits nor further corrections take that away |
| `LessonsApplyCorrect` | `LessonsApply` | `Taught`: lessons are numbered in their order, an alias taught stays what it is, and an open request was matched with the aliases it knows |
| `NoStrayWorkerCorrect` | `NoStrayWorker` | `Watched`: what the registry names is a worker of that camera (`RegistryIsTrue`), and requests name cameras (`RequestsName`) |
| `VlmServiceProofs`: `InflightIsUnderwayCorrect` | `InflightIsUnderway` | `Shared`: a job has one copy on its way (`OneCopy`), the handler of a connection that a client holds can reply (`CanReply`), a job on the way of an open connection is in flight (`InflightOnly`), and one being sent is nowhere yet (`NotYetSent`) |
| `ContractKeptCorrect` | `ContractKept`, the refinement of `JobContract` | `Shared`: the jobs of outbox and slots are distinct and counted (`OrderlyClients`), so that an answer always finds its job open and a full client refuses |
| `NoWastedRunCorrect` | `NoWastedRun`, an action property | `JobsUnderway`: a job on the way or in the backlog is waited for, overdue, cut off with its connection or its camera's that has ended, entered the queue at most a delay after it was sent, and is in one place |
| `EventDeliveryProofs`: `StoredOnceCorrect`, `LossIsAccountedCorrect` | `StoredOnce`, `LossIsAccounted` | `Delivery`: only the newest attempt can answer the worker and carries the event in its hand, what it takes for sent is stored, and `Missing` (what would be lost if every request failed) is never larger than its causes |
| `SupervisorProofs`: `OneProcessCorrect`, `ServiceOutlivesWorkersCorrect` | `OneProcess`; `ServiceOutlivesWorkers`, an action property | `Manned`: a camera is known, pending or being stopped, never two of these, and none starts while another is being stopped |
| `RestartsBackOffCorrect` | `RestartsBackOff`, an action property | `Manned` and `Paced`: the lag of a cycle is at most a timeout for each worker it has stopped (`LagIsBounded`), a known worker started before the cycle read its clock (`StartedBefore`), and the age of a pending one and what is left of its timer make up its backoff (`BackoffServed`) |
| `PlateReadingProofs`: `OnePlateOneVehicleCorrect`, `NoCrossingMissedCorrect` | `OnePlateOneVehicle`, `NoCrossingMissed` | the kind of call is known (`KnownCall`); the rest is arithmetic about the operators: shares of a plate's area that lie in two disjoint boxes, signs of a path against the line |
| `RepairIsUniqueCorrect`, `DecodeIsBackedCorrect`, `EvidenceStaysAlignedCorrect`, `OneResidentCorrect` | the properties of these names | `KnownCall`, and lemmas on the operators: what a ranking by cost puts first, what a filter keeps at which place, how far a repaired text is from what was read |
| `ImagesBelongToPlateCorrect` | `ImagesBelongToPlate` | `Pictured`: a picture is filed under the text it was read as, and, until there are more texts than are kept, every text read is among those that have one |
| `DoubtIsNotConfirmedCorrect` | `DoubtIsNotConfirmed` | `Judged`: a fused verdict that is confirmed is the fusion of the reads, and none of its places is unstable |
| `SelectionIsOneVehicleCorrect` | `SelectionIsOneVehicle` | `Followed`: views of a chain that is not astray are of one vehicle, the one followed last if the chain is the newest |

`Books` in some detail: `OneEmission` alone is not inductive.  An emission is safe only if its vehicle
has no event yet, which follows from `WaitingIsUnsettled` (a vehicle that is waited for has none) and
`UnhandedUnsettled` (nor has one before `begin`); removing a job from `pending` keeps the first only
if no second job of the vehicle is there (`OneStage`), and starting a job keeps it only if the vehicle
was not handed over before (`WaitingHanded`).  `Missing` in `EventDelivery` is larger than `Lost`
because a request under way may still fail: an event moves from "on its way" to lost without any
further fault, so the fault must have been counted when the worker let go of the event.

`ContractKept` is proved for each client by itself: `Promise(c)` says that a step is one of
`JobContract` for client `c`, or none, and each action of the service or of a client has a lemma that
it keeps `Shared` and makes `Promise(d)` true for every `d`.  The service's actions are shown first to
move jobs without losing one (`Moved`), which is all that the clients' half needs to know of them.

The proofs have a lemma per action, or per group of actions that change the same part of the state.
Counting (`Cardinality`) rests on the library's theorems about finite sets.  What the text operators
define by recursion over a number (a sum, a filter, a ranking, a distance) is a recursive function
here, and is reasoned about without an induction rule: a function that satisfies the recursion exists
(`Accumulates`), so the one the definition picks satisfies it, and what holds of 0 and of each next
number holds of all, or the least number where it fails would not be the least (`UpTo`, `Least`).

### Assumptions

The assumptions on constants say what type a constant has and what the configuration classes accept.
Those with more content:

- `AlphabetAssumption`: letters and digits are apart, and the confusions map the one to texts of the
  other, as the tables of `postprocess.py` do.
- `FormatsAssumption`: a mask has two places or more, and one that begins with two letters (a state
  code) fixes neither of them; `MinLen` is positive; limits and costs are natural numbers.
- `CallsAssumption`: a pure function is called as its callers call it: with normalized texts, with as
  many alternatives and confidences as characters, and with integer points and boxes.
- `ReadsAssumption`: a read is not empty; confidences and qualities are hundredths.
- `GateAssumption`: the line has integer ends and the tolerance of a plate's box is below a half.  How
  the gate runs is free, and its two ends may coincide.
- `ViewsAssumption`: a view shows at least one plate, each worn by some car at some place.  Nothing is
  assumed about which plates are in view: the own plate may be missed or hidden while another one is
  in reach, or be farther than it.  Then `_pick_candidate` takes the other plate for the one it
  follows, and no rule on distances can tell; the two vehicles share a chain, and the crops sent may
  show both.  `SelectionIsOneVehicle` marks such a chain `astray` and promises one vehicle for all
  others.

A theorem that needs more of a constant states it (`ASSUME ... PROVE`): the finalizer's about how
`on_result` may raise and about `on_unavailable`.  `NoWastedRun` names its condition itself: a
positive age limit (0 turns it off, `server.py:164`) that together with the delay is below the deadline.

What a property does not say: `NothingHidden` is about vehicles handled before; one that was seen
earlier but answered later may be suppressed after one seen later.  `PatienceIsBounded` counts the
crops that `decide` declines, not the frames lost to the cap per frame or to spent attempts.
`OnePlateOneVehicle` is about boxes that do not meet: a plate in the overlap of two boxes may be
accepted for both.  `NoWastedRun` excuses the jobs of cameras and connections that are no more
(`Orphan`).  The cut of a track's reads (60 to 40) is modelled, but the shipped OCR budgets end the
reads long before it.

### Only model-checked

Liveness, which needs fairness and ENABLED: `EveryStateIsReported`, `StreamReturns`,
`EveryJobAnswered`, `SpooledIsDelivered`, `CamerasFollowed`, `ServiceComesBack`, `ShutdownEnds`, and of
the refinement `PromiseKept` the part that says a result comes eventually.  Kept in the modules and in
no run: the type invariants of the modules that have no theorem of that kind, and the properties named
under "Other disagreements".

## 5. Not modelled

`components` of `PROJECT.json` lists every part with its reason.  In short:

- numeric inference (detectors, recognizers, quality scores, colours): its outcomes are choices or
  inputs of the models; rasterized regions of interest, whose effect is one of the sights of
  `OcrScheduler`;
- `services/detection.py` and the frame processing of `camera_manager.py`: reached only by workers that
  end before their first frame (`legacy_online`);
- what the VLM reads and how `vlm/executor.py` asks it; `LocalVlmClient`, which runs the same executor
  on a thread of the worker;
- CRUD endpoints with one transaction per request, schema and migrations, settings, the frontend,
  debug records and scripts.

## 6. Plan

1. (done) The finalizer, its abstract promise and proofs; the VLM client and service, with its
   contract; delivery; the supervisor.
2. (done) The video pipeline (`RtspReader`, `ByteTracker`, `FrameProcessor`, `OcrScheduler`), evidence
   and verdict (`PlateText`, `TrackEvidence`, `GateGeometry`, `PlateReading`), `CameraLoop` with
   de-duplication, `EventService`, `LegacyCameras`; a theorem about each component whose safety rests
   on a strengthening.
3. Model next: `LocalVlmClient` as a second implementation of `JobContract`; regions of interest on a
   grid; retention; a composition of `CameraLoop` with `EventDelivery`, where a failed submission is a
   spooled file.
4. (done) Proofs: every safety property of the runs, and the steps of both refinements.
5. Prove next: the type invariants that the theorems use only in part; that `JobExpiry` begins no job
   twice; that crops, verdict and picture of one event belong together across `TrackEvidence`.
