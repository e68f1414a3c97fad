-------------------------- MODULE DeferredFinalizer --------------------------
(***************************************************************************)
(* A camera worker's loop in deferred mode: DeferredFinalizer (begin, poll,*)
(* drain) driven by CameraWorker.run and CameraWorker._shutdown.           *)
(*                                                                         *)
(* The worker thread is one process with a program counter; it is          *)
(* interleaved with the client's I/O thread at every point where the code  *)
(* leaves the worker's own state: between two results, two begin calls and *)
(* around every poll of the client.  The client is represented by its      *)
(* contract (backend/app/vlm/client.py): a bounded set of open jobs, each  *)
(* answered at most once, possibly never.  VlmService shows that the       *)
(* socket client and the server keep that contract.                        *)
(***************************************************************************)
EXTENDS Naturals, Sequences, FiniteSets

CONSTANTS Vehicle,        \* tracks that reach finalization
          MaxPending,     \* VlmConfig.client_pending
          OnUnavailable,  \* VerificationConfig.on_unavailable
          Faults          \* ways the emission callback may raise

ASSUME PendingAssumption == MaxPending \in Nat \ {0}
ASSUME PolicyAssumption == OnUnavailable \in {"downgrade", "keep"}
ASSUME FaultsAssumption == Faults \subseteq {"before", "after"}

VARIABLES
  phase,     \* where each vehicle is on its way to the finalizer
  pc,        \* what the worker thread does next
  mode,      \* which poll is running: the loop's, drain's, drain's last
  stop,      \* CameraWorker._stop
  drainOver, \* drain's deadline has passed
  pending,   \* DeferredFinalizer._pending: the job ids it waits for
  due,       \* pending jobs whose deadline has passed
  final,     \* _Pending.final: the plate validated before verification
  batch,     \* results poll() took from the client and has not handled
  open,      \* client: jobs submitted and not answered
  results,   \* client: answers waiting for poll()
  events     \* the results on_result accepted for each vehicle: submitted to
             \* ingest, or suppressed as a sighting of a plate just recorded

workerVars == <<phase, pc, mode, stop, drainOver>>
finalizerVars == <<pending, due, final, batch>>
clientVars == <<open, results>>
vars == <<phase, pc, mode, stop, drainOver, pending, due, final, batch,
          open, results, events>>

-----------------------------------------------------------------------------
(* Data: what the policies distinguish. *)

Stage == {"recognize", "verify"}
Job == Vehicle \X Stage

(* RecognitionState of a validated plate; "none" is the absence of one. *)
PlateState == {"confirmed", "probable", "unresolved"}
NoPlate == "none"

(* VlmResult.status, the ones that end in different reasons. *)
Status == {"ok", "overflow", "expired", "unavailable"}
Result == [job : Job, status : Status]

(* The mean answer of a verification: yes, no, or no answer at all. *)
Verdict == {"unasked", "yes", "no", "noanswer"}
Class == {"A", "B", "C"}
Reason == {"confirmed", "ambiguous", "unresolved", "verification_rejected",
           "verification_unavailable", "vlm_queue_overflow",
           "vlm_unavailable", "vlm_timeout", "vlm_unreadable",
           "no_consensus", "no_usable_plate_observation"}
Event == [class : Class, reason : Reason,
          validated : PlateState \union {NoPlate},
          triggered : BOOLEAN, verdict : Verdict]

Phase == {"tracked", "finalized", "ignored", "dropped", "handed"}
Pc == {"top", "advance", "sweep", "frame", "begin", "flush", "flushing",
       "drain", "giveup", "closed"}
Outcome == {"ok"} \union Faults

FailureReason(status) ==
  CASE status = "overflow" -> "vlm_queue_overflow"
    [] status = "expired"  -> "vlm_timeout"
    [] OTHER               -> "vlm_unavailable"

(* review(reason): a class B result with no plate string. *)
Review(reason) ==
  [class |-> "B", reason |-> reason, validated |-> NoPlate,
   triggered |-> FALSE, verdict |-> "unasked"]

NoPlateEvent ==
  [Review("no_usable_plate_observation") EXCEPT !.class = "C"]

Rejected(verdict) == verdict = "no"

(* Mutant: "could not check" is treated as "checked and fine". *)
DowngradesOnlyOnNo(state, verdict) == state = "confirmed" /\ Rejected(verdict)

(* verification.apply: only a confirmed plate can change, and only down. *)
Downgrades(state, verdict) ==
  /\ state = "confirmed"
  /\ \/ Rejected(verdict)
     \/ verdict = "noanswer" /\ OnUnavailable = "downgrade"

(* classify, after apply when a verification was due. *)
Classified(state, triggered, verdict) ==
  LET down  == triggered /\ Downgrades(state, verdict)
      after == IF down THEN "probable" ELSE state
  IN [class |-> IF after = "confirmed" THEN "A" ELSE "B",
      reason |-> IF down
                 THEN IF Rejected(verdict) THEN "verification_rejected"
                                           ELSE "verification_unavailable"
                 ELSE IF after = "confirmed" THEN "confirmed"
                 ELSE IF after = "unresolved" THEN "unresolved" ELSE "ambiguous",
      validated |-> state, triggered |-> triggered, verdict |-> verdict]

-----------------------------------------------------------------------------
(* The emission callback and the control flow around it. *)

(* What is on record after on_result(e): nothing if it raised before the    *)
(* draft reached ingest.submit, the event otherwise.                        *)
Recorded(seq, e, out) == IF out = "before" THEN seq ELSE Append(seq, e)

(* An exception leaves poll or drain.  In the loop it ends run(), whose     *)
(* finally clause is _shutdown; in _shutdown the drain is abandoned.        *)
Escape ==
  /\ pc' = IF mode = "loop" THEN "flush" ELSE "closed"
  /\ batch' = {}

(* An emission with no handler around it: the deadline sweep, giving up.    *)
EmitUnguarded(v, e) ==
  \E out \in Outcome :
    /\ events' = [events EXCEPT ![v] = Recorded(@, e, out)]
    /\ IF out = "ok" THEN UNCHANGED <<pc, batch>> ELSE Escape

(* An emission inside poll's try: when it raises, the except clause emits a *)
(* class B "finalization_error" for the same vehicle, unguarded.            *)
EmitAdvancing(v, e, rest) ==
  \/ /\ events' = [events EXCEPT ![v] = Append(@, e)]
     /\ batch' = rest
     /\ UNCHANGED pc
  \/ \E out \in Faults, again \in Outcome :
       /\ events' = [events EXCEPT ![v] =
                       Recorded(Recorded(@, e, out), Review("vlm_unavailable"), again)]
       /\ IF again = "ok" THEN batch' = rest /\ UNCHANGED pc ELSE Escape

-----------------------------------------------------------------------------
(* The client's contract. *)

Submit(j) ==
  /\ Cardinality(open) < MaxPending
  /\ open' = open \union {j}

Refuse == Cardinality(open) >= MaxPending /\ UNCHANGED open

(* The I/O thread finishes an open job: an answer or a failure status. *)
Answer(j, status) ==
  /\ pc # "closed"
  /\ j \in open
  /\ open' = open \ {j}
  /\ results' = results \union {[job |-> j, status |-> status]}
  /\ UNCHANGED <<workerVars, finalizerVars, events>>

-----------------------------------------------------------------------------
(* DeferredFinalizer.poll *)

TakeResults(m) ==
  /\ batch' = results
  /\ results' = {}
  /\ mode' = m
  /\ pc' = "advance"

(* Mutant: a late answer for a vehicle already settled is emitted again. *)
EmitLate(r) ==
  /\ r.job \notin pending
  /\ batch' = batch \ {r}
  /\ events' = [events EXCEPT ![r.job[1]] = Append(@, Review("vlm_unreadable"))]
  /\ UNCHANGED <<workerVars, pending, due, final, clientVars>>

(* An answer for a vehicle already given up on is discarded. *)
DiscardLate(r) ==
  /\ r.job \notin pending
  /\ batch' = batch \ {r}
  /\ UNCHANGED <<workerVars, pending, due, final, clientVars, events>>

(* The vehicle's job leaves _pending and its one event goes out. *)
Resolve(v, j, e, rest) ==
  /\ pending' = pending \ {j}
  /\ due' = due \ {j}
  /\ EmitAdvancing(v, e, rest)
  /\ UNCHANGED <<phase, mode, stop, drainOver, final, clientVars>>

(* _give_up: a plate validated earlier is kept but cannot be class A.       *)
GivenUp(v, reason) ==
  IF final[v] = NoPlate THEN Review(reason)
  ELSE Classified(final[v], TRUE, "noanswer")

(* _on_recognized, result not ok. *)
RecognizeFailed(r) ==
  LET v == r.job[1]
  IN /\ r.status # "ok"
     /\ Resolve(v, r.job, GivenUp(v, FailureReason(r.status)), batch \ {r})

(* _on_recognized, no readable crop, or no consensus among the reads. *)
Inconclusive(r) ==
  /\ r.status = "ok"
  /\ \E reason \in {"vlm_unreadable", "no_consensus"} :
       Resolve(r.job[1], r.job, Review(reason), batch \ {r})

(* _on_recognized, a plate that needs no second look. *)
Settled(r) ==
  /\ r.status = "ok"
  /\ \E state \in PlateState :
       Resolve(r.job[1], r.job, Classified(state, FALSE, "unasked"), batch \ {r})

(* _request_verification: ask, or apply "could not check" when refused.     *)
RequestVerification(r) ==
  LET v == r.job[1]
      again == <<v, "verify">>
  IN /\ r.status = "ok"
     /\ \E state \in {"confirmed", "probable"} :
          \/ /\ Submit(again)
             /\ pending' = (pending \ {r.job}) \union {again}
             /\ due' = due \ {r.job}
             /\ final' = [final EXCEPT ![v] = state]
             /\ batch' = batch \ {r}
             /\ UNCHANGED <<workerVars, results, events>>
          \/ /\ Refuse
             /\ Resolve(v, r.job, Classified(state, TRUE, "noanswer"), batch \ {r})

(* _on_verified. *)
OnVerified(r) ==
  LET v == r.job[1]
  IN \E verdict \in IF r.status = "ok" THEN {"yes", "no", "noanswer"} ELSE {"noanswer"} :
       Resolve(v, r.job, Classified(final[v], TRUE, verdict), batch \ {r})

(* _advance, for a result whose vehicle is still waited for. *)
Advance(r) ==
  /\ r.job \in pending
  /\ \/ /\ r.job[2] = "recognize"
        /\ \/ RecognizeFailed(r)
           \/ Inconclusive(r)
           \/ Settled(r)
           \/ RequestVerification(r)
     \/ /\ r.job[2] = "verify"
        /\ OnVerified(r)

HandleResult(r) ==
  /\ pc = "advance"
  /\ r \in batch
  /\ DiscardLate(r) \/ Advance(r)

ResultsHandled ==
  /\ pc = "advance"
  /\ batch = {}
  /\ pc' = "sweep"
  /\ UNCHANGED <<phase, mode, stop, drainOver, finalizerVars, clientVars, events>>

(* Mutant: the expired vehicle is settled but stays in _pending. *)
GiveUpKeepingPending(j) ==
  /\ due' = due \ {j}
  /\ EmitUnguarded(j[1], GivenUp(j[1], "vlm_timeout"))
  /\ UNCHANGED <<phase, mode, stop, drainOver, pending, final, clientVars>>

(* A pending vehicle is popped and given up on. *)
GiveUp(j) ==
  /\ pending' = pending \ {j}
  /\ due' = due \ {j}
  /\ EmitUnguarded(j[1], GivenUp(j[1], "vlm_timeout"))
  /\ UNCHANGED <<phase, mode, stop, drainOver, final, clientVars>>

(* The deadline sweep at the end of poll, one expired job at a time. *)
SweepExpired(j) ==
  /\ pc = "sweep"
  /\ j \in due
  /\ GiveUp(j)

SweepDone ==
  /\ pc = "sweep"
  /\ due = {}
  /\ pc' = CASE mode = "loop"  -> "frame"
             [] mode = "drain" -> "drain"
             [] mode = "last"  -> "giveup"
  /\ UNCHANGED <<phase, mode, stop, drainOver, finalizerVars, clientVars, events>>

(* Time: a job outlives job_timeout_s.  The sweep reads the clock once, so  *)
(* a deadline that passes during a sweep is seen by the next poll.          *)
DeadlinePasses(j) ==
  /\ pc \notin {"sweep", "closed"}
  /\ j \in pending \ due
  /\ due' = due \union {j}
  /\ UNCHANGED <<workerVars, pending, final, batch, clientVars, events>>

-----------------------------------------------------------------------------
(* DeferredFinalizer.begin *)

Hand(v) == phase' = [phase EXCEPT ![v] = "handed"]

(* The read zone was never reached: no result is owed. *)
BeginIgnored(v) ==
  /\ phase' = [phase EXCEPT ![v] = "ignored"]
  /\ UNCHANGED <<pc, mode, stop, drainOver, finalizerVars, clientVars, events>>

(* begin emits at once (class C, or class B because the queue is full).     *)
(* In the loop an exception ends run() and the rest of the frame's tracks;  *)
(* in _shutdown it is caught per track.                                     *)
BeginEmits(v, e) ==
  /\ \E out \in Outcome :
       /\ events' = [events EXCEPT ![v] = Recorded(@, e, out)]
       /\ IF out # "ok" /\ pc = "begin"
          THEN /\ pc' = "flush"
               /\ phase' = [w \in Vehicle |-> IF w = v THEN "handed"
                                              ELSE IF phase[w] = "finalized" THEN "dropped"
                                              ELSE phase[w]]
          ELSE Hand(v) /\ UNCHANGED pc
  /\ UNCHANGED <<mode, stop, drainOver, finalizerVars, results>>

BeginNoPlate(v) == BeginEmits(v, NoPlateEvent) /\ UNCHANGED open

BeginRefused(v) == Refuse /\ BeginEmits(v, Review("vlm_queue_overflow"))

(* Mutant: the job is submitted but the vehicle is not remembered. *)
BeginForgets(v) ==
  /\ Submit(<<v, "recognize">>)
  /\ Hand(v)
  /\ UNCHANGED <<pc, mode, stop, drainOver, finalizerVars, results, events>>

BeginSubmitted(v) ==
  /\ Submit(<<v, "recognize">>)
  /\ Hand(v)
  /\ pending' = pending \union {<<v, "recognize">>}
  /\ UNCHANGED <<pc, mode, stop, drainOver, due, final, batch, results, events>>

Begin(v) ==
  /\ pc \in {"begin", "flushing"}
  /\ phase[v] = "finalized"
  /\ BeginIgnored(v) \/ BeginNoPlate(v) \/ BeginRefused(v) \/ BeginSubmitted(v)

-----------------------------------------------------------------------------
(* CameraWorker.run and _shutdown *)

LoopPoll ==
  /\ pc = "top"
  /\ ~stop
  /\ TakeResults("loop")
  /\ UNCHANGED <<phase, stop, drainOver, pending, due, final, open, events>>

(* A frame arrives (or none does) and finalizes some tracks. *)
Frame(S) ==
  /\ pc = "frame"
  /\ \A v \in S : phase[v] = "tracked"
  /\ phase' = [v \in Vehicle |-> IF v \in S THEN "finalized" ELSE phase[v]]
  /\ pc' = "begin"
  /\ UNCHANGED <<mode, stop, drainOver, finalizerVars, clientVars, events>>

FrameDone ==
  /\ pc = "begin"
  /\ \A v \in Vehicle : phase[v] # "finalized"
  /\ pc' = "top"
  /\ UNCHANGED <<phase, mode, stop, drainOver, finalizerVars, clientVars, events>>

(* SIGTERM or SIGINT: the handler only sets the flag. *)
Stop ==
  /\ ~stop
  /\ pc # "closed"
  /\ stop' = TRUE
  /\ UNCHANGED <<phase, pc, mode, drainOver, finalizerVars, clientVars, events>>

LeaveLoop ==
  /\ pc = "top"
  /\ stop
  /\ pc' = "flush"
  /\ UNCHANGED <<phase, mode, stop, drainOver, finalizerVars, clientVars, events>>

(* processor.flush finalizes every live track. *)
Flush ==
  /\ pc = "flush"
  /\ phase' = [v \in Vehicle |-> IF phase[v] = "tracked" THEN "finalized" ELSE phase[v]]
  /\ pc' = "flushing"
  /\ UNCHANGED <<mode, stop, drainOver, finalizerVars, clientVars, events>>

FlushDone ==
  /\ pc = "flushing"
  /\ \A v \in Vehicle : phase[v] # "finalized"
  /\ pc' = "drain"
  /\ UNCHANGED <<phase, mode, stop, drainOver, finalizerVars, clientVars, events>>

(* Mutant: drain polls on without looking at its deadline or at what is left. *)
DrainPollForever ==
  /\ pc = "drain"
  /\ TakeResults("drain")
  /\ UNCHANGED <<phase, stop, drainOver, pending, due, final, open, events>>

(* drain: poll while something is pending and time remains, then once more. *)
DrainPoll ==
  /\ pc = "drain"
  /\ TakeResults(IF pending # {} /\ ~drainOver THEN "drain" ELSE "last")
  /\ UNCHANGED <<phase, stop, drainOver, pending, due, final, open, events>>

(* Time: shutdown_wait_s elapses. *)
DrainDeadlinePasses ==
  /\ pc = "drain" \/ (mode \in {"drain", "last"} /\ pc \in {"advance", "sweep"})
  /\ ~drainOver
  /\ drainOver' = TRUE
  /\ UNCHANGED <<phase, pc, mode, stop, finalizerVars, clientVars, events>>

DrainGivesUp(j) ==
  /\ pc = "giveup"
  /\ j \in pending
  /\ GiveUp(j)

(* client.close, ingest.close: nothing is polled after this. *)
Close ==
  /\ pc = "giveup"
  /\ pending = {}
  /\ pc' = "closed"
  /\ UNCHANGED <<phase, mode, stop, drainOver, finalizerVars, clientVars, events>>

Terminated == pc = "closed" /\ UNCHANGED vars

-----------------------------------------------------------------------------
Init ==
  /\ phase = [v \in Vehicle |-> "tracked"]
  /\ pc = "top"
  /\ mode = "loop"
  /\ stop = FALSE
  /\ drainOver = FALSE
  /\ pending = {} /\ due = {} /\ batch = {}
  /\ final = [v \in Vehicle |-> NoPlate]
  /\ open = {} /\ results = {}
  /\ events = [v \in Vehicle |-> <<>>]

(* The worker thread's own steps. *)
Worker ==
  \/ LoopPoll \/ ResultsHandled \/ SweepDone \/ FrameDone
  \/ LeaveLoop \/ Flush \/ FlushDone \/ DrainPoll \/ Close
  \/ \E r \in batch : HandleResult(r)
  \/ \E j \in pending : SweepExpired(j) \/ DrainGivesUp(j)
  \/ \E S \in SUBSET Vehicle : Frame(S)
  \/ \E v \in Vehicle : Begin(v)

Time ==
  \/ DrainDeadlinePasses
  \/ \E j \in pending : DeadlinePasses(j)

Client == \E j \in open, status \in Status : Answer(j, status)

Next == Worker \/ Time \/ Client \/ Stop \/ Terminated

Spec == Init /\ [][Next]_vars

(* The worker thread is scheduled and the drain's grace period ends.        *)
(* Nothing is assumed of the client: a service may never answer.            *)
WorkerFairness == WF_vars(Worker) /\ WF_vars(DrainDeadlinePasses)

WorkerSpec == Spec /\ WorkerFairness

(* Every deadline passes in the end, but it is noticed only between sweeps, *)
(* hence strong fairness.                                                   *)
Fairness ==
  /\ WorkerFairness
  /\ \A j \in Job : SF_vars(DeadlinePasses(j))

FairSpec == Spec /\ Fairness

-----------------------------------------------------------------------------
(* Properties *)

TypeOK ==
  /\ phase \in [Vehicle -> Phase]
  /\ pc \in Pc /\ mode \in {"loop", "drain", "last"}
  /\ stop \in BOOLEAN /\ drainOver \in BOOLEAN
  /\ pending \in SUBSET Job /\ due \in SUBSET pending
  /\ final \in [Vehicle -> PlateState \union {NoPlate}]
  /\ batch \in SUBSET Result
  /\ open \in SUBSET Job /\ results \in SUBSET Result
  /\ events \in [Vehicle -> Seq(Event)]

Waiting(v) == \E j \in pending : j[1] = v

(* A vehicle never produces two events: not by a late answer, not by an     *)
(* answer racing the deadline, not by the shutdown drain.                   *)
OneEmission == \A v \in Vehicle : Len(events[v]) <= 1

(* A vehicle handed over is settled or waited for, never both and never     *)
(* neither: refusals, failures and give-ups lose nobody.                    *)
NobodyInLimbo ==
  \A v \in Vehicle : phase[v] = "handed" => (Waiting(v) # (events[v] # <<>>))

(* A vehicle is waited for in one stage at a time. *)
OneStage == \A i, j \in pending : i[1] = j[1] => i = j

(* Only vehicles that were handed over are waited for. *)
WaitingHanded == \A j \in pending : phase[j[1]] = "handed"

(* A vehicle that is still waited for has no event yet. *)
WaitingIsUnsettled == \A j \in pending : events[j[1]] = <<>>

(* A vehicle that was not handed over has none either. *)
UnhandedUnsettled ==
  \A v \in Vehicle : phase[v] \in {"tracked", "finalized"} => events[v] = <<>>

(* The finalizer's books agree with what was emitted even when the emission *)
(* callback raises in the middle of a poll, a sweep, a begin or a drain.    *)
Accounted == OneStage /\ WaitingHanded /\ WaitingIsUnsettled /\ UnhandedUnsettled

(* A vehicle handed over is waited for or has an event. *)
NobodyLost ==
  \A v \in Vehicle : phase[v] = "handed" => Waiting(v) \/ events[v] # <<>>

(* The inductive invariant: what holds whatever the callback does, that     *)
(* nothing is emitted twice unless it raises after delivering, and that     *)
(* nobody is lost unless it raises.                                         *)
Books ==
  /\ TypeOK
  /\ Accounted
  /\ "after" \notin Faults => OneEmission
  /\ Faults = {} => NobodyLost

(* Class A is earned: the validator confirmed the plate, and a plate that   *)
(* triggered verification was verified with a yes.                          *)
ClassAIsEarned ==
  \A v \in Vehicle : \A i \in DOMAIN events[v] :
    LET e == events[v][i]
    IN e.class = "A" => /\ e.validated = "confirmed"
                        /\ e.triggered => e.verdict = "yes"

(* Shutdown ends, whatever the service does.                                *)
ShutdownEnds == stop ~> pc = "closed"

(* The worker implements the promise of exactly one result: the events of   *)
(* a vehicle, numbered, are its results.                                    *)
Promise == INSTANCE OneResult
  WITH Class <- {1} \X Class,
       handed <- {v \in Vehicle : phase[v] = "handed"},
       result <- [v \in Vehicle |-> {<<i, events[v][i].class>> : i \in DOMAIN events[v]}]

PromiseKept == Promise!Spec
==============================================================================
