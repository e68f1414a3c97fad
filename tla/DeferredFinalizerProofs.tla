----------------------- MODULE DeferredFinalizerProofs -----------------------
(***************************************************************************)
(* Proofs about DeferredFinalizer, for any set of vehicles and any bound:  *)
(* types, the books, class A, and the steps of the promise it implements.  *)
(***************************************************************************)
EXTENDS DeferredFinalizer, TLAPS

(* Every event the finalizer builds is a well-formed event. *)
LEMMA ReviewType ==
  ASSUME NEW reason \in Reason
  PROVE  Review(reason) \in Event
BY DEF Review, Event, Class, Verdict, NoPlate

(* The event of a vehicle without a plate is an event.                      *)
LEMMA NoPlateEventType == NoPlateEvent \in Event
BY DEF NoPlateEvent, Review, Event, Class, Verdict, NoPlate, Reason

(* Classifying a plate gives an event.                                      *)
LEMMA ClassifiedType ==
  ASSUME NEW state \in PlateState \union {NoPlate},
         NEW triggered \in BOOLEAN, NEW verdict \in Verdict
  PROVE  Classified(state, triggered, verdict) \in Event
BY DEF Classified, Event, Class, Reason, PlateState, NoPlate

(* Every status of a failed job has a reason.                               *)
LEMMA FailureReasonType ==
  ASSUME NEW status
  PROVE  FailureReason(status) \in Reason
BY DEF FailureReason, Reason

(* Giving up a vehicle gives an event.                                      *)
LEMMA GivenUpType ==
  ASSUME TypeOK, NEW v \in Vehicle, NEW reason \in Reason
  PROVE  GivenUp(v, reason) \in Event
<1>1. final[v] \in PlateState \union {NoPlate} /\ "noanswer" \in Verdict /\ TRUE \in BOOLEAN
  BY DEF TypeOK, Verdict
<1>2. Classified(final[v], TRUE, "noanswer") \in Event
  BY <1>1, ClassifiedType
<1> QED BY <1>2, ReviewType DEF GivenUp

(* Recording an event, or failing to, leaves a sequence of events.          *)
LEMMA RecordedType ==
  ASSUME NEW seq \in Seq(Event), NEW e \in Event, NEW out
  PROVE  Recorded(seq, e, out) \in Seq(Event)
BY DEF Recorded

(* What an emission leaves on record, its type and, when the callback never *)
(* raises after delivery, its length.                                       *)
LEMMA EmitAdvancingType ==
  ASSUME TypeOK, NEW v \in Vehicle, NEW e \in Event, NEW rest \in SUBSET Result,
         EmitAdvancing(v, e, rest)
  PROVE  /\ events' \in [Vehicle -> Seq(Event)]
         /\ pc' \in Pc
         /\ batch' \in SUBSET Result
<1>1. CASE /\ events' = [events EXCEPT ![v] = Append(@, e)]
           /\ batch' = rest
           /\ UNCHANGED pc
  BY <1>1 DEF TypeOK
<1>2. CASE \E out \in Faults, again \in Outcome :
             /\ events' = [events EXCEPT ![v] =
                             Recorded(Recorded(@, e, out), Review("vlm_unavailable"), again)]
             /\ IF again = "ok" THEN batch' = rest /\ UNCHANGED pc ELSE Escape
  <2>1. PICK out \in Faults, again \in Outcome :
             /\ events' = [events EXCEPT ![v] =
                             Recorded(Recorded(@, e, out), Review("vlm_unavailable"), again)]
             /\ IF again = "ok" THEN batch' = rest /\ UNCHANGED pc ELSE Escape
    BY <1>2
  <2>2. events[v] \in Seq(Event)
    BY DEF TypeOK
  <2>3. Review("vlm_unavailable") \in Event
    BY ReviewType DEF Reason
  <2>4. Recorded(Recorded(events[v], e, out), Review("vlm_unavailable"), again) \in Seq(Event)
    BY <2>2, <2>3, RecordedType
  <2>5. events' \in [Vehicle -> Seq(Event)]
    BY <2>1, <2>4 DEF TypeOK
  <2>6. pc' \in Pc /\ batch' \in SUBSET Result
    BY <2>1 DEF TypeOK, Escape, Pc
  <2> QED BY <2>5, <2>6
<1> QED BY <1>1, <1>2 DEF EmitAdvancing

(* An emission outside the try keeps the types.                             *)
LEMMA EmitUnguardedType ==
  ASSUME TypeOK, NEW v \in Vehicle, NEW e \in Event, EmitUnguarded(v, e)
  PROVE  /\ events' \in [Vehicle -> Seq(Event)]
         /\ pc' \in Pc
         /\ batch' \in SUBSET Result
<1>1. PICK out \in Outcome :
         /\ events' = [events EXCEPT ![v] = Recorded(@, e, out)]
         /\ IF out = "ok" THEN UNCHANGED <<pc, batch>> ELSE Escape
  BY DEF EmitUnguarded
<1>2. Recorded(events[v], e, out) \in Seq(Event)
  BY RecordedType DEF TypeOK
<1>3. events' \in [Vehicle -> Seq(Event)]
  BY <1>1, <1>2 DEF TypeOK
<1>4. pc' \in Pc /\ batch' \in SUBSET Result
  BY <1>1 DEF TypeOK, Escape, Pc
<1> QED BY <1>3, <1>4

(* A pending job leaves and its vehicle gets an event. *)
LEMMA ResolveType ==
  ASSUME TypeOK, NEW j \in Job, NEW e \in Event, NEW rest \in SUBSET Result,
         Resolve(j[1], j, e, rest)
  PROVE  TypeOK'
<1>1. j[1] \in Vehicle
  BY DEF Job
<1>2. /\ events' \in [Vehicle -> Seq(Event)]
      /\ pc' \in Pc
      /\ batch' \in SUBSET Result
  BY <1>1, EmitAdvancingType DEF Resolve
<1> QED
  BY <1>2 DEF TypeOK, Resolve, clientVars

(* A result that is waited for settles its vehicle or asks about it again. *)
Answered(r) ==
  \E e \in Event, rest \in SUBSET Result : Resolve(r.job[1], r.job, e, rest)

AskedAgain(r) ==
  /\ Submit(<<r.job[1], "verify">>)
  /\ pending' = (pending \ {r.job}) \union {<<r.job[1], "verify">>}
  /\ due' = due \ {r.job}
  /\ \E state \in PlateState : final' = [final EXCEPT ![r.job[1]] = state]
  /\ batch' = batch \ {r}
  /\ UNCHANGED <<workerVars, results, events>>

(* An answer is followed by a second question or is the last.               *)
LEMMA AdvanceCases ==
  ASSUME TypeOK, NEW r \in batch, Advance(r)
  PROVE  (r.job[2] = "recognize" /\ AskedAgain(r)) \/ Answered(r)
<1> DEFINE v == r.job[1]
<1>1. /\ r \in Result /\ r.job \in Job /\ r.status \in Status
      /\ v \in Vehicle /\ batch \ {r} \in SUBSET Result
  BY DEF TypeOK, Result, Job
<1>2. CASE RecognizeFailed(r)
  <2>1. GivenUp(v, FailureReason(r.status)) \in Event
    BY <1>1, FailureReasonType, GivenUpType
  <2> QED BY <1>1, <1>2, <2>1 DEF RecognizeFailed, Answered
<1>3. CASE Inconclusive(r)
  <2>1. PICK reason \in {"vlm_unreadable", "no_consensus"} :
           Resolve(v, r.job, Review(reason), batch \ {r})
    BY <1>3 DEF Inconclusive
  <2>2. Review(reason) \in Event
    BY ReviewType DEF Reason
  <2> QED BY <1>1, <2>1, <2>2 DEF Answered
<1>4. CASE Settled(r)
  <2>1. PICK state \in PlateState :
           Resolve(v, r.job, Classified(state, FALSE, "unasked"), batch \ {r})
    BY <1>4 DEF Settled
  <2>2. Classified(state, FALSE, "unasked") \in Event
    BY ClassifiedType DEF Verdict
  <2> QED BY <1>1, <2>1, <2>2 DEF Answered
<1>5. CASE r.job[2] = "recognize" /\ RequestVerification(r)
  <2>1. PICK state \in {"confirmed", "probable"} :
          \/ /\ Submit(<<v, "verify">>)
             /\ pending' = (pending \ {r.job}) \union {<<v, "verify">>}
             /\ due' = due \ {r.job}
             /\ final' = [final EXCEPT ![v] = state]
             /\ batch' = batch \ {r}
             /\ UNCHANGED <<workerVars, results, events>>
          \/ /\ Refuse
             /\ Resolve(v, r.job, Classified(state, TRUE, "noanswer"), batch \ {r})
    BY <1>5 DEF RequestVerification
  <2>2. state \in PlateState
    BY DEF PlateState
  <2>3. Classified(state, TRUE, "noanswer") \in Event
    BY <2>2, ClassifiedType DEF Verdict
  <2> QED BY <1>1, <1>5, <2>1, <2>2, <2>3 DEF Answered, AskedAgain
<1>6. CASE OnVerified(r)
  <2>1. PICK verdict \in {"yes", "no", "noanswer"} :
           Resolve(v, r.job, Classified(final[v], TRUE, verdict), batch \ {r})
    BY <1>6 DEF OnVerified
  <2>2. Classified(final[v], TRUE, verdict) \in Event
    BY <1>1, ClassifiedType DEF Verdict, TypeOK
  <2> QED BY <1>1, <2>1, <2>2 DEF Answered
<1> QED
  BY <1>2, <1>3, <1>4, <1>5, <1>6 DEF Advance

(* Advancing on an answer keeps the types.                                  *)
LEMMA AdvanceType ==
  ASSUME TypeOK, NEW r \in batch, Advance(r)
  PROVE  TypeOK'
<1>1. r.job \in Job /\ r.job[1] \in Vehicle
  BY DEF TypeOK, Result, Job
<1>2. CASE Answered(r)
  BY <1>1, <1>2, ResolveType DEF Answered
<1>3. CASE AskedAgain(r)
  <2>1. <<r.job[1], "verify">> \in Job
    BY <1>1 DEF Job, Stage
  <2> QED BY <1>1, <1>3, <2>1 DEF AskedAgain, TypeOK, Submit, workerVars
<1> QED BY <1>2, <1>3, AdvanceCases

(* Beginning a vehicle keeps the types.                                     *)
LEMMA BeginType ==
  ASSUME TypeOK, NEW v \in Vehicle, Begin(v)
  PROVE  TypeOK'
<1>1. [phase EXCEPT ![v] = "handed"] \in [Vehicle -> Phase]
  BY DEF TypeOK, Phase
<1>2. CASE BeginIgnored(v)
  BY <1>2 DEF BeginIgnored, TypeOK, Phase, finalizerVars, clientVars
<1>3. ASSUME NEW e \in Event, BeginEmits(v, e), open' = open
      PROVE  TypeOK'
  <2>1. PICK out \in Outcome :
          /\ events' = [events EXCEPT ![v] = Recorded(@, e, out)]
          /\ IF out # "ok" /\ pc = "begin"
             THEN /\ pc' = "flush"
                  /\ phase' = [w \in Vehicle |-> IF w = v THEN "handed"
                                                 ELSE IF phase[w] = "finalized" THEN "dropped"
                                                 ELSE phase[w]]
             ELSE Hand(v) /\ UNCHANGED pc
    BY <1>3 DEF BeginEmits
  <2>2. Recorded(events[v], e, out) \in Seq(Event)
    BY RecordedType DEF TypeOK
  <2>3. events' \in [Vehicle -> Seq(Event)]
    BY <2>1, <2>2 DEF TypeOK
  <2>4. phase' \in [Vehicle -> Phase] /\ pc' \in Pc
    BY <1>1, <2>1 DEF Hand, TypeOK, Phase, Pc
  <2> QED
    BY <1>3, <2>3, <2>4 DEF BeginEmits, TypeOK, finalizerVars
<1>4. CASE BeginNoPlate(v)
  BY <1>3, <1>4, NoPlateEventType DEF BeginNoPlate
<1>5. CASE BeginRefused(v)
  <2>1. Review("vlm_queue_overflow") \in Event
    BY ReviewType DEF Reason
  <2> QED BY <1>3, <1>5, <2>1 DEF BeginRefused, Refuse
<1>6. CASE BeginSubmitted(v)
  <2>1. <<v, "recognize">> \in Job
    BY DEF Job, Stage
  <2> QED BY <1>1, <1>6, <2>1 DEF BeginSubmitted, Submit, Hand, TypeOK
<1> QED
  BY <1>2, <1>4, <1>5, <1>6 DEF Begin

(* Giving up a job keeps the types.                                         *)
LEMMA GiveUpKeepsType ==
  ASSUME TypeOK, NEW j \in pending, GiveUp(j)
  PROVE  TypeOK'
<1>1. j \in Job /\ j[1] \in Vehicle
  BY DEF TypeOK, Job
<1>2. GivenUp(j[1], "vlm_timeout") \in Event
  BY <1>1, GivenUpType DEF Reason
<1>3. /\ events' \in [Vehicle -> Seq(Event)]
      /\ pc' \in Pc
      /\ batch' \in SUBSET Result
  BY <1>1, <1>2, EmitUnguardedType DEF GiveUp
<1> QED
  BY <1>3 DEF GiveUp, TypeOK, clientVars

(* Every step keeps the types.                                              *)
LEMMA TypeStep == TypeOK /\ [Next]_vars => TypeOK'
<1> SUFFICES ASSUME TypeOK, [Next]_vars PROVE TypeOK'
  OBVIOUS
<1> USE DEF TypeOK, Pc, Phase, workerVars, finalizerVars, clientVars
<1>1. CASE LoopPoll
  BY <1>1 DEF LoopPoll, TakeResults
<1>2. CASE ResultsHandled
  BY <1>2 DEF ResultsHandled
<1>3. CASE SweepDone
  BY <1>3 DEF SweepDone
<1>4. CASE FrameDone \/ LeaveLoop \/ FlushDone \/ Close \/ Stop \/ DrainDeadlinePasses
  BY <1>4 DEF FrameDone, LeaveLoop, FlushDone, Close, Stop, DrainDeadlinePasses
<1>5. CASE Flush
  BY <1>5 DEF Flush
<1>6. CASE DrainPoll
  BY <1>6 DEF DrainPoll, TakeResults
<1>7. ASSUME NEW r \in batch, HandleResult(r) PROVE TypeOK'
  <2>1. CASE DiscardLate(r)
    BY <2>1 DEF DiscardLate
  <2>2. CASE Advance(r)
    BY <2>2, AdvanceType
  <2> QED BY <1>7, <2>1, <2>2 DEF HandleResult
<1>8. ASSUME NEW j \in pending, SweepExpired(j) \/ DrainGivesUp(j) PROVE TypeOK'
  BY <1>8, GiveUpKeepsType DEF SweepExpired, DrainGivesUp
<1>9. ASSUME NEW S \in SUBSET Vehicle, Frame(S) PROVE TypeOK'
  BY <1>9 DEF Frame
<1>10. ASSUME NEW v \in Vehicle, Begin(v) PROVE TypeOK'
  BY <1>10, BeginType
<1>11. ASSUME NEW j \in pending, DeadlinePasses(j) PROVE TypeOK'
  BY <1>11 DEF DeadlinePasses
<1>12. ASSUME NEW j \in open, NEW status \in Status, Answer(j, status) PROVE TypeOK'
  BY <1>12 DEF Answer, Result
<1>13. CASE UNCHANGED vars
  BY <1>13 DEF vars
<1> QED
  BY <1>1, <1>2, <1>3, <1>4, <1>5, <1>6, <1>7, <1>8, <1>9, <1>10, <1>11, <1>12, <1>13
  DEF Next, Worker, Time, Client, Terminated

(* The first state is typed.                                                *)
LEMMA TypeInit == Init => TypeOK
<1> SUFFICES ASSUME Init PROVE TypeOK
  OBVIOUS
<1>1. <<>> \in Seq(Event)
  OBVIOUS
<1>2. events \in [Vehicle -> Seq(Event)]
  BY <1>1 DEF Init
<1>3. /\ phase \in [Vehicle -> Phase]
      /\ final \in [Vehicle -> PlateState \union {NoPlate}]
  BY DEF Init, Phase
<1> QED BY <1>2, <1>3 DEF Init, TypeOK, Pc

(* The variables keep their types: every job waited for is a job, every     *)
(* deadline that has passed belongs to a job still waited for, and every    *)
(* event is well formed, for any number of vehicles, any bound on the       *)
(* client and any way the emission callback may raise.                      *)
THEOREM TypeCorrect == Spec => []TypeOK
BY TypeInit, TypeStep, PTL DEF Spec

-----------------------------------------------------------------------------
(* The books: Books is inductive, and with it the three safety properties. *)

(* What one emission attempt for an unsettled vehicle can leave on record. *)
Emitted(v) ==
  /\ \A w \in Vehicle : w # v => events'[w] = events[w]
  /\ "after" \notin Faults => Len(events'[v]) <= 1
  /\ Faults = {} => events'[v] # <<>>

(* What is recorded for a vehicle that had no event.                        *)
LEMMA RecordedOnEmpty ==
  ASSUME NEW e \in Event, NEW out \in Outcome
  PROVE  /\ out = "before" => Recorded(<<>>, e, out) = <<>>
         /\ Len(Recorded(<<>>, e, out)) <= 1
         /\ Faults = {} => Recorded(<<>>, e, out) # <<>>
<1>1. /\ <<>> \in Seq(Event) /\ Append(<<>>, e) \in Seq(Event)
      /\ Len(<<>>) = 0 /\ Len(Append(<<>>, e)) = 1 /\ Append(<<>>, e) # <<>>
  OBVIOUS
<1>2. Faults = {} => out # "before"
  BY DEF Outcome
<1> QED BY <1>1, <1>2 DEF Recorded

(* An emission outside the try, for a vehicle without an event, adds at     *)
(* most one.                                                                *)
LEMMA UnguardedEmits ==
  ASSUME TypeOK, NEW v \in Vehicle, NEW e \in Event, events[v] = <<>>, EmitUnguarded(v, e)
  PROVE  Emitted(v)
<1>1. PICK out \in Outcome : events' = [events EXCEPT ![v] = Recorded(@, e, out)]
  BY DEF EmitUnguarded
<1>2. events'[v] = Recorded(<<>>, e, out) /\ \A w \in Vehicle : w # v => events'[w] = events[w]
  BY <1>1 DEF TypeOK
<1> QED BY <1>2, RecordedOnEmpty DEF Emitted

(* An emission inside the try, for a vehicle without an event, adds at most *)
(* one, the error event of the except clause included.                      *)
LEMMA AdvancingEmits ==
  ASSUME TypeOK, NEW v \in Vehicle, NEW e \in Event, NEW rest, events[v] = <<>>,
         EmitAdvancing(v, e, rest)
  PROVE  Emitted(v)
<1>1. CASE events' = [events EXCEPT ![v] = Append(@, e)]
  <2>1. events'[v] = Recorded(<<>>, e, "ok") /\ \A w \in Vehicle : w # v => events'[w] = events[w]
    BY <1>1 DEF TypeOK, Recorded
  <2>2. "ok" \in Outcome
    BY DEF Outcome
  <2> QED BY <2>1, <2>2, RecordedOnEmpty DEF Emitted
<1>2. CASE \E out \in Faults, again \in Outcome :
             events' = [events EXCEPT ![v] =
                         Recorded(Recorded(@, e, out), Review("vlm_unavailable"), again)]
  <2>1. PICK out \in Faults, again \in Outcome :
             events' = [events EXCEPT ![v] =
                         Recorded(Recorded(@, e, out), Review("vlm_unavailable"), again)]
    BY <1>2
  <2>2. /\ events'[v] = Recorded(Recorded(<<>>, e, out), Review("vlm_unavailable"), again)
        /\ \A w \in Vehicle : w # v => events'[w] = events[w]
    BY <2>1 DEF TypeOK
  <2>3. Faults # {} /\ out \in Outcome
    BY DEF Outcome
  <2>4. ASSUME "after" \notin Faults PROVE Len(events'[v]) <= 1
    <3>1. out = "before"
      BY <2>4, FaultsAssumption
    <3>2. Recorded(<<>>, e, out) = <<>>
      BY <2>3, <3>1, RecordedOnEmpty
    <3>3. Review("vlm_unavailable") \in Event
      BY ReviewType DEF Reason
    <3> QED BY <2>2, <3>2, <3>3, RecordedOnEmpty
  <2> QED BY <2>2, <2>3, <2>4 DEF Emitted
<1> QED BY <1>1, <1>2 DEF EmitAdvancing

(* A vehicle that was waited for is settled. *)
LEMMA SettlingKeepsBooks ==
  ASSUME Books, TypeOK', NEW j \in pending, pending' = pending \ {j},
         phase' = phase, Emitted(j[1])
  PROVE  Books'
<1>1. j \in Job /\ j[1] \in Vehicle /\ phase[j[1]] = "handed" /\ events[j[1]] = <<>>
  BY DEF Books, TypeOK, Job, Accounted, WaitingHanded, WaitingIsUnsettled
<1>2. \A i \in pending' : i \in pending /\ i[1] # j[1] /\ i[1] \in Vehicle
  BY DEF Books, Accounted, OneStage, TypeOK, Job
<1>3. OneStage' /\ WaitingHanded'
  BY <1>2 DEF Books, Accounted, OneStage, WaitingHanded
<1>4. WaitingIsUnsettled'
  BY <1>2 DEF Books, Accounted, WaitingIsUnsettled, Emitted
<1>5. UnhandedUnsettled'
  BY <1>1 DEF Books, Accounted, UnhandedUnsettled, Emitted
<1>6. ("after" \notin Faults => OneEmission)'
  BY DEF Books, OneEmission, Emitted
<1>7. (Faults = {} => NobodyLost)'
  <2> SUFFICES ASSUME Faults = {}, NEW v \in Vehicle, phase'[v] = "handed"
               PROVE  Waiting(v)' \/ events'[v] # <<>>
    BY DEF NobodyLost
  <2>1. CASE v = j[1]
    BY <2>1 DEF Emitted
  <2>2. CASE v # j[1]
    <3>1. Waiting(v) \/ events[v] # <<>>
      BY DEF Books, NobodyLost
    <3> QED BY <2>2, <3>1 DEF Waiting, Emitted
  <2> QED BY <2>1, <2>2
<1> QED
  BY <1>3, <1>4, <1>5, <1>6, <1>7 DEF Books, Accounted

(* Steps that touch neither the books nor the events. *)
LEMMA QuietKeepsBooks ==
  ASSUME Books, TypeOK', pending' = pending, events' = events, phase' = phase
  PROVE  Books'
BY DEF Books, Accounted, OneStage, WaitingHanded, WaitingIsUnsettled,
       UnhandedUnsettled, OneEmission, NobodyLost, Waiting

(* A job that ends with an event leaves its vehicle settled and unawaited.  *)
LEMMA ResolveKeepsBooks ==
  ASSUME Books, NEW j \in pending, NEW e \in Event, NEW rest \in SUBSET Result,
         Resolve(j[1], j, e, rest)
  PROVE  Books'
<1>1. TypeOK /\ j \in Job /\ j[1] \in Vehicle /\ events[j[1]] = <<>>
  BY DEF Books, TypeOK, Job, Accounted, WaitingIsUnsettled
<1>2. TypeOK'
  BY <1>1, ResolveType
<1>3. Emitted(j[1])
  BY <1>1, AdvancingEmits DEF Resolve
<1> QED BY <1>2, <1>3, SettlingKeepsBooks DEF Resolve

(* A job given up ends with an event.                                       *)
LEMMA GiveUpKeepsBooks ==
  ASSUME Books, NEW j \in pending, GiveUp(j)
  PROVE  Books'
<1>1. TypeOK /\ j \in Job /\ j[1] \in Vehicle /\ events[j[1]] = <<>>
  BY DEF Books, TypeOK, Job, Accounted, WaitingIsUnsettled
<1>2. GivenUp(j[1], "vlm_timeout") \in Event
  BY <1>1, GivenUpType DEF Reason
<1>3. TypeOK' /\ Emitted(j[1])
  BY <1>1, <1>2, GiveUpKeepsType, UnguardedEmits DEF GiveUp
<1> QED BY <1>3, SettlingKeepsBooks DEF GiveUp

(* An answer ends its job, and perhaps opens the second of its vehicle.     *)
LEMMA AdvanceKeepsBooks ==
  ASSUME Books, NEW r \in batch, Advance(r)
  PROVE  Books'
<1>1. TypeOK /\ r.job \in pending /\ TypeOK'
  BY AdvanceType DEF Books, Advance
<1>2. CASE Answered(r)
  BY <1>1, <1>2, ResolveKeepsBooks DEF Answered
<1>3. CASE r.job[2] = "recognize" /\ AskedAgain(r)
  <2> DEFINE again == <<r.job[1], "verify">>
  <2>1. /\ pending' = (pending \ {r.job}) \union {again}
        /\ events' = events /\ phase' = phase
        /\ again[1] = r.job[1]
    BY <1>3 DEF AskedAgain, workerVars
  <2>2. \A j \in pending' : \E i \in pending :
           i[1] = j[1] /\ ((i = r.job /\ j = again) \/ (i # r.job /\ j = i))
    <3> SUFFICES ASSUME NEW j \in pending'
                 PROVE  \E i \in pending :
                          i[1] = j[1] /\ ((i = r.job /\ j = again) \/ (i # r.job /\ j = i))
      OBVIOUS
    <3>1. CASE j = again
      BY <1>1, <2>1, <3>1
    <3>2. CASE j # again
      <4>1. j \in pending /\ j # r.job
        BY <2>1, <3>2
      <4> QED BY <4>1
    <3> QED BY <3>1, <3>2
  <2>3. OneStage'
    BY <2>2 DEF Books, Accounted, OneStage
  <2>4. WaitingHanded' /\ WaitingIsUnsettled' /\ UnhandedUnsettled'
    BY <2>1, <2>2 DEF Books, Accounted, WaitingHanded, WaitingIsUnsettled, UnhandedUnsettled
  <2>5. \A v \in Vehicle : Waiting(v) => Waiting(v)'
    BY <1>1, <2>1 DEF Waiting
  <2> QED
    BY <1>1, <2>1, <2>3, <2>4, <2>5 DEF Books, Accounted, OneEmission, NobodyLost
<1> QED BY <1>1, <1>2, <1>3, AdvanceCases

(* A vehicle is handed over once, and then waits or has its event.          *)
LEMMA BeginKeepsBooks ==
  ASSUME Books, NEW v \in Vehicle, Begin(v)
  PROVE  Books'
<1>1. TypeOK /\ TypeOK'
  BY BeginType DEF Books
<1>2. /\ phase[v] = "finalized" /\ events[v] = <<>>
      /\ \A j \in pending : j[1] # v /\ j[1] \in Vehicle
  BY DEF Begin, Books, Accounted, UnhandedUnsettled, WaitingHanded, TypeOK, Job
<1>3. CASE BeginIgnored(v)
  <2>1. /\ \A w \in Vehicle : phase'[w] = IF w = v THEN "ignored" ELSE phase[w]
        /\ pending' = pending /\ events' = events
    BY <1>1, <1>3 DEF BeginIgnored, TypeOK, finalizerVars
  <2>2. Accounted'
    BY <1>2, <2>1 DEF Books, Accounted, OneStage, WaitingHanded, WaitingIsUnsettled,
                      UnhandedUnsettled
  <2> QED BY <1>1, <2>1, <2>2 DEF Books, OneEmission, NobodyLost, Waiting
<1>4. ASSUME NEW e \in Event, BeginEmits(v, e)
      PROVE  Books'
  <2>1. PICK out \in Outcome :
          /\ events' = [events EXCEPT ![v] = Recorded(@, e, out)]
          /\ IF out # "ok" /\ pc = "begin"
             THEN /\ pc' = "flush"
                  /\ phase' = [w \in Vehicle |-> IF w = v THEN "handed"
                                                 ELSE IF phase[w] = "finalized" THEN "dropped"
                                                 ELSE phase[w]]
             ELSE Hand(v) /\ UNCHANGED pc
    BY <1>4 DEF BeginEmits
  <2>2. pending' = pending
    BY <1>4 DEF BeginEmits, finalizerVars
  <2>3. \A w \in Vehicle :
          /\ events'[w] = IF w = v THEN Recorded(<<>>, e, out) ELSE events[w]
          /\ w = v => phase'[w] = "handed"
          /\ w # v => phase'[w] = phase[w] \/ (phase[w] = "finalized" /\ phase'[w] = "dropped")
    <3>1. \A w \in Vehicle : events'[w] = IF w = v THEN Recorded(<<>>, e, out) ELSE events[w]
      BY <1>1, <1>2, <2>1 DEF TypeOK
    <3>2. CASE phase' = [phase EXCEPT ![v] = "handed"]
      BY <1>1, <3>1, <3>2 DEF TypeOK
    <3>3. CASE phase' = [w \in Vehicle |-> IF w = v THEN "handed"
                                          ELSE IF phase[w] = "finalized" THEN "dropped"
                                          ELSE phase[w]]
      BY <3>1, <3>3
    <3> QED BY <2>1, <3>2, <3>3 DEF Hand
  <2>4. Accounted'
    BY <1>2, <2>2, <2>3 DEF Books, Accounted, OneStage, WaitingHanded, WaitingIsUnsettled,
                            UnhandedUnsettled
  <2>5. ("after" \notin Faults => OneEmission)'
    BY <2>3, RecordedOnEmpty DEF Books, OneEmission
  <2>6. (Faults = {} => NobodyLost)'
    <3> SUFFICES ASSUME Faults = {}, NEW w \in Vehicle, phase'[w] = "handed"
                 PROVE  Waiting(w)' \/ events'[w] # <<>>
      BY DEF NobodyLost
    <3>1. CASE w = v
      BY <2>3, <3>1, RecordedOnEmpty
    <3>2. CASE w # v
      <4>1. Waiting(w) \/ events[w] # <<>>
        BY <2>3, <3>2 DEF Books, NobodyLost
      <4> QED BY <2>2, <2>3, <3>2, <4>1 DEF Waiting
    <3> QED BY <3>1, <3>2
  <2> QED BY <1>1, <2>4, <2>5, <2>6 DEF Books
<1>5. CASE BeginNoPlate(v)
  BY <1>4, <1>5, NoPlateEventType DEF BeginNoPlate
<1>6. CASE BeginRefused(v)
  <2>1. Review("vlm_queue_overflow") \in Event
    BY ReviewType DEF Reason
  <2> QED BY <1>4, <1>6, <2>1 DEF BeginRefused
<1>7. CASE BeginSubmitted(v)
  <2> DEFINE asked == <<v, "recognize">>
  <2>1. /\ \A w \in Vehicle : phase'[w] = IF w = v THEN "handed" ELSE phase[w]
        /\ pending' = pending \union {asked} /\ events' = events /\ asked[1] = v
    BY <1>1, <1>7 DEF BeginSubmitted, Hand, TypeOK
  <2>2. OneStage'
    BY <1>2, <2>1 DEF Books, Accounted, OneStage
  <2>3. WaitingHanded' /\ WaitingIsUnsettled' /\ UnhandedUnsettled'
    BY <1>2, <2>1 DEF Books, Accounted, WaitingHanded, WaitingIsUnsettled, UnhandedUnsettled
  <2>4. \A w \in Vehicle : Waiting(w) \/ w = v => Waiting(w)'
    BY <2>1 DEF Waiting
  <2> QED BY <1>1, <2>1, <2>2, <2>3, <2>4 DEF Books, Accounted, OneEmission, NobodyLost
<1> QED
  BY <1>3, <1>5, <1>6, <1>7 DEF Begin

(* Every step keeps the books.                                              *)
LEMMA BooksStep == Books /\ [Next]_vars => Books'
<1> SUFFICES ASSUME Books, [Next]_vars PROVE Books'
  OBVIOUS
<1>1. TypeOK /\ TypeOK'
  BY TypeStep DEF Books
<1> USE DEF workerVars, finalizerVars, clientVars
<1>2. CASE LoopPoll \/ DrainPoll
  BY <1>1, <1>2, QuietKeepsBooks DEF LoopPoll, DrainPoll
<1>3. CASE ResultsHandled \/ SweepDone \/ FrameDone \/ LeaveLoop \/ FlushDone \/ Close
  BY <1>1, <1>3, QuietKeepsBooks DEF ResultsHandled, SweepDone, FrameDone, LeaveLoop, FlushDone, Close
<1>4. CASE Stop \/ DrainDeadlinePasses \/ UNCHANGED vars
  BY <1>1, <1>4, QuietKeepsBooks DEF Stop, DrainDeadlinePasses, vars
<1>5. ASSUME NEW S \in SUBSET Vehicle, Frame(S) PROVE Books'
  <2>1. /\ pending' = pending /\ events' = events
        /\ \A v \in Vehicle : phase'[v] = phase[v] \/ (phase[v] = "tracked" /\ phase'[v] = "finalized")
    <3>1. pending' = pending /\ events' = events
      BY <1>5 DEF Frame
    <3>2. \A v \in Vehicle : phase'[v] = phase[v] \/ (phase[v] = "tracked" /\ phase'[v] = "finalized")
      BY <1>5 DEF Frame
    <3> QED BY <3>1, <3>2
  <2> QED
    BY <1>1, <2>1, ZenonT(60) DEF Books, Accounted, OneStage, WaitingHanded, WaitingIsUnsettled,
                      UnhandedUnsettled, OneEmission, NobodyLost, Waiting, TypeOK, Job
<1>6. CASE Flush
  <2>1. /\ pending' = pending /\ events' = events
        /\ \A v \in Vehicle : phase'[v] = phase[v] \/ (phase[v] = "tracked" /\ phase'[v] = "finalized")
    <3>1. pending' = pending /\ events' = events
      BY <1>6 DEF Flush
    <3>2. \A v \in Vehicle : phase'[v] = phase[v] \/ (phase[v] = "tracked" /\ phase'[v] = "finalized")
      BY <1>6 DEF Flush
    <3> QED BY <3>1, <3>2
  <2> QED
    BY <1>1, <2>1, ZenonT(60) DEF Books, Accounted, OneStage, WaitingHanded, WaitingIsUnsettled,
                      UnhandedUnsettled, OneEmission, NobodyLost, Waiting, TypeOK, Job
<1>7. ASSUME NEW r \in batch, HandleResult(r) PROVE Books'
  <2>1. CASE DiscardLate(r)
    BY <1>1, <2>1, QuietKeepsBooks DEF DiscardLate
  <2> QED BY <1>7, <2>1, AdvanceKeepsBooks DEF HandleResult
<1>8. ASSUME NEW j \in pending, SweepExpired(j) \/ DrainGivesUp(j) PROVE Books'
  BY <1>8, GiveUpKeepsBooks DEF SweepExpired, DrainGivesUp
<1>9. ASSUME NEW v \in Vehicle, Begin(v) PROVE Books'
  BY <1>9, BeginKeepsBooks
<1>10. ASSUME NEW j \in pending, DeadlinePasses(j) PROVE Books'
  BY <1>1, <1>10, QuietKeepsBooks DEF DeadlinePasses
<1>11. ASSUME NEW j \in open, NEW status \in Status, Answer(j, status) PROVE Books'
  BY <1>1, <1>11, QuietKeepsBooks DEF Answer
<1> QED
  BY <1>2, <1>3, <1>4, <1>5, <1>6, <1>7, <1>8, <1>9, <1>10, <1>11
  DEF Next, Worker, Time, Client, Terminated

(* The books are always kept.                                               *)
LEMMA BooksAlways == Spec => []Books
<1>1. ASSUME Init PROVE Books
  <2>1. TypeOK
    BY <1>1, TypeInit
  <2>2. Accounted
    BY <1>1 DEF Init, Accounted, OneStage, WaitingHanded, WaitingIsUnsettled, UnhandedUnsettled
  <2>3. OneEmission /\ NobodyLost
    BY <1>1 DEF Init, OneEmission, NobodyLost
  <2> QED BY <2>1, <2>2, <2>3 DEF Books
<1> QED BY <1>1, BooksStep, PTL DEF Spec

(* Whatever the emission callback does, in a poll, a sweep, a begin or a    *)
(* drain, the finalizer waits for a vehicle in one stage at a time, only    *)
(* after it was handed over and only while it has no event.                 *)
THEOREM AccountedCorrect == Spec => []Accounted
<1>1. Books => Accounted
  BY DEF Books
<1> QED BY <1>1, BooksAlways, PTL

(* No vehicle gets two events, for any number of vehicles and any bound on  *)
(* the client, provided the callback never raises after it has delivered.   *)
THEOREM OneEmissionCorrect ==
  ASSUME "after" \notin Faults
  PROVE  Spec => []OneEmission
<1>1. Books => OneEmission
  BY DEF Books
<1> QED BY <1>1, BooksAlways, PTL

(* When the callback does not raise, a vehicle that was handed over is      *)
(* either waited for or has its event: nobody is lost and nobody is both.   *)
THEOREM NobodyInLimboCorrect ==
  ASSUME Faults = {}
  PROVE  Spec => []NobodyInLimbo
<1>1. Books => NobodyInLimbo
  <2> SUFFICES ASSUME Books, NEW v \in Vehicle, phase[v] = "handed"
               PROVE  Waiting(v) # (events[v] # <<>>)
    BY DEF NobodyInLimbo
  <2>1. Waiting(v) \/ events[v] # <<>>
    BY DEF Books, NobodyLost
  <2>2. Waiting(v) => events[v] = <<>>
    BY DEF Books, Accounted, WaitingIsUnsettled, Waiting
  <2>3. Waiting(v) \in BOOLEAN
    BY DEF Waiting
  <2> QED BY <2>1, <2>2, <2>3
<1> QED BY <1>1, BooksAlways, PTL

-----------------------------------------------------------------------------
(* Class A is earned: it is never the recording of an event, always its     *)
(* construction that could go wrong, so that what is on record is a         *)
(* sequence of deserving events.                                            *)
Deserving ==
  {e \in Event : e.class = "A" => /\ e.validated = "confirmed"
                                  /\ e.triggered => e.verdict = "yes"}

Earned == events \in [Vehicle -> Seq(Deserving)]

(* An event for review claims nothing it must earn.                         *)
LEMMA ReviewDeserves ==
  ASSUME NEW reason \in Reason
  PROVE  Review(reason) \in Deserving
<1>1. Review(reason) \in Event /\ Review(reason).class = "B"
  BY ReviewType DEF Review
<1> QED BY <1>1 DEF Deserving

(* Nor does one without a plate.                                            *)
LEMMA NoPlateEventDeserves == NoPlateEvent \in Deserving
<1>1. NoPlateEvent \in Event /\ NoPlateEvent.class = "C"
  BY NoPlateEventType DEF NoPlateEvent, Review
<1> QED BY <1>1 DEF Deserving

(* A plate that was to be verified is class A only with a yes; the policy   *)
(* "keep" would let it pass without an answer.                              *)
LEMMA ClassifiedDeserves ==
  ASSUME OnUnavailable = "downgrade",
         NEW state \in PlateState \union {NoPlate},
         NEW triggered \in BOOLEAN, NEW verdict \in Verdict,
         triggered => verdict # "unasked"
  PROVE  Classified(state, triggered, verdict) \in Deserving
<1> DEFINE c == Classified(state, triggered, verdict)
<1>1. c \in Event
  BY ClassifiedType
<1>2. /\ c.validated = state /\ c.triggered = triggered /\ c.verdict = verdict
      /\ c.class = "A" => state = "confirmed" /\ ~(triggered /\ Downgrades(state, verdict))
  BY DEF Classified
<1>3. state = "confirmed" /\ triggered /\ ~Downgrades(state, verdict) => verdict = "yes"
  BY DEF Downgrades, Rejected, Verdict
<1>4. c.class = "A" => c.validated = "confirmed" /\ (c.triggered => c.verdict = "yes")
  BY <1>2, <1>3
<1> QED BY <1>1, <1>4 DEF Deserving

(* Nor, under the shipped policy, does that of a vehicle given up.          *)
LEMMA GivenUpDeserves ==
  ASSUME OnUnavailable = "downgrade", TypeOK, NEW v \in Vehicle, NEW reason \in Reason
  PROVE  GivenUp(v, reason) \in Deserving
<1>1. final[v] \in PlateState \union {NoPlate}
  BY DEF TypeOK
<1>2. Classified(final[v], TRUE, "noanswer") \in Deserving
  BY <1>1, ClassifiedDeserves DEF Verdict
<1> QED BY <1>2, ReviewDeserves DEF GivenUp

(* Recording a deserving event leaves deserving events.                     *)
LEMMA RecordedDeserves ==
  ASSUME NEW seq \in Seq(Deserving), NEW e \in Deserving, NEW out
  PROVE  Recorded(seq, e, out) \in Seq(Deserving)
BY DEF Recorded

(* An emission inside the try records a deserving event, or the error.      *)
LEMMA AdvancingEarned ==
  ASSUME Earned, NEW v \in Vehicle, NEW e \in Deserving, NEW rest, EmitAdvancing(v, e, rest)
  PROVE  Earned'
<1>1. CASE events' = [events EXCEPT ![v] = Append(@, e)]
  BY <1>1 DEF Earned
<1>2. ASSUME NEW out, NEW again,
             events' = [events EXCEPT ![v] =
                          Recorded(Recorded(@, e, out), Review("vlm_unavailable"), again)]
      PROVE  Earned'
  <2>1. Review("vlm_unavailable") \in Deserving
    BY ReviewDeserves DEF Reason
  <2>2. Recorded(Recorded(events[v], e, out), Review("vlm_unavailable"), again) \in Seq(Deserving)
    BY <2>1, RecordedDeserves DEF Earned
  <2> QED BY <1>2, <2>2 DEF Earned
<1> QED BY <1>1, <1>2 DEF EmitAdvancing

(* Advancing on an answer records only deserving events.                    *)
LEMMA AdvanceEarned ==
  ASSUME OnUnavailable = "downgrade", TypeOK, Earned, NEW r \in batch, Advance(r)
  PROVE  Earned'
<1> DEFINE v == r.job[1]
<1>1. v \in Vehicle /\ final[v] \in PlateState \union {NoPlate}
  BY DEF TypeOK, Result, Job
<1>2. ASSUME NEW e \in Deserving, Resolve(v, r.job, e, batch \ {r})
      PROVE  Earned'
  BY <1>1, <1>2, AdvancingEarned DEF Resolve
<1>3. CASE RecognizeFailed(r)
  <2>1. GivenUp(v, FailureReason(r.status)) \in Deserving
    BY <1>1, FailureReasonType, GivenUpDeserves
  <2> QED BY <1>2, <1>3, <2>1 DEF RecognizeFailed
<1>4. CASE Inconclusive(r)
  <2>1. \A reason \in {"vlm_unreadable", "no_consensus"} : Review(reason) \in Deserving
    BY ReviewDeserves DEF Reason
  <2> QED BY <1>2, <1>4, <2>1 DEF Inconclusive
<1>5. CASE Settled(r)
  <2>1. \A state \in PlateState : Classified(state, FALSE, "unasked") \in Deserving
    BY ClassifiedDeserves DEF Verdict
  <2> QED BY <1>2, <1>5, <2>1 DEF Settled
<1>6. CASE RequestVerification(r)
  <2>1. \A state \in {"confirmed", "probable"} :
           Classified(state, TRUE, "noanswer") \in Deserving
    BY ClassifiedDeserves DEF Verdict, PlateState
  <2>2. events' = events => Earned'
    BY DEF Earned
  <2> QED BY <1>2, <1>6, <2>1, <2>2 DEF RequestVerification
<1>7. CASE OnVerified(r)
  <2>1. \A verdict \in {"yes", "no", "noanswer"} :
           Classified(final[v], TRUE, verdict) \in Deserving
    BY <1>1, ClassifiedDeserves DEF Verdict
  <2> QED BY <1>2, <1>7, <2>1 DEF OnVerified
<1> QED
  BY <1>3, <1>4, <1>5, <1>6, <1>7 DEF Advance

(* Beginning a vehicle records only deserving events.                       *)
LEMMA BeginEarned ==
  ASSUME Earned, NEW v \in Vehicle, Begin(v)
  PROVE  Earned'
<1>1. events' = events => Earned'
  BY DEF Earned
<1>2. ASSUME NEW e \in Deserving, BeginEmits(v, e)
      PROVE  Earned'
  <2>1. PICK out \in Outcome : events' = [events EXCEPT ![v] = Recorded(@, e, out)]
    BY <1>2 DEF BeginEmits
  <2>2. Recorded(events[v], e, out) \in Seq(Deserving)
    BY RecordedDeserves DEF Earned
  <2> QED BY <2>1, <2>2 DEF Earned
<1>3. Review("vlm_queue_overflow") \in Deserving
  BY ReviewDeserves DEF Reason
<1> QED
  BY <1>1, <1>2, <1>3, NoPlateEventDeserves
  DEF Begin, BeginIgnored, BeginNoPlate, BeginRefused, BeginSubmitted

(* Every step records only deserving events.                                *)
LEMMA EarnedStep ==
  ASSUME OnUnavailable = "downgrade"
  PROVE  TypeOK /\ Earned /\ [Next]_vars => Earned'
<1> SUFFICES ASSUME TypeOK, Earned, [Next]_vars PROVE Earned'
  OBVIOUS
<1>1. events' = events => Earned'
  BY DEF Earned
<1>2. ASSUME NEW r \in batch, HandleResult(r) PROVE Earned'
  BY <1>1, <1>2, AdvanceEarned DEF HandleResult, DiscardLate
<1>3. ASSUME NEW j \in pending, SweepExpired(j) \/ DrainGivesUp(j) PROVE Earned'
  <2>1. j[1] \in Vehicle
    BY DEF TypeOK, Job
  <2>2. GivenUp(j[1], "vlm_timeout") \in Deserving
    BY <2>1, GivenUpDeserves DEF Reason
  <2>3. PICK out \in Outcome :
           events' = [events EXCEPT ![j[1]] = Recorded(@, GivenUp(j[1], "vlm_timeout"), out)]
    BY <1>3 DEF SweepExpired, DrainGivesUp, GiveUp, EmitUnguarded
  <2>4. Recorded(events[j[1]], GivenUp(j[1], "vlm_timeout"), out) \in Seq(Deserving)
    BY <2>1, <2>2, RecordedDeserves DEF Earned
  <2> QED BY <2>3, <2>4 DEF Earned
<1>4. ASSUME NEW v \in Vehicle, Begin(v) PROVE Earned'
  BY <1>4, BeginEarned
<1>5. CASE LoopPoll \/ ResultsHandled \/ SweepDone \/ FrameDone \/ LeaveLoop \/ Flush
           \/ FlushDone \/ DrainPoll \/ Close \/ Stop \/ Time \/ Client \/ UNCHANGED vars
           \/ \E S \in SUBSET Vehicle : Frame(S)
  <2>1. events' = events
    BY <1>5 DEF LoopPoll, ResultsHandled, SweepDone, FrameDone, LeaveLoop, Flush, FlushDone,
                DrainPoll, Close, Stop, Time, DrainDeadlinePasses, DeadlinePasses,
                Client, Answer, Frame, vars
  <2> QED BY <1>1, <2>1
<1> QED
  BY <1>2, <1>3, <1>4, <1>5 DEF Next, Worker, Terminated

(* No class A without a confirmed plate, nor for a plate that was to be     *)
(* verified without a yes: through refusals, failures, timeouts, the drain  *)
(* and raising callbacks, for any number of vehicles, under the shipped     *)
(* policy (VerificationConfig.on_unavailable = "downgrade").                *)
THEOREM ClassAIsEarnedCorrect ==
  ASSUME OnUnavailable = "downgrade"
  PROVE  Spec => []ClassAIsEarned
<1>1. Init => TypeOK /\ Earned
  <2>1. <<>> \in Seq(Deserving)
    OBVIOUS
  <2>2. Init => Earned
    BY <2>1 DEF Init, Earned
  <2> QED BY <2>2, TypeInit
<1>2. (TypeOK /\ Earned) /\ [Next]_vars => (TypeOK /\ Earned)'
  BY EarnedStep, TypeStep
<1>3. TypeOK /\ Earned => ClassAIsEarned
  <2> SUFFICES ASSUME Earned, NEW v \in Vehicle, NEW i \in DOMAIN events[v]
               PROVE  events[v][i] \in Deserving
    BY DEF ClassAIsEarned, Deserving
  <2>1. events[v] \in Seq(Deserving)
    BY DEF Earned
  <2> QED BY <2>1
<1> QED BY <1>1, <1>2, <1>3, PTL DEF Spec

-----------------------------------------------------------------------------
(* The promise of one result, step by step.                                 *)
Handed == {v \in Vehicle : phase[v] = "handed"}
Shown == [v \in Vehicle |-> {<<i, events[v][i].class>> : i \in DOMAIN events[v]}]

(* The one event of a vehicle is its one result.                            *)
LEMMA OneEventShown ==
  ASSUME TypeOK, NEW v \in Vehicle, NEW e \in Event, events[v] = <<>>,
         events' = [events EXCEPT ![v] = Append(@, e)]
  PROVE  /\ Shown[v] = {}
         /\ Shown' = [Shown EXCEPT ![v] = {<<1, e.class>>}]
         /\ <<1, e.class>> \in {1} \X Class
<1>1. e.class \in Class
  BY DEF Event
<1>2. PICK s : s = Append(<<>>, e) /\ DOMAIN s = {1} /\ s[1] = e
  <2>1. PICK s : s = Append(<<>>, e)
    OBVIOUS
  <2>2. s \in Seq(Event) /\ Len(s) = 1 /\ s[1] = e
    <3>1. <<>> \in Seq(Event)
      OBVIOUS
    <3> QED BY <2>1, <3>1
  <2>3. DOMAIN s = 1 .. 1 /\ 1 .. 1 = {1}
    BY <2>2
  <2> QED BY <2>1, <2>2, <2>3
<1>3. \A w \in Vehicle : events'[w] = IF w = v THEN s ELSE events[w]
  BY <1>2 DEF TypeOK
<1>4. {<<i, s[i].class>> : i \in DOMAIN s} = {<<1, e.class>>}
  BY <1>2
<1>5. ASSUME NEW w \in Vehicle
      PROVE  Shown'[w] = IF w = v THEN {<<1, e.class>>} ELSE Shown[w]
  <2>1. Shown'[w] = {<<i, events'[w][i].class>> : i \in DOMAIN events'[w]}
    BY DEF Shown
  <2>2. CASE w = v
    BY <1>3, <1>4, <2>1, <2>2
  <2>3. CASE w # v
    <3>1. Shown[w] = {<<i, events[w][i].class>> : i \in DOMAIN events[w]}
      BY DEF Shown
    <3> QED BY <1>3, <2>1, <2>3, <3>1
  <2> QED BY <2>2, <2>3
<1>6. Shown' = [w \in Vehicle |-> Shown'[w]] /\ Shown = [w \in Vehicle |-> Shown[w]]
  BY DEF Shown
<1>7. Shown[v] = {}
  BY DEF Shown
<1> HIDE DEF Shown
<1> QED BY <1>1, <1>5, <1>6, <1>7

(* An event for a vehicle that waits settles it.                            *)
LEMMA EmissionSettles ==
  ASSUME TypeOK, NEW v \in Vehicle, NEW e \in Event, events[v] = <<>>, phase[v] = "handed",
         phase' = phase, events' = [events EXCEPT ![v] = Append(@, e)]
  PROVE  Promise!Settle(v)
<1>1. /\ Shown[v] = {} /\ Shown' = [Shown EXCEPT ![v] = {<<1, e.class>>}]
      /\ <<1, e.class>> \in {1} \X Class
  BY OneEventShown
<1>2. v \in Handed /\ Handed' = Handed
  BY DEF Handed
<1> QED BY <1>1, <1>2 DEF Promise!Settle, Handed, Shown

(* begin() hands a vehicle over, with its event or without.                 *)
LEMMA BeginHands ==
  ASSUME TypeOK, NEW v \in Vehicle, events[v] = <<>>, phase[v] = "finalized",
         \A w \in Vehicle : phase'[w] = "handed" <=> w = v \/ phase[w] = "handed",
         \/ events' = events
         \/ \E e \in Event : events' = [events EXCEPT ![v] = Append(@, e)]
  PROVE  Promise!Hand(v)
<1>1. v \notin Handed /\ Handed' = Handed \union {v}
  BY DEF Handed, TypeOK
<1>2. CASE events' = events
  <2>1. Shown' = Shown
    BY <1>2 DEF Shown
  <2> QED BY <1>1, <2>1 DEF Promise!Hand, Handed, Shown
<1>3. CASE \E e \in Event : events' = [events EXCEPT ![v] = Append(@, e)]
  <2>1. PICK e \in Event : events' = [events EXCEPT ![v] = Append(@, e)]
    BY <1>3
  <2>2. Shown' = [Shown EXCEPT ![v] = {<<1, e.class>>}] /\ <<1, e.class>> \in {1} \X Class
    BY <2>1, OneEventShown
  <2> QED BY <1>1, <2>2 DEF Promise!Hand, Handed, Shown
<1> QED BY <1>2, <1>3

(* All else shows nothing.                                                  *)
LEMMA QuietShowsNothing ==
  ASSUME events' = events, \A v \in Vehicle : phase'[v] = "handed" <=> phase[v] = "handed"
  PROVE  UNCHANGED Promise!vars
BY DEF Promise!vars

(* One event is added for v, or none.                                       *)
AddsAtMostOne(v) ==
  \/ events' = events
  \/ \E e \in Event : events' = [events EXCEPT ![v] = Append(@, e)]

(* When the callback does not raise after it delivered, an emission adds at *)
(* most one event, the one it was asked for or the except clause's.         *)
LEMMA PlainEmission ==
  ASSUME "after" \notin Faults, TypeOK, NEW v \in Vehicle, NEW e \in Event, NEW rest,
         EmitUnguarded(v, e) \/ EmitAdvancing(v, e, rest)
  PROVE  AddsAtMostOne(v)
<1>1. \A out \in Outcome : out = "ok" \/ out = "before"
  BY FaultsAssumption DEF Outcome
<1>2. \A out \in Faults : out = "before"
  BY FaultsAssumption
<1>3. events = [events EXCEPT ![v] = @]
  BY DEF TypeOK
<1>4. CASE EmitUnguarded(v, e)
  <2>1. PICK out \in Outcome : events' = [events EXCEPT ![v] = Recorded(@, e, out)]
    BY <1>4 DEF EmitUnguarded
  <2> QED BY <1>1, <1>3, <2>1 DEF Recorded, AddsAtMostOne
<1>5. CASE EmitAdvancing(v, e, rest)
  <2>1. CASE events' = [events EXCEPT ![v] = Append(@, e)]
    BY <2>1 DEF AddsAtMostOne
  <2>2. CASE \E out \in Faults, again \in Outcome :
               events' = [events EXCEPT ![v] =
                           Recorded(Recorded(@, e, out), Review("vlm_unavailable"), again)]
    <3>1. PICK again \in Outcome :
             events' = [events EXCEPT ![v] = Recorded(@, Review("vlm_unavailable"), again)]
      BY <1>2, <2>2 DEF Recorded
    <3>2. Review("vlm_unavailable") \in Event
      BY ReviewType DEF Reason
    <3> QED BY <1>1, <1>3, <3>1, <3>2 DEF Recorded, AddsAtMostOne
  <2> QED BY <1>5, <2>1, <2>2 DEF EmitAdvancing
<1> QED BY <1>4, <1>5

(* An answer, a failure or a deadline settles a vehicle that waits, or the  *)
(* callback raised and left it without a result.                            *)
LEMMA SettlingKeepsPromise ==
  ASSUME Books, "after" \notin Faults, NEW j \in pending, NEW e \in Event, NEW rest,
         EmitUnguarded(j[1], e) \/ EmitAdvancing(j[1], e, rest), phase' = phase
  PROVE  [Promise!Next]_(Promise!vars)
<1>1. TypeOK /\ j[1] \in Vehicle /\ events[j[1]] = <<>> /\ phase[j[1]] = "handed"
  BY DEF Books, TypeOK, Job, Accounted, WaitingIsUnsettled, WaitingHanded
<1>2. AddsAtMostOne(j[1])
  BY <1>1, PlainEmission
<1>3. CASE events' = events
  BY <1>3, QuietShowsNothing
<1>4. CASE \E f \in Event : events' = [events EXCEPT ![j[1]] = Append(@, f)]
  BY <1>1, <1>4, EmissionSettles DEF Promise!Next
<1> QED BY <1>2, <1>3, <1>4 DEF AddsAtMostOne

(* Every step keeps the promise or is none of it.                           *)
LEMMA PromiseStep ==
  ASSUME Books, "after" \notin Faults, [Next]_vars
  PROVE  [Promise!Next]_(Promise!vars)
<1>1. TypeOK
  BY DEF Books
<1> USE DEF workerVars, finalizerVars, clientVars
<1>2. CASE LoopPoll \/ DrainPoll \/ ResultsHandled \/ SweepDone \/ FrameDone \/ LeaveLoop
           \/ FlushDone \/ Close \/ Stop \/ DrainDeadlinePasses \/ UNCHANGED vars
  <2>1. events' = events /\ phase' = phase
    BY <1>2 DEF LoopPoll, DrainPoll, ResultsHandled, SweepDone, FrameDone, LeaveLoop,
                FlushDone, Close, Stop, DrainDeadlinePasses, vars
  <2> QED BY <2>1, QuietShowsNothing
<1>3. ASSUME NEW S \in SUBSET Vehicle, Frame(S) PROVE [Promise!Next]_(Promise!vars)
  BY <1>3, QuietShowsNothing DEF Frame
<1>4. CASE Flush
  BY <1>4, QuietShowsNothing DEF Flush
<1>5. ASSUME NEW r \in batch, HandleResult(r) PROVE [Promise!Next]_(Promise!vars)
  <2>1. CASE DiscardLate(r)
    <3>1. events' = events /\ phase' = phase
      BY <2>1 DEF DiscardLate
    <3> QED BY <3>1, QuietShowsNothing
  <2>2. CASE Advance(r)
    <3>1. r.job \in pending
      BY <2>2 DEF Advance
    <3>2. CASE AskedAgain(r)
      <4>1. events' = events /\ phase' = phase
        BY <3>2 DEF AskedAgain
      <4> QED BY <4>1, QuietShowsNothing
    <3>3. CASE Answered(r)
      <4>1. PICK e \in Event, rest \in SUBSET Result : Resolve(r.job[1], r.job, e, rest)
        BY <3>3 DEF Answered
      <4> QED BY <3>1, <4>1, SettlingKeepsPromise DEF Resolve
    <3> QED BY <1>1, <2>2, <3>2, <3>3, AdvanceCases
  <2> QED BY <1>5, <2>1, <2>2 DEF HandleResult
<1>6. ASSUME NEW j \in pending, SweepExpired(j) \/ DrainGivesUp(j)
      PROVE  [Promise!Next]_(Promise!vars)
  <2>1. GiveUp(j)
    BY <1>6 DEF SweepExpired, DrainGivesUp
  <2>2. GivenUp(j[1], "vlm_timeout") \in Event
    BY <1>1, GivenUpType DEF Reason, TypeOK, Job
  <2> QED BY <2>1, <2>2, SettlingKeepsPromise DEF GiveUp
<1>7. ASSUME NEW v \in Vehicle, Begin(v) PROVE [Promise!Next]_(Promise!vars)
  <2>1. phase[v] = "finalized" /\ events[v] = <<>>
    BY <1>7 DEF Begin, Books, Accounted, UnhandedUnsettled
  <2>2. CASE BeginIgnored(v)
    <3>1. events' = events /\ phase' = [phase EXCEPT ![v] = "ignored"]
      BY <2>2 DEF BeginIgnored
    <3>2. \A w \in Vehicle : phase'[w] = "handed" <=> phase[w] = "handed"
      BY <1>1, <2>1, <3>1 DEF TypeOK
    <3> QED BY <3>1, <3>2, QuietShowsNothing
  <2>3. ASSUME NEW e \in Event, BeginEmits(v, e) PROVE Promise!Next
    <3>1. \A out \in Outcome : out = "ok" \/ out = "before"
      BY FaultsAssumption DEF Outcome
    <3>2. events = [events EXCEPT ![v] = @]
      BY <1>1 DEF TypeOK
    <3>3. PICK out \in Outcome :
             /\ events' = [events EXCEPT ![v] = Recorded(@, e, out)]
             /\ \/ phase' = [w \in Vehicle |-> IF w = v THEN "handed"
                                               ELSE IF phase[w] = "finalized" THEN "dropped"
                                               ELSE phase[w]]
                \/ phase' = [phase EXCEPT ![v] = "handed"]
      BY <2>3 DEF BeginEmits, Hand
    <3>4. events' = events \/ events' = [events EXCEPT ![v] = Append(@, e)]
      BY <3>1, <3>2, <3>3 DEF Recorded
    <3>5. \A w \in Vehicle : phase'[w] = "handed" <=> w = v \/ phase[w] = "handed"
      BY <1>1, <3>3 DEF TypeOK
    <3> QED BY <1>1, <2>1, <3>4, <3>5, BeginHands DEF Promise!Next
  <2>4. CASE BeginNoPlate(v)
    BY <2>3, <2>4, NoPlateEventType DEF BeginNoPlate
  <2>5. CASE BeginRefused(v)
    <3>1. Review("vlm_queue_overflow") \in Event
      BY ReviewType DEF Reason
    <3> QED BY <2>3, <2>5, <3>1 DEF BeginRefused
  <2>6. CASE BeginSubmitted(v)
    <3>1. events' = events /\ phase' = [phase EXCEPT ![v] = "handed"]
      BY <2>6 DEF BeginSubmitted, Hand
    <3>2. \A w \in Vehicle : phase'[w] = "handed" <=> w = v \/ phase[w] = "handed"
      BY <1>1, <3>1 DEF TypeOK
    <3> QED BY <1>1, <2>1, <3>1, <3>2, BeginHands DEF Promise!Next
  <2> QED BY <1>7, <2>2, <2>4, <2>5, <2>6 DEF Begin
<1>8. ASSUME NEW j \in pending, DeadlinePasses(j) PROVE [Promise!Next]_(Promise!vars)
  <2>1. events' = events /\ phase' = phase
    BY <1>8 DEF DeadlinePasses
  <2> QED BY <2>1, QuietShowsNothing
<1>9. ASSUME NEW j \in open, NEW status \in Status, Answer(j, status)
      PROVE  [Promise!Next]_(Promise!vars)
  <2>1. events' = events /\ phase' = phase
    BY <1>9 DEF Answer
  <2> QED BY <2>1, QuietShowsNothing
<1> QED
  BY <1>2, <1>3, <1>4, <1>5, <1>6, <1>7, <1>8, <1>9
  DEF Next, Worker, Time, Client, Terminated

(* Refinement, the safety part of PromiseKept: unless the callback raises   *)
(* after it delivered, every step of the worker, its finalizer, the client  *)
(* and time is a step of the promise or none: a vehicle is handed over      *)
(* once, and what was emitted for it is one result that never changes.      *)
THEOREM PromiseStepsCorrect ==
  ASSUME "after" \notin Faults
  PROVE  Spec => Promise!Init /\ [][Promise!Next]_(Promise!vars)
<1>1. Init => Promise!Init
  <2> SUFFICES ASSUME Init PROVE Promise!Init
    OBVIOUS
  <2>1. /\ phase = [v \in Vehicle |-> "tracked"] /\ events = [v \in Vehicle |-> <<>>]
    BY DEF Init
  <2>2. Handed = {} /\ Shown = [v \in Vehicle |-> {}]
    BY <2>1 DEF Handed, Shown
  <2> QED BY <2>2 DEF Promise!Init, Handed, Shown
<1>2. Books /\ [Next]_vars => [Promise!Next]_(Promise!vars)
  BY PromiseStep
<1> QED BY <1>1, <1>2, BooksAlways, PTL DEF Spec
==============================================================================
