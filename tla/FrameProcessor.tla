---------------------------- MODULE FrameProcessor ----------------------------
(***************************************************************************)
(* The life of a vehicle in one camera: the tracker's tracks and the       *)
(* TrackStates that FrameProcessor (video/frame_processor.py) keeps beside *)
(* them, from the first frame that shows the track to the one finalization *)
(* that hands it to the event path.  What is read on a frame is modelled   *)
(* in OcrScheduler; here a frame is detection, tracking, touching the      *)
(* states and collecting what is final, with a failure possible between.   *)
(***************************************************************************)
EXTENDS ByteTracker

CONSTANTS DetectInterval,   \* the detector runs on 1 frame in this many
          MaxAge,           \* max_track_seconds, in frame periods
          Gaps              \* frame periods that may pass between two frames

ConfigIsValid ==
    /\ DetectInterval \in Nat \ {0}
    /\ MaxAge \in Nat
    /\ Gaps \subseteq Nat \ {0}

ASSUME ProcessorAssumption == ConfigIsValid

VARIABLES states,      \* id -> TrackState
          phase,       \* _frame_idx modulo detect_interval
          events,      \* id -> the finalize_reasons handed to the event path
          running      \* FALSE once flush() has been called

vars == <<trackerVars, states, phase, events, running>>

Direction == {"none", "in"}
Reason == {"line_crossing", "track_retired", "max_duration", "shutdown"}

(* age: frame periods since first_seen, as far as max_track_seconds tells  *)
(* apart.  history: what VirtualLine.check says of centroid_history.       *)
TrackState == [age       : 0 .. MaxAge + 1,
               history   : Direction,
               direction : Direction,
               emitted   : BOOLEAN]

NewState == [age |-> 0, history |-> "none", direction |-> "none",
             emitted |-> FALSE]

(* The states after the loop over this frame's tracks: the known ones are  *)
(* older, the "touched" ones exist and have the track's new history.       *)
Touched(touched, crossing, gap) ==
    [i \in DOMAIN states \cup touched |->
        LET s == IF i \in DOMAIN states
                 THEN [states[i] EXCEPT !.age = Least(@ + gap, MaxAge + 1)]
                 ELSE NewState
        IN [s EXCEPT !.history = IF i \notin touched THEN @
                                 ELSE IF i \in crossing THEN "in" ELSE "none"]]

(* The three reasons for which _collect_finalized finalizes a state, in    *)
(* the order in which it looks for them.                                   *)
Crossed(S, live) ==
    {i \in live : ~S[i].emitted /\ S[i].direction = "none" /\ S[i].history # "none"}

RetiredUnreported(S, gone) == {i \in gone \cap DOMAIN S : ~S[i].emitted}

(* Mutant: a track is final only by crossing the line or by retiring.      *)
NeverOverlong(S, live, gone) == {}

Overlong(S, live, gone) ==
    {i \in DOMAIN S \ gone : ~S[i].emitted /\ S[i].age > MaxAge} \ Crossed(S, live)

Finalized(S, live, gone) ==
    Crossed(S, live) \cup RetiredUnreported(S, gone) \cup Overlong(S, live, gone)

(* Mutant: what crossed the line is popped, as if its track were gone.     *)
PoppedWhenCrossed(S, live, gone) ==
    [i \in DOMAIN S \ (gone \cup Crossed(S, live)) |->
        [S[i] EXCEPT !.emitted = @ \/ i \in Overlong(S, live, gone)]]

(* A crossed or overlong state stays as a tombstone until the tracker      *)
(* retires its track; a retired one is popped.                             *)
Kept(S, live, gone) ==
    [i \in DOMAIN S \ gone |->
        IF i \in Finalized(S, live, gone)
        THEN [S[i] EXCEPT !.emitted = TRUE, !.direction = S[i].history]
        ELSE S[i]]

Report(final, reason(_)) ==
    events' = [i \in TrackId |-> IF i \in final THEN Append(events[i], reason(i))
                                 ELSE events[i]]

CollectFinalized(S, live, gone) ==
    /\ states' = Kept(S, live, gone)
    /\ Report(Finalized(S, live, gone),
              LAMBDA i : IF i \in live \cap Crossed(S, live) THEN "line_crossing"
                         ELSE IF i \in gone THEN "track_retired"
                         ELSE "max_duration")

NextPhase == (phase + 1) % DetectInterval
DetectorRuns == NextPhase = 0

(* One whole frame.  removed_track_ids() drains the tracker's buffer.      *)
Frame ==
    /\ running
    /\ phase' = NextPhase
    /\ \E t \in Update(DetectorRuns), gap \in Gaps :
        LET live == Visible(t, DetectorRuns) IN
        \E crossing \in SUBSET live :
            /\ tracks' = t.tracks
            /\ nextId' = t.nextId
            /\ removed' = {}
            /\ CollectFinalized(Touched(live, crossing, gap), live, t.removed)
    /\ UNCHANGED running

(* The detector raises: CameraWorker._process gives the frame up, and the  *)
(* frame counter has advanced.                                             *)
DetectorFails ==
    /\ running
    /\ DetectorRuns
    /\ phase' = NextPhase
    /\ UNCHANGED <<trackerVars, states, events, running>>

(* Mutant: removed_track_ids() is called before the plate work that fails. *)
FailsAfterDraining ==
    /\ running
    /\ phase' = NextPhase
    /\ \E t \in Update(DetectorRuns), gap \in Gaps :
        /\ tracks' = t.tracks
        /\ nextId' = t.nextId
        /\ removed' = {}
        /\ states' = Touched(Visible(t, DetectorRuns), {}, gap)
    /\ UNCHANGED <<events, running>>

(* Plate work raises after some of the tracks: the states of the others    *)
(* are not touched and nothing is collected, but the tracker has moved on. *)
PlateWorkFails ==
    /\ running
    /\ phase' = NextPhase
    /\ \E t \in Update(DetectorRuns), gap \in Gaps :
        \E touched \in (SUBSET Visible(t, DetectorRuns)) \ {{}} :
        \E crossing \in SUBSET touched :
            /\ tracks' = t.tracks
            /\ nextId' = t.nextId
            /\ removed' = t.removed
            /\ states' = Touched(touched, crossing, gap)
    /\ UNCHANGED <<events, running>>

(* flush(): whatever is still in flight is final when the worker stops.    *)
Flush ==
    /\ running
    /\ running' = FALSE
    /\ Report({i \in DOMAIN states : ~states[i].emitted}, LAMBDA i : "shutdown")
    /\ states' = <<>>
    /\ UNCHANGED <<trackerVars, phase>>

Init ==
    /\ TrackerInit
    /\ states = <<>>
    /\ phase = 0
    /\ events = [i \in TrackId |-> <<>>]
    /\ running = TRUE

Next == Frame \/ DetectorFails \/ PlateWorkFails \/ Flush

(* The worker loop takes frame after frame until it is stopped, and a      *)
(* frame that fails does not keep every later one from succeeding.         *)
Spec == Init /\ [][Next]_vars /\ SF_vars(Frame)

-----------------------------------------------------------------------------
(* Shapes of the variables.                                                *)
TypeOK ==
    /\ TrackerTypeOK
    /\ DOMAIN states \subseteq TrackId
    /\ \A i \in DOMAIN states : states[i] \in TrackState
    /\ phase \in 0 .. DetectInterval - 1
    /\ \A i \in TrackId : events[i] \in Seq(Reason)
    /\ running \in BOOLEAN

(* One track is one event at most, whichever of the four reasons comes     *)
(* first and however long the track lives on after it (the repeated        *)
(* events that the comment in _collect_finalized tells of).                *)
OneEventPerTrack == \A i \in TrackId : Len(events[i]) <= 1

(* A confirmed track that the tracker drops is reported, in the same frame *)
(* or, when frames fail in between, by the first one that does not: until  *)
(* then its retirement waits in the tracker (removed_track_ids).           *)
RetirementIsReported ==
    [][\A i \in DOMAIN states :
         /\ i \in removed \/ (i \in DOMAIN tracks /\ tracks[i].hits = MinHits)
         /\ i \notin DOMAIN tracks'
         => i \in removed' \/ events'[i] # <<>>]_vars

(* A vehicle that is once in the books is reported, even when it parks in  *)
(* the gate or its track is dropped without being reported as retired.     *)
EveryStateIsReported ==
    \A i \in TrackId : i \in DOMAIN states ~> events[i] # <<>>

(* "Cleanup is the tracker's job": the comment in _collect_finalized has a *)
(* state popped once its track can no longer come back.                    *)
StatesOfLiveTracks ==
    \A i \in DOMAIN states : i \in DOMAIN tracks \cup removed
==============================================================================
