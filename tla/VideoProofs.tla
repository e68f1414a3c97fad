----------------------------- MODULE VideoProofs -----------------------------
(***************************************************************************)
(* Proofs about FrameProcessor, for any number of tracks, any buffer, any  *)
(* detector interval and any length of stay, and about OcrScheduler, for   *)
(* every policy that OcrPolicy accepts.                                    *)
(***************************************************************************)
EXTENDS FrameProcessor, OcrScheduler, TLAPS

(* FrameProcessor.                                                         *)

Known == 1 .. nextId - 1

AnyState == [age : Nat, history : Direction, direction : Direction,
             emitted : BOOLEAN]

(* Ids are handed out in order, and a retired track is gone.               *)
IdsInOrder ==
    /\ nextId \in 1 .. MaxTracks + 1
    /\ DOMAIN tracks \subseteq Known
    /\ removed \subseteq Known
    /\ removed \cap DOMAIN tracks = {}

StatesKnown ==
    /\ DOMAIN states \subseteq Known
    /\ \A i \in DOMAIN states : states[i] \in AnyState

EventsKnown ==
    /\ \A i \in TrackId : events[i] \in Seq(Reason) /\ Len(events[i]) <= 1
    /\ \A i \in TrackId : events[i] # <<>> => i \in Known

(* The tombstone: a state says whether its track was reported, and without *)
(* a state a reported track is one the tracker no longer has, so that its  *)
(* id is never touched again.                                              *)
Tombstones ==
    running =>
      \A i \in TrackId :
          IF i \in DOMAIN states
          THEN states[i].emitted <=> events[i] # <<>>
          ELSE events[i] # <<>> => i \notin DOMAIN tracks

Reported == IdsInOrder /\ StatesKnown /\ EventsKnown /\ Tombstones

(* The lesser of two numbers is one.                                        *)
LEMMA LeastType ==
    ASSUME NEW i \in Nat, NEW j \in Nat
    PROVE  Least(i, j) \in Nat
BY DEF Least

(* The known tracks are tracks.                                             *)
LEMMA KnownIds ==
    ASSUME IdsInOrder
    PROVE  /\ Known \subseteq TrackId
           /\ nextId \in Nat
BY TrackerAssumption DEF IdsInOrder, Known, TrackId

(* A frame keeps some of the tracks, may start some, and retires others    *)
(* for good.                                                               *)
LEMMA UpdateIds ==
    ASSUME IdsInOrder, NEW ran \in BOOLEAN, NEW t \in Update(ran)
    PROVE  /\ t.nextId \in nextId .. MaxTracks + 1
           /\ DOMAIN t.tracks \subseteq 1 .. t.nextId - 1
           /\ DOMAIN t.tracks \cap Known \subseteq DOMAIN tracks
           /\ t.removed \subseteq 1 .. t.nextId - 1
           /\ t.removed \cap DOMAIN t.tracks = {}
           /\ Visible(t, ran) \subseteq DOMAIN t.tracks
<1>0. Visible(t, ran) \subseteq DOMAIN t.tracks
  BY DEF Visible
<1>1. CASE ~ran
  <2>1. t = Coasted
    BY <1>1 DEF Update
  <2>2. /\ DOMAIN t.tracks = DOMAIN tracks
        /\ t.nextId = nextId /\ t.removed = removed
    BY <2>1 DEF Coasted
  <2> QED
    BY <1>0, <2>2 DEF IdsInOrder, Known
<1>2. CASE ran
  <2>1. PICK matched \in SUBSET DOMAIN tracks, new \in 0 .. MaxTracks + 1 - nextId :
            t = Associated(matched, new)
    BY <1>2 DEF Update
  <2> DEFINE all == DOMAIN tracks \cup (nextId .. nextId + new - 1)
             seen == [i \in all |->
                        IF i \notin DOMAIN tracks THEN NewTrack
                        ELSE IF i \in matched THEN Updated(Predicted(tracks[i]))
                        ELSE Missed(Predicted(tracks[i]))]
             retired == {i \in all : Retires(seen[i])}
  <2>2. t = [tracks  |-> Restrict(seen, all \ retired),
             nextId  |-> nextId + new,
             removed |-> removed \cup {i \in retired : seen[i].hits >= MinHits}]
    BY <2>1 DEF Associated
  <2>3. /\ DOMAIN t.tracks = all \ retired
        /\ t.nextId = nextId + new
        /\ t.removed \subseteq removed \cup retired
    BY <2>2 DEF Restrict
  <2>4. retired \subseteq all
    OBVIOUS
  <2> HIDE DEF retired
  <2>5. /\ nextId \in Nat /\ new \in Nat /\ nextId >= 1
        /\ nextId + new <= MaxTracks + 1 /\ MaxTracks \in Nat
    BY TrackerAssumption DEF IdsInOrder
  <2>6. all \subseteq 1 .. nextId + new - 1
    BY <2>5 DEF IdsInOrder, Known
  <2>7. all \cap Known \subseteq DOMAIN tracks
    BY <2>5 DEF Known
  <2>8. removed \subseteq 1 .. nextId + new - 1
    BY <2>5 DEF IdsInOrder, Known
  <2>9. removed \cap all = {}
    BY <2>5 DEF IdsInOrder, Known
  <2>10. t.nextId \in nextId .. MaxTracks + 1
    BY <2>3, <2>5
  <2> HIDE DEF all
  <2>11. 1 .. t.nextId - 1 = 1 .. nextId + new - 1
    BY <2>3, <2>5
  <2>12. /\ DOMAIN t.tracks \subseteq 1 .. t.nextId - 1
         /\ t.removed \subseteq 1 .. t.nextId - 1
    BY ONLY <2>3, <2>4, <2>6, <2>8, <2>11
  <2>13. /\ DOMAIN t.tracks \cap Known \subseteq DOMAIN tracks
         /\ t.removed \cap DOMAIN t.tracks = {}
    BY ONLY <2>3, <2>4, <2>7, <2>9
  <2> QED
    BY <1>0, <2>10, <2>12, <2>13
<1> QED
  BY <1>1, <1>2

(* Touching adds unreported states and forgets no report.                  *)
LEMMA TouchedStates ==
    ASSUME StatesKnown, NEW touched, NEW crossing, NEW gap \in Nat
    PROVE  LET S == Touched(touched, crossing, gap) IN
           /\ DOMAIN S = DOMAIN states \cup touched
           /\ \A i \in DOMAIN S :
                 /\ S[i] \in AnyState
                 /\ S[i].emitted <=> (i \in DOMAIN states /\ states[i].emitted)
<1> DEFINE S == Touched(touched, crossing, gap)
           old(i) == IF i \in DOMAIN states
                     THEN [states[i] EXCEPT !.age = Least(states[i].age + gap, MaxAge + 1)]
                     ELSE NewState
           side(i) == IF i \notin touched THEN old(i).history
                      ELSE IF i \in crossing THEN "in" ELSE "none"
<1>1. S = [i \in DOMAIN states \cup touched |-> [old(i) EXCEPT !.history = side(i)]]
  BY DEF Touched
<1>2. ASSUME NEW i \in DOMAIN states \cup touched
      PROVE  /\ S[i] \in AnyState
             /\ S[i].emitted <=> (i \in DOMAIN states /\ states[i].emitted)
  <2>1. /\ old(i) \in AnyState
        /\ old(i).emitted <=> (i \in DOMAIN states /\ states[i].emitted)
    <3>1. CASE i \in DOMAIN states
      <4>1. states[i] \in AnyState /\ states[i].age + gap \in Nat /\ MaxAge + 1 \in Nat
        BY <3>1, ProcessorAssumption DEF StatesKnown, AnyState, ConfigIsValid
      <4>2. Least(states[i].age + gap, MaxAge + 1) \in Nat
        BY <4>1, LeastType
      <4> QED
        BY <3>1, <4>1, <4>2 DEF AnyState
    <3>2. CASE i \notin DOMAIN states
      BY <3>2 DEF NewState, AnyState, Direction
    <3> QED
      BY <3>1, <3>2
  <2>2. side(i) \in Direction
    BY <2>1 DEF AnyState, Direction
  <2>3. S[i] = [old(i) EXCEPT !.history = side(i)]
    BY <1>1
  <2> HIDE DEF S, old, side
  <2> QED
    BY <2>1, <2>2, <2>3 DEF AnyState
<1> QED
  BY <1>1, <1>2

(* What the reports of a frame leave in the events.                        *)
LEMMA AppendsOnce ==
    ASSUME EventsKnown, NEW final, NEW r,
           \A i \in final : i \in TrackId /\ r[i] \in Reason /\ events[i] = <<>>,
           events' = [i \in TrackId |-> IF i \in final THEN Append(events[i], r[i])
                                        ELSE events[i]]
    PROVE  \A i \in TrackId :
              /\ events'[i] \in Seq(Reason) /\ Len(events'[i]) <= 1
              /\ events'[i] # <<>> <=> (i \in final \/ events[i] # <<>>)
<1> SUFFICES ASSUME NEW i \in TrackId
             PROVE  /\ events'[i] \in Seq(Reason) /\ Len(events'[i]) <= 1
                    /\ events'[i] # <<>> <=> (i \in final \/ events[i] # <<>>)
  OBVIOUS
<1>1. CASE i \in final
  <2> DEFINE e == Append(<<>>, r[i])
  <2>1. events'[i] = e /\ r[i] \in Reason
    BY <1>1
  <2>2. e \in Seq(Reason) /\ Len(e) = 1
    BY <2>1
  <2>3. e # <<>>
    BY <2>2
  <2>4. Len(e) <= 1
    BY <2>2
  <2> HIDE DEF e
  <2> QED
    BY ONLY <1>1, <2>1, <2>2, <2>3, <2>4, Zenon
<1>2. CASE i \notin final
  BY <1>2 DEF EventsKnown
<1> QED
  BY <1>1, <1>2

(* One whole frame: what is final was not reported before, and every       *)
(* report leaves a tombstone or a track that is gone.                      *)
LEMMA FrameKeepsReports ==
    ASSUME Reported, Frame
    PROVE  Reported'
<1>1. PICK t \in Update(DetectorRuns), gap \in Gaps :
        LET live == Visible(t, DetectorRuns) IN
        \E crossing \in SUBSET live :
            /\ tracks' = t.tracks
            /\ nextId' = t.nextId
            /\ removed' = {}
            /\ CollectFinalized(Touched(live, crossing, gap), live, t.removed)
  BY DEF Frame
<1> DEFINE live == Visible(t, DetectorRuns)
           gone == t.removed
<1>2. PICK crossing \in SUBSET live :
            /\ tracks' = t.tracks
            /\ nextId' = t.nextId
            /\ removed' = {}
            /\ CollectFinalized(Touched(live, crossing, gap), live, gone)
  BY <1>1
<1>3. running /\ running'
  BY DEF Frame
<1> DEFINE S == Touched(live, crossing, gap)
           final == Finalized(S, live, gone)
           r == [i \in TrackId |-> IF i \in live \cap Crossed(S, live) THEN "line_crossing"
                                   ELSE IF i \in gone THEN "track_retired"
                                   ELSE "max_duration"]
<1>4. DetectorRuns \in BOOLEAN
  BY DEF DetectorRuns
<1>5. /\ t.nextId \in nextId .. MaxTracks + 1
      /\ DOMAIN t.tracks \subseteq 1 .. t.nextId - 1
      /\ DOMAIN t.tracks \cap Known \subseteq DOMAIN tracks
      /\ gone \subseteq 1 .. t.nextId - 1
      /\ gone \cap DOMAIN t.tracks = {}
      /\ live \subseteq DOMAIN t.tracks
  BY <1>4, UpdateIds DEF Reported
<1>6. /\ DOMAIN S = DOMAIN states \cup live
      /\ \A i \in DOMAIN S :
            /\ S[i] \in AnyState
            /\ S[i].emitted <=> (i \in DOMAIN states /\ states[i].emitted)
  <2>1. gap \in Nat
    BY ProcessorAssumption DEF ConfigIsValid
  <2> QED
    BY <2>1, TouchedStates DEF Reported
<1>7. /\ states' = Kept(S, live, gone)
      /\ events' = [i \in TrackId |-> IF i \in final THEN Append(events[i], r[i])
                                      ELSE events[i]]
  BY <1>2 DEF CollectFinalized, Report
<1>8. /\ Known' = 1 .. t.nextId - 1
      /\ Known \subseteq Known' /\ Known' \subseteq TrackId
      /\ nextId' \in 1 .. MaxTracks + 1
  BY <1>2, <1>5, TrackerAssumption DEF Reported, IdsInOrder, Known, TrackId
<1>9. \A i \in final : i \in DOMAIN S /\ ~S[i].emitted
  BY <1>6 DEF Finalized, Crossed, RetiredUnreported, Overlong
<1>10. DOMAIN S \subseteq Known'
  BY <1>5, <1>6, <1>8 DEF Reported, StatesKnown
<1> HIDE DEF S, final, live, gone, r
<1>11. \A i \in DOMAIN S : S[i].emitted <=> events[i] # <<>>
  <2> SUFFICES ASSUME NEW i \in DOMAIN S
               PROVE  S[i].emitted <=> events[i] # <<>>
    OBVIOUS
  <2>1. i \in TrackId
    BY <1>8, <1>10
  <2>2. CASE i \in DOMAIN states
    BY <1>3, <1>6, <2>1, <2>2 DEF Reported, Tombstones
  <2>3. CASE i \notin DOMAIN states
    <3>1. i \in DOMAIN t.tracks /\ ~S[i].emitted
      BY <1>5, <1>6, <2>3
    <3>2. events[i] = <<>>
      BY <1>3, <1>5, <2>1, <2>3, <3>1 DEF Reported, Tombstones, EventsKnown
    <3> QED
      BY <3>1, <3>2
  <2> QED
    BY <2>2, <2>3
<1>12. \A i \in TrackId :
          /\ events'[i] \in Seq(Reason) /\ Len(events'[i]) <= 1
          /\ events'[i] # <<>> <=> (i \in final \/ events[i] # <<>>)
  <2>1. \A i \in final : i \in TrackId /\ r[i] \in Reason /\ events[i] = <<>>
    BY <1>8, <1>9, <1>10, <1>11 DEF r, Reason
  <2> QED
    BY <1>7, <2>1, AppendsOnce DEF Reported
<1>13. /\ DOMAIN states' = DOMAIN S \ gone
       /\ \A i \in DOMAIN states' :
            /\ states'[i] \in AnyState
            /\ states'[i].emitted <=> (i \in final \/ S[i].emitted)
  <2>1. states' = [i \in DOMAIN S \ gone |->
                     IF i \in final
                     THEN [S[i] EXCEPT !.emitted = TRUE, !.direction = S[i].history]
                     ELSE S[i]]
    BY <1>7 DEF Kept, final
  <2>2. ASSUME NEW i \in DOMAIN S
        PROVE  LET k == [S[i] EXCEPT !.emitted = TRUE, !.direction = S[i].history]
               IN k \in AnyState /\ k.emitted
    BY <1>6, <2>2 DEF AnyState
  <2> QED
    BY <1>6, <2>1, <2>2
<1>14. IdsInOrder'
  BY <1>2, <1>5, <1>8 DEF IdsInOrder
<1>15. StatesKnown'
  BY <1>10, <1>13 DEF StatesKnown
<1>16. EventsKnown'
  BY <1>8, <1>9, <1>10, <1>12 DEF EventsKnown, Reported
<1>17. Tombstones'
  <2> SUFFICES ASSUME NEW i \in TrackId
               PROVE  IF i \in DOMAIN states'
                      THEN states'[i].emitted <=> events'[i] # <<>>
                      ELSE events'[i] # <<>> => i \notin DOMAIN tracks'
    BY DEF Tombstones
  <2>1. CASE i \in DOMAIN states'
    BY <1>11, <1>12, <1>13, <2>1
  <2>2. CASE i \notin DOMAIN states' /\ i \in DOMAIN S
    BY <1>2, <1>5, <1>13, <2>2
  <2>3. CASE i \notin DOMAIN states' /\ i \notin DOMAIN S
    <3>1. events'[i] # <<>> => events[i] # <<>>
      BY <1>9, <1>12, <2>3
    <3>2. i \notin DOMAIN states
      BY <1>6, <2>3
    <3>3. events[i] # <<>> => i \notin DOMAIN tracks /\ i \in Known
      BY <1>3, <3>2 DEF Reported, Tombstones, EventsKnown
    <3> QED
      BY <1>2, <1>5, <2>3, <3>1, <3>3
  <2> QED
    BY <2>1, <2>2, <2>3
<1> QED
  BY <1>14, <1>15, <1>16, <1>17 DEF Reported

(* A frame that fails after tracking reports nothing and forgets nothing.   *)
LEMMA PlateWorkFailsKeeps ==
    ASSUME Reported, PlateWorkFails
    PROVE  Reported'
<1>1. PICK t \in Update(DetectorRuns), gap \in Gaps :
        \E touched \in (SUBSET Visible(t, DetectorRuns)) \ {{}} :
        \E crossing \in SUBSET touched :
            /\ tracks' = t.tracks
            /\ nextId' = t.nextId
            /\ removed' = t.removed
            /\ states' = Touched(touched, crossing, gap)
  BY DEF PlateWorkFails
<1> PICK touched \in SUBSET Visible(t, DetectorRuns) :
        \E crossing \in SUBSET touched :
            /\ tracks' = t.tracks
            /\ nextId' = t.nextId
            /\ removed' = t.removed
            /\ states' = Touched(touched, crossing, gap)
  BY <1>1
<1>2. PICK crossing \in SUBSET touched :
            /\ tracks' = t.tracks
            /\ nextId' = t.nextId
            /\ removed' = t.removed
            /\ states' = Touched(touched, crossing, gap)
  OBVIOUS
<1>3. running /\ running' = running /\ events' = events
  BY DEF PlateWorkFails
<1>4. DetectorRuns \in BOOLEAN
  BY DEF DetectorRuns
<1>5. /\ t.nextId \in nextId .. MaxTracks + 1
      /\ DOMAIN t.tracks \subseteq 1 .. t.nextId - 1
      /\ DOMAIN t.tracks \cap Known \subseteq DOMAIN tracks
      /\ t.removed \subseteq 1 .. t.nextId - 1
      /\ t.removed \cap DOMAIN t.tracks = {}
      /\ touched \subseteq DOMAIN t.tracks
  BY <1>2, <1>4, UpdateIds DEF Reported
<1>6. /\ DOMAIN states' = DOMAIN states \cup touched
      /\ \A i \in DOMAIN states' :
            /\ states'[i] \in AnyState
            /\ states'[i].emitted <=> (i \in DOMAIN states /\ states[i].emitted)
  <2>1. gap \in Nat
    BY ProcessorAssumption DEF ConfigIsValid
  <2> QED
    BY <1>2, <2>1, TouchedStates DEF Reported
<1>7. /\ Known' = 1 .. t.nextId - 1
      /\ Known \subseteq Known' /\ Known' \subseteq TrackId
      /\ nextId' \in 1 .. MaxTracks + 1
  BY <1>2, <1>5, TrackerAssumption DEF Reported, IdsInOrder, Known, TrackId
<1>8. IdsInOrder'
  BY <1>2, <1>5, <1>7 DEF IdsInOrder
<1>9. StatesKnown'
  BY <1>5, <1>6, <1>7 DEF StatesKnown, Reported
<1>10. EventsKnown'
  BY <1>3, <1>7 DEF EventsKnown, Reported
<1>11. Tombstones'
  <2> SUFFICES ASSUME NEW i \in TrackId
               PROVE  IF i \in DOMAIN states'
                      THEN states'[i].emitted <=> events'[i] # <<>>
                      ELSE events'[i] # <<>> => i \notin DOMAIN tracks'
    BY DEF Tombstones
  <2>1. CASE i \in DOMAIN states
    BY <1>3, <1>6, <2>1 DEF Reported, Tombstones
  <2>2. CASE i \notin DOMAIN states
    <3>1. events[i] # <<>> => i \notin DOMAIN tracks /\ i \in Known
      BY <1>3, <2>2 DEF Reported, Tombstones, EventsKnown
    <3>2. events[i] # <<>> => i \notin DOMAIN tracks'
      BY <1>2, <1>5, <3>1
    <3> QED
      BY <1>2, <1>3, <1>5, <1>6, <2>2, <3>2
  <2> QED
    BY <2>1, <2>2
<1> QED
  BY <1>8, <1>9, <1>10, <1>11 DEF Reported

(* The flush reports what was not reported.                                 *)
LEMMA FlushKeeps ==
    ASSUME Reported, Flush
    PROVE  Reported'
<1> DEFINE final == {i \in DOMAIN states : ~states[i].emitted}
           r == [i \in TrackId |-> "shutdown"]
<1>1. /\ running /\ ~running' /\ states' = <<>>
      /\ tracks' = tracks /\ nextId' = nextId /\ removed' = removed
      /\ events' = [i \in TrackId |-> IF i \in final THEN Append(events[i], r[i])
                                      ELSE events[i]]
  BY DEF Flush, Report, trackerVars
<1>2. \A i \in final : i \in TrackId /\ r[i] \in Reason /\ events[i] = <<>>
  <2> SUFFICES ASSUME NEW i \in final
               PROVE  i \in TrackId /\ r[i] \in Reason /\ events[i] = <<>>
    OBVIOUS
  <2>1. i \in DOMAIN states /\ ~states[i].emitted
    OBVIOUS
  <2>2. i \in TrackId
    BY <2>1, KnownIds DEF Reported, StatesKnown
  <2>3. events[i] = <<>>
    BY <1>1, <2>1, <2>2 DEF Reported, Tombstones
  <2> QED
    BY <2>2, <2>3 DEF Reason
<1>3. \A i \in TrackId :
          /\ events'[i] \in Seq(Reason) /\ Len(events'[i]) <= 1
          /\ events'[i] # <<>> <=> (i \in final \/ events[i] # <<>>)
  <2> HIDE DEF final, r
  <2> QED
    BY <1>1, <1>2, AppendsOnce DEF Reported
<1>4. Known' = Known
  BY <1>1 DEF Known
<1>5. IdsInOrder'
  BY <1>1, <1>4 DEF Reported, IdsInOrder
<1>6. StatesKnown'
  BY <1>1 DEF StatesKnown
<1>7. EventsKnown'
  BY <1>3, <1>4 DEF Reported, StatesKnown, EventsKnown
<1>8. Tombstones'
  BY <1>1 DEF Tombstones
<1> QED
  BY <1>5, <1>6, <1>7, <1>8 DEF Reported

(* No track, no report.                                                     *)
LEMMA ReportsBegin == Init => Reported
BY TrackerAssumption
   DEF Init, TrackerInit, Reported, IdsInOrder, Known, StatesKnown, EventsKnown,
       Tombstones

(* Every step keeps what is reported in line with the states.               *)
LEMMA ReportsStay ==
    ASSUME Reported, [Next]_vars
    PROVE  Reported'
<1>1. CASE Frame
  BY <1>1, FrameKeepsReports
<1>2. CASE DetectorFails \/ UNCHANGED vars
  <2>1. UNCHANGED <<nextId, tracks, removed, states, events, running>>
    BY <1>2 DEF DetectorFails, vars, trackerVars
  <2>2. IdsInOrder' /\ StatesKnown'
    BY <2>1 DEF Reported, IdsInOrder, Known, StatesKnown
  <2>3. EventsKnown'
    BY <2>1 DEF Reported, EventsKnown, Known
  <2>4. Tombstones'
    BY <2>1 DEF Reported, Tombstones
  <2> QED BY <2>2, <2>3, <2>4 DEF Reported
<1>3. CASE PlateWorkFails
  BY <1>3, PlateWorkFailsKeeps
<1>4. CASE Flush
  BY <1>4, FlushKeeps
<1> QED
  BY <1>1, <1>2, <1>3, <1>4 DEF Next

(* One event per track: whichever of the four reasons finalizes it first,  *)
(* however long the track lives on, and wherever the frames fail.          *)
THEOREM OneEventPerTrackCorrect == Spec => []OneEventPerTrack
<1>1. Reported => OneEventPerTrack
  BY DEF Reported, EventsKnown, OneEventPerTrack
<1> QED
  BY <1>1, ReportsBegin, ReportsStay, PTL DEF Spec

-----------------------------------------------------------------------------
(* A record of the tracker keeps its shape; a confirmed one stays as sure   *)
(* as it was until it retires.                                              *)
TracksKnown == \A i \in DOMAIN tracks : tracks[i] \in Strack

(* The tracker at work on one track: what is predicted, updated and missed. *)
LEMMA TrackWork ==
    ASSUME NEW s \in Strack
    PROVE  /\ Predicted(s) \in Strack /\ Predicted(s).hits = s.hits
           /\ Updated(s) \in Strack
           /\ s.hits = MinHits => Updated(s).hits = MinHits
           /\ Missed(s).hits = s.hits
           /\ Missed(s).state = "removed" \/ Missed(s) \in Strack
<1>1. /\ s.state \in {"tentative", "confirmed", "lost"}
      /\ s.hits \in 1 .. MinHits /\ s.tsu \in 0 .. TrackBuffer + 1
      /\ MinHits \in Nat \ {0} /\ TrackBuffer \in Nat
  BY TrackerAssumption DEF Strack
<1>2. /\ Least(s.tsu + 1, TrackBuffer + 1) \in 0 .. TrackBuffer + 1
      /\ Least(s.hits + 1, MinHits) \in 1 .. MinHits
      /\ s.hits = MinHits => Least(s.hits + 1, MinHits) = MinHits
  BY <1>1 DEF Least
<1>3. Predicted(s) \in Strack /\ Predicted(s).hits = s.hits
  BY <1>1, <1>2 DEF Predicted, Strack
<1>4. Updated(s) \in Strack /\ (s.hits = MinHits => Updated(s).hits = MinHits)
  BY <1>1, <1>2 DEF Updated, Strack
<1>5. /\ Missed(s).hits = s.hits
      /\ Missed(s).state = "removed" \/ Missed(s) \in Strack
  BY <1>1 DEF Missed, Strack
<1> QED
  BY <1>3, <1>4, <1>5

(* A frame keeps the shape of the tracks, and one that was confirmed is     *)
(* still there afterwards or waits among the retired.                       *)
LEMMA UpdateRetires ==
    ASSUME TracksKnown, IdsInOrder, NEW ran \in BOOLEAN, NEW t \in Update(ran)
    PROVE  /\ \A i \in DOMAIN t.tracks : t.tracks[i] \in Strack
           /\ removed \subseteq t.removed
           /\ \A i \in DOMAIN tracks :
                 tracks[i].hits = MinHits => i \in DOMAIN t.tracks \/ i \in t.removed
<1>1. CASE ~ran
  <2>1. /\ t.tracks = [i \in DOMAIN tracks |-> Predicted(tracks[i])]
        /\ t.removed = removed
    BY <1>1 DEF Update, Coasted
  <2> QED
    BY <2>1, TrackWork DEF TracksKnown
<1>2. CASE ran
  <2>1. PICK matched \in SUBSET DOMAIN tracks, new \in 0 .. MaxTracks + 1 - nextId :
            t = Associated(matched, new)
    BY <1>2 DEF Update
  <2> DEFINE all == DOMAIN tracks \cup (nextId .. nextId + new - 1)
             seen == [i \in all |->
                        IF i \notin DOMAIN tracks THEN NewTrack
                        ELSE IF i \in matched THEN Updated(Predicted(tracks[i]))
                        ELSE Missed(Predicted(tracks[i]))]
             retired == {i \in all : Retires(seen[i])}
  <2>2. /\ t.tracks = [i \in all \ retired |-> seen[i]]
        /\ t.removed = removed \cup {i \in retired : seen[i].hits >= MinHits}
    BY <2>1 DEF Associated, Restrict
  <2>3. ASSUME NEW i \in all
        PROVE  /\ seen[i].state = "removed" \/ seen[i] \in Strack
               /\ i \in DOMAIN tracks /\ tracks[i].hits = MinHits => seen[i].hits = MinHits
    <3>1. CASE i \notin DOMAIN tracks
      <4>1. NewTrack \in Strack
        BY TrackerAssumption DEF NewTrack, Strack
      <4> QED
        BY <3>1, <4>1
    <3>2. CASE i \in DOMAIN tracks
      <4>1. /\ Predicted(tracks[i]) \in Strack
            /\ Predicted(tracks[i]).hits = tracks[i].hits
        BY <3>2, TrackWork DEF TracksKnown
      <4>2. seen[i] \in {Updated(Predicted(tracks[i])), Missed(Predicted(tracks[i]))}
        BY <3>2
      <4> HIDE DEF seen
      <4> QED
        BY <4>1, <4>2, TrackWork
    <3> QED
      BY <3>1, <3>2
  <2>4. \A i \in all : seen[i].state = "removed" => i \in retired
    BY DEF Retires
  <2>5. DOMAIN tracks \subseteq all /\ MinHits \in Nat
    BY TrackerAssumption
  <2> HIDE DEF all, seen, retired
  <2> QED
    BY <2>2, <2>3, <2>4, <2>5
<1> QED
  BY <1>1, <1>2

(* A sequence with one more element is not empty.                           *)
LEMMA Appended ==
    ASSUME NEW T, NEW s \in Seq(T), NEW e
    PROVE  Append(s, e) # <<>>
<1>1. s \in Seq(T \cup {e}) /\ e \in T \cup {e}
  OBVIOUS
<1>2. Len(Append(s, e)) = Len(s) + 1 /\ Len(s) \in Nat
  BY <1>1
<1>3. Len(<<>>) = 0
  OBVIOUS
<1> QED
  BY <1>2, <1>3

(* Whoever is final is reported, unless the tombstone says it was before.   *)
LEMMA FinalIsReported ==
    ASSUME Reported, running, NEW i \in DOMAIN states, NEW final, NEW x,
           states[i].emitted \/ i \in final,
           events'[i] = IF i \in final THEN Append(events[i], x) ELSE events[i]
    PROVE  events'[i] # <<>>
<1>1. i \in TrackId /\ events[i] \in Seq(Reason)
  BY KnownIds DEF Reported, StatesKnown, EventsKnown
<1>2. CASE i \in final
  BY <1>1, <1>2, Appended
<1>3. CASE i \notin final
  BY <1>1, <1>3 DEF Reported, Tombstones
<1> QED
  BY <1>2, <1>3

(* A confirmed track that the tracker drops is reported, in the same frame  *)
(* or, when frames fail in between, by the first one that does not: the     *)
(* retirement waits in the tracker until removed_track_ids() is asked, and  *)
(* that is asked only by a frame that collects.                             *)
THEOREM RetirementIsReportedCorrect == Spec => RetirementIsReported
<1> DEFINE Retiring == \A i \in DOMAIN states :
             /\ i \in removed \/ (i \in DOMAIN tracks /\ tracks[i].hits = MinHits)
             /\ i \notin DOMAIN tracks'
             => i \in removed' \/ events'[i] # <<>>
           Inv == Reported /\ TracksKnown
<1>1. Init => Inv
  BY ReportsBegin DEF Init, TrackerInit, TracksKnown
<1>2. Inv /\ [Next]_vars => Inv'
  <2> SUFFICES ASSUME Inv, [Next]_vars PROVE TracksKnown'
    BY ReportsStay
  <2>1. ASSUME NEW t \in Update(DetectorRuns), tracks' = t.tracks PROVE TracksKnown'
    BY <2>1, UpdateRetires DEF TracksKnown, DetectorRuns, Reported
  <2>2. CASE Frame
    BY <2>1, <2>2 DEF Frame
  <2>3. CASE PlateWorkFails
    BY <2>1, <2>3 DEF PlateWorkFails
  <2>4. CASE DetectorFails \/ Flush \/ UNCHANGED vars
    <3>1. tracks' = tracks
      BY <2>4 DEF DetectorFails, Flush, vars, trackerVars
    <3> QED
      BY <3>1 DEF TracksKnown
  <2> QED
    BY <2>2, <2>3, <2>4 DEF Next
<1>3. Inv /\ [Next]_vars => [Retiring]_vars
  <2> SUFFICES ASSUME Inv, [Next]_vars, NEW i \in DOMAIN states,
                      i \in removed \/ (i \in DOMAIN tracks /\ tracks[i].hits = MinHits),
                      i \notin DOMAIN tracks'
               PROVE  i \in removed' \/ events'[i] # <<>>
    OBVIOUS
  <2>1. ASSUME NEW t \in Update(DetectorRuns), tracks' = t.tracks PROVE i \in t.removed
    BY <2>1, UpdateRetires DEF DetectorRuns, Reported
  <2>6. i \in TrackId
    BY KnownIds DEF Reported, StatesKnown
  <2>2. CASE Frame
    <3>1. PICK t \in Update(DetectorRuns), gap \in Gaps :
            LET live == Visible(t, DetectorRuns) IN
            \E crossing \in SUBSET live :
                /\ tracks' = t.tracks
                /\ CollectFinalized(Touched(live, crossing, gap), live, t.removed)
      BY <2>2 DEF Frame
    <3> DEFINE live == Visible(t, DetectorRuns)
    <3>2. PICK crossing \in SUBSET live :
                /\ tracks' = t.tracks
                /\ CollectFinalized(Touched(live, crossing, gap), live, t.removed)
      BY <3>1
    <3> DEFINE S == Touched(live, crossing, gap)
               r(j) == IF j \in live \cap Crossed(S, live) THEN "line_crossing"
                       ELSE IF j \in t.removed THEN "track_retired"
                       ELSE "max_duration"
    <3>3. i \in DOMAIN S /\ (S[i].emitted <=> states[i].emitted)
      <4>1. gap \in Nat
        BY ProcessorAssumption DEF ConfigIsValid
      <4>2. /\ DOMAIN S = DOMAIN states \cup live
            /\ \A j \in DOMAIN S : S[j].emitted <=> (j \in DOMAIN states /\ states[j].emitted)
        BY <4>1, TouchedStates DEF Reported
      <4> HIDE DEF S
      <4> QED
        BY <4>2
    <3>4. events'[i] = IF i \in Finalized(S, live, t.removed)
                       THEN Append(events[i], r(i)) ELSE events[i]
      BY <2>6, <3>2 DEF CollectFinalized, Report
    <3>5. i \in t.removed
      BY <2>1, <3>2
    <3> HIDE DEF S, live, r
    <3>6. states[i].emitted \/ i \in Finalized(S, live, t.removed)
      BY <3>3, <3>5 DEF Finalized, RetiredUnreported
    <3> QED
      BY <2>2, <3>4, <3>6, FinalIsReported DEF Frame
  <2>3. CASE PlateWorkFails
    BY <2>1, <2>3 DEF PlateWorkFails
  <2>4. CASE DetectorFails \/ UNCHANGED vars
    BY <2>4 DEF DetectorFails, vars, trackerVars
  <2>5. CASE Flush
    <3> DEFINE final == {j \in DOMAIN states : ~states[j].emitted}
    <3>1. events'[i] = IF i \in final THEN Append(events[i], "shutdown") ELSE events[i]
      BY <2>5, <2>6 DEF Flush, Report
    <3>2. states[i].emitted \/ i \in final
      OBVIOUS
    <3>3. running
      BY <2>5 DEF Flush
    <3> HIDE DEF final
    <3> QED
      BY <3>1, <3>2, <3>3, FinalIsReported
  <2> QED
    BY <2>2, <2>3, <2>4, <2>5 DEF Next
<1> QED
  BY <1>1, <1>2, <1>3, PTL DEF Spec, RetirementIsReported

-----------------------------------------------------------------------------
(* OcrScheduler.                                                           *)

Reasons ==
    {"", "run", "stale_frame", "plate_too_small", "below_quality_floor",
     "budget_exhausted", "holding_reserve", "still_approaching", "cadence",
     "partial_vehicle", "plate_not_on_vehicle", "frame_ocr_cap"}

OcrState ==
    [calls : Nat, sinceCall : Nat, waits : Nat, reason : Reasons,
     attempts : Nat, sinceAttempt : Nat,
     peak : Nat, widths : Seq(Nat),
     granted : BOOLEAN, allowance : Nat,
     resolved : BOOLEAN, locked : BOOLEAN, emitted : BOOLEAN]

(* s became t without a recognizer call, and without being final.          *)
NoCall(s, t) ==
    /\ t \in OcrState
    /\ t.calls = s.calls
    /\ t.resolved = s.resolved
    /\ t.emitted = s.emitted

(* BudgetIsKept is not inductive by itself: that a track which is final    *)
(* spends no bonus again rests on its retry being marked as spent.         *)
WithinBudget(s) ==
    /\ s \in OcrState
    /\ ~s.emitted => s.calls <= Budget
    /\ s.emitted => s.calls <= Budget + RetryBonus
    /\ RetryBonus > 0 => (s.emitted <=> s.resolved)

(* The limits of a policy are numbers.                                      *)
LEMMA PolicyTypes ==
    /\ Budget \in Nat /\ Reserve \in Nat /\ RetryBonus \in Nat
    /\ MaxWaits \in Nat /\ GrowthWindow \in Nat \ {0}
    /\ FarCall \in Nat /\ FarAttempt \in Nat
    /\ Widths \subseteq Nat
<1>1. /\ {Budget, RetryBonus, Reserve} \subseteq Nat
      /\ {IntervalExcellent, IntervalGood, IntervalMarginal, MaxWaits,
          WaitBackoff, GrowthWindow, PlateInterval} \subseteq Nat \ {0}
      /\ Widths \subseteq Nat \ {0}
  BY PolicyAssumption DEF PolicyIsValid
<1>2. \A i, j \in Nat : i * j \in Nat
  OBVIOUS
<1>3. FarAttempt \in Nat
  BY <1>1, <1>2 DEF FarAttempt
<1>4. FarCall \in Nat
  BY <1>1 DEF FarCall, Most
<1> QED
  BY <1>1, <1>3, <1>4

(* The lesser of two numbers is one, and no larger than the second.         *)
LEMMA LesserType ==
    ASSUME NEW i \in Nat, NEW j \in Nat
    PROVE  Lesser(i, j) \in Nat /\ Lesser(i, j) <= j
BY DEF Lesser

(* Two steps without a call make one.                                       *)
LEMMA NoCallComposes ==
    ASSUME NEW r, NEW s, NEW t, NoCall(r, s), NoCall(s, t)
    PROVE  NoCall(r, t)
BY DEF NoCall

(* What happens to a track between two calls.                              *)
LEMMA AgedCallsNothing ==
    ASSUME NEW s \in OcrState
    PROVE  NoCall(s, Aged(s))
<1>1. s.sinceCall + 1 \in Nat /\ s.sinceAttempt + 1 \in Nat
  BY DEF OcrState
<1>2. Lesser(s.sinceCall + 1, FarCall) \in Nat
  BY <1>1, PolicyTypes, LesserType
<1>3. Lesser(s.sinceAttempt + 1, FarAttempt) \in Nat
  BY <1>1, PolicyTypes, LesserType
<1> QED
  BY <1>2, <1>3 DEF NoCall, Aged, OcrState

(* Noting a wait calls nothing.                                             *)
LEMMA WaitCallsNothing ==
    ASSUME NEW s \in OcrState, NEW reason \in Reasons
    PROVE  NoCall(s, WaitNoted(s, reason))
<1>1. s.waits + 1 \in Nat
  BY DEF OcrState
<1>2. Lesser(s.waits + 1, MaxWaits) \in Nat
  BY <1>1, PolicyTypes, LesserType
<1> QED
  BY <1>2 DEF NoCall, WaitNoted, OcrState

(* Extending the budget calls nothing.                                      *)
LEMMA BudgetedCallsNothing ==
    ASSUME NEW s \in OcrState, NEW near
    PROVE  NoCall(s, Budgeted(s, near))
BY PolicyTypes DEF NoCall, Budgeted, GrantRetry, OcrState

(* Noting an attempt calls nothing.                                         *)
LEMMA AttemptedCallsNothing ==
    ASSUME NEW s \in OcrState
    PROVE  NoCall(s, Attempted(s))
<1>1. s.attempts + 1 \in Nat
  BY DEF OcrState
<1> QED
  BY <1>1 DEF NoCall, Attempted, OcrState

(* Noting a width calls nothing.                                            *)
LEMMA ObservedCallsNothing ==
    ASSUME NEW s \in OcrState, NEW width \in Widths
    PROVE  NoCall(s, Observed(s, width))
<1> DEFINE w == Append(s.widths, width)
<1>0. width \in Nat /\ s.peak \in Nat /\ s.widths \in Seq(Nat)
  BY PolicyTypes DEF OcrState
<1>1. Most(s.peak, width) \in Nat
  BY <1>0 DEF Most
<1>2. w \in Seq(Nat) /\ w # <<>>
  BY <1>0
<1>3. Tail(w) \in Seq(Nat)
  BY <1>2
<1>4. (IF Len(w) > GrowthWindow + 1 THEN Tail(w) ELSE w) \in Seq(Nat)
  BY <1>2, <1>3
<1>5. Observed(s, width) =
        [s EXCEPT !.peak = Most(s.peak, width),
                  !.widths = IF Len(w) > GrowthWindow + 1 THEN Tail(w) ELSE w]
  BY DEF Observed, OcrState
<1> HIDE DEF w
<1> QED
  BY <1>1, <1>4, <1>5 DEF NoCall, OcrState

(* decide() asks the budget before every reason to run.                    *)
LEMMA OnlyWithinBudget ==
    ASSUME NEW s \in OcrState, NEW width \in Widths, NEW quality, NEW stale \in BOOLEAN
    PROVE  /\ Decide(s, width, quality, stale) \in Reasons
           /\ Decide(s, width, quality, stale) = "run" => s.calls < Budget
<1>1. width \in Nat /\ ReadWidth \in Nat /\ s.calls \in Nat /\ Budget \in Nat
  BY PolicyTypes, PolicyAssumption DEF PolicyIsValid, OcrState
<1>2. CASE stale
  BY <1>2 DEF Decide, Reasons
<1>3. CASE ~stale /\ width < ReadWidth
  BY <1>1, <1>3 DEF Decide, Reasons
<1>4. CASE ~stale /\ width >= ReadWidth /\ quality = Poor
  BY <1>1, <1>4 DEF Decide, Reasons
<1>5. CASE ~stale /\ width >= ReadWidth /\ quality # Poor
  BY <1>1, <1>5 DEF Decide, Reasons
<1> QED
  BY <1>1, <1>2, <1>3, <1>4, <1>5

(* The first pass over a frame calls nothing, and lets a vehicle go on to  *)
(* the second only while its budget lasts and its track is not final.      *)
LEMMA LocalizedCallsNothing ==
    ASSUME NEW s0 \in OcrState, NEW sight \in Sight, NEW stale \in BOOLEAN
    PROVE  /\ NoCall(s0, Localized(s0, sight, stale).state)
           /\ Localized(s0, sight, stale).verdict = "run" =>
                 s0.calls < Budget /\ ~s0.emitted
<1> DEFINE s == Aged(s0)
           b == Budgeted(s, sight.near)
           a == Attempted(b)
           o == Observed(a, sight.width)
           v == Decide(o, sight.width, sight.quality, stale)
           l == Localized(s0, sight, stale)
<1>1. NoCall(s0, s) /\ s \in OcrState
  BY AgedCallsNothing DEF NoCall
<1>2. NoCall(s0, b) /\ b \in OcrState
  <2>1. NoCall(s, b)
    BY <1>1, BudgetedCallsNothing
  <2> QED
    BY <1>1, <2>1, NoCallComposes DEF NoCall
<1>3. NoCall(s0, a) /\ a \in OcrState
  <2>1. NoCall(b, a)
    BY <1>2, AttemptedCallsNothing
  <2> QED
    BY <1>2, <2>1, NoCallComposes DEF NoCall
<1>4. CASE ~ShouldAttempt(s)
  <2>1. l = [state |-> s, verdict |-> "none"]
    BY <1>4 DEF Localized
  <2> QED
    BY <1>1, <2>1
<1>5. CASE ShouldAttempt(s) /\ (OcrRemaining(b) = 0 \/ sight.kind = "gated")
  <2>1. l = [state |-> b, verdict |-> "none"]
    BY <1>5 DEF Localized
  <2> QED
    BY <1>2, <2>1
<1> DEFINE Goes == ShouldAttempt(s) /\ ~(OcrRemaining(b) = 0 \/ sight.kind = "gated")
<1>6. CASE Goes /\ sight.kind = "fragment"
  <2>1. l = [state |-> WaitNoted(b, "partial_vehicle"), verdict |-> "none"]
    BY <1>6 DEF Localized
  <2>2. NoCall(b, WaitNoted(b, "partial_vehicle"))
    BY <1>2, WaitCallsNothing DEF Reasons
  <2> QED
    BY <1>2, <2>1, <2>2, NoCallComposes
<1>7. CASE Goes /\ sight.kind = "no_plate"
  <2>1. l = [state |-> a, verdict |-> "none"]
    BY <1>7 DEF Localized
  <2> QED
    BY <1>3, <2>1
<1>8. CASE Goes /\ sight.kind = "not_on_vehicle"
  <2>1. l = [state |-> WaitNoted(a, "plate_not_on_vehicle"), verdict |-> "none"]
    BY <1>8 DEF Localized
  <2>2. NoCall(a, WaitNoted(a, "plate_not_on_vehicle"))
    BY <1>3, WaitCallsNothing DEF Reasons
  <2> QED
    BY <1>3, <2>1, <2>2, NoCallComposes
<1>9. CASE Goes /\ sight.kind = "plate"
  <2>1. sight.width \in Widths
    BY <1>9 DEF Sight
  <2>2. NoCall(s0, o) /\ o \in OcrState
    <3>1. NoCall(a, o)
      BY <1>3, <2>1, ObservedCallsNothing
    <3> QED
      BY <1>3, <3>1, NoCallComposes DEF NoCall
  <2>3. v \in Reasons /\ (v = "run" => o.calls < Budget)
    BY <2>1, <2>2, OnlyWithinBudget
  <2>4. l = [state |-> IF v = "run" THEN o ELSE WaitNoted(o, v), verdict |-> v]
    BY <1>9 DEF Localized
  <2>5. NoCall(s0, WaitNoted(o, v))
    <3>1. NoCall(o, WaitNoted(o, v))
      BY <2>2, <2>3, WaitCallsNothing
    <3> QED
      BY <2>2, <3>1, NoCallComposes
  <2>6. ~s0.emitted
    BY <1>1, <1>9 DEF ShouldAttempt, NoCall
  <2> HIDE DEF o, v, l
  <2> QED
    BY <2>2, <2>3, <2>4, <2>5, <2>6 DEF NoCall, l
<1>10. sight.kind \in {"gated", "fragment", "no_plate", "not_on_vehicle", "plate"}
  BY DEF Sight
<1> HIDE DEF s, b, a, l
<1> QED
  BY <1>4, <1>5, <1>6, <1>7, <1>8, <1>9, <1>10 DEF l

(* A call is counted once and settles nothing else.                         *)
LEMMA AfterCallType ==
    ASSUME NEW s \in OcrState, NEW locks \in BOOLEAN
    PROVE  /\ AfterCall(s, locks) \in OcrState
           /\ AfterCall(s, locks).calls = s.calls + 1
           /\ AfterCall(s, locks).resolved = s.resolved
           /\ AfterCall(s, locks).emitted = s.emitted
<1>1. s.calls + 1 \in Nat
  BY DEF OcrState
<1>2. CallNoted(s) \in OcrState /\ CallNoted(s).calls = s.calls + 1
      /\ CallNoted(s).resolved = s.resolved /\ CallNoted(s).emitted = s.emitted
  BY <1>1 DEF CallNoted, OcrState, Reasons
<1> DEFINE c == CallNoted(s)
<1>3. AfterCall(s, locks) = [c EXCEPT !.locked = c.locked \/ (locks /\ c.calls >= LockMinReads)]
  BY DEF AfterCall
<1>4. (c.locked \/ (locks /\ c.calls >= LockMinReads)) \in BOOLEAN
  BY <1>2 DEF OcrState
<1> HIDE DEF c
<1> QED
  BY <1>2, <1>3, <1>4 DEF OcrState, c

(* A step without a call stays within the budget.                           *)
LEMMA NoCallKeeps ==
    ASSUME NEW s, NEW t, WithinBudget(s), NoCall(s, t)
    PROVE  WithinBudget(t)
BY DEF WithinBudget, NoCall

(* A frame stays within the budget, whatever it shows.                      *)
LEMMA FrameKeepsBudget ==
    ASSUME WithinBudget(state), NEW sight \in Sight, NEW stale \in BOOLEAN,
           NEW better \in Nat, NEW locks \in BOOLEAN, OcrFrame(sight, stale, better, locks)
    PROVE  WithinBudget(state')
<1> DEFINE p == Localized(state, sight, stale)
           runs == p.verdict = "run" /\ better < MaxPerFrame
<1>1. NoCall(state, p.state) /\ (p.verdict = "run" => state.calls < Budget /\ ~state.emitted)
  BY LocalizedCallsNothing DEF WithinBudget
<1>2. state' = IF runs THEN AfterCall(p.state, locks)
               ELSE IF p.verdict = "run"
               THEN WaitNoted(p.state, "frame_ocr_cap")
               ELSE p.state
  BY DEF OcrFrame
<1> HIDE DEF p
<1>3. CASE runs
  <2>1. state' = AfterCall(p.state, locks) /\ p.state \in OcrState
    BY <1>1, <1>2, <1>3 DEF NoCall
  <2>2. /\ state' \in OcrState /\ state'.calls = p.state.calls + 1
        /\ state'.resolved = p.state.resolved /\ state'.emitted = p.state.emitted
    BY <2>1, AfterCallType
  <2>3. /\ state'.calls = state.calls + 1 /\ state'.resolved = state.resolved
        /\ state'.emitted = state.emitted /\ state.calls < Budget
        /\ state.calls \in Nat /\ ~state.emitted
    BY <1>1, <1>3, <2>2 DEF NoCall, WithinBudget, OcrState
  <2> QED
    BY <2>2, <2>3, PolicyTypes DEF WithinBudget
<1>4. CASE ~runs /\ p.verdict = "run"
  <2>1. NoCall(p.state, WaitNoted(p.state, "frame_ocr_cap"))
    BY <1>1, WaitCallsNothing DEF NoCall, Reasons
  <2> QED
    BY <1>1, <1>2, <1>4, <2>1, NoCallComposes, NoCallKeeps
<1>5. CASE ~runs /\ p.verdict # "run"
  BY <1>1, <1>2, <1>5, NoCallKeeps
<1> QED
  BY <1>3, <1>4, <1>5

(* The retry at the end stays within budget and bonus.                      *)
LEMMA FinishKeeps ==
    ASSUME WithinBudget(state), Finish
    PROVE  WithinBudget(state')
<1>1. PICK near \in BOOLEAN, unread \in 0 .. RetryBonus + 1 :
          state' = [Resolved(near, unread) EXCEPT !.emitted = TRUE]
  BY DEF Finish
<1> DEFINE r == Resolved(near, unread)
<1>2. state \in OcrState /\ state.calls \in Nat /\ unread \in Nat
  BY PolicyTypes DEF WithinBudget, OcrState
<1>3. Lesser(unread, RetryBonus) \in Nat /\ Lesser(unread, RetryBonus) <= RetryBonus
  BY <1>2, PolicyTypes, LesserType
<1>4. CASE RetryBonus = 0 \/ state.resolved
  <2>1. r = state
    BY <1>4 DEF Resolved
  <2>2. state' = [state EXCEPT !.emitted = TRUE]
    BY <1>1, <2>1
  <2> HIDE DEF r
  <2>3. /\ state' \in OcrState /\ state'.calls = state.calls
        /\ state'.resolved = state.resolved /\ state'.emitted
    BY <1>2, <2>2 DEF OcrState
  <2>4. state.calls <= Budget + RetryBonus
    BY <1>2, PolicyTypes DEF WithinBudget
  <2>5. RetryBonus > 0 => state.resolved
    BY <1>4, PolicyTypes
  <2> QED
    BY <2>3, <2>4, <2>5 DEF WithinBudget
<1>5. CASE RetryBonus # 0 /\ ~state.resolved
  <2>1. ~state.emitted /\ state.calls <= Budget
    BY <1>5, PolicyTypes DEF WithinBudget
  <2> DEFINE k == IF NearlySettled(state, near)
                  THEN state.calls + Lesser(unread, RetryBonus) ELSE state.calls
  <2>2. k \in Nat /\ k <= Budget + RetryBonus
    BY <1>2, <1>3, <2>1, PolicyTypes
  <2>3. r = [state EXCEPT !.resolved = TRUE, !.calls = k]
    BY <1>5 DEF Resolved
  <2> HIDE DEF k, r
  <2>4. /\ state' \in OcrState /\ state'.calls = k
        /\ state'.resolved /\ state'.emitted
    BY <1>1, <1>2, <2>2, <2>3 DEF OcrState, r
  <2> QED
    BY <2>2, <2>4, PolicyTypes DEF WithinBudget
<1> QED
  BY <1>4, <1>5

(* A vehicle's frames never cost more recognizer calls than the budget,    *)
(* and the track never more than the budget and its bonus, for every       *)
(* policy, every sequence of views and every rival in the frame.           *)
THEOREM BudgetIsKeptCorrect == OcrSpec => []BudgetIsKept
<1>1. OcrInit => WithinBudget(state)
  <2> SUFFICES ASSUME OcrInit PROVE WithinBudget(state)
    OBVIOUS
  <2>1. FreshState \in OcrState
    BY PolicyTypes DEF FreshState, OcrState, Reasons
  <2>2. ~FreshState.emitted /\ ~FreshState.resolved /\ FreshState.calls = 0
    BY DEF FreshState
  <2> HIDE DEF FreshState
  <2> QED
    BY <2>1, <2>2, PolicyTypes DEF OcrInit, WithinBudget
<1>2. WithinBudget(state) /\ [OcrNext]_ocrVars => WithinBudget(state)'
  <2> SUFFICES ASSUME WithinBudget(state), [OcrNext]_ocrVars
               PROVE  WithinBudget(state')
    BY DEF WithinBudget, OcrState
  <2>1. CASE SomeFrame
    <3>1. MaxPerFrame \in Nat
      BY PolicyAssumption DEF PolicyIsValid
    <3>2. PICK sight \in Sight, stale \in BOOLEAN, better \in 0 .. MaxPerFrame,
               locks \in BOOLEAN : OcrFrame(sight, stale, better, locks)
      <4>1. 0 \in 0 .. MaxPerFrame /\ TRUE \in BOOLEAN /\ FALSE \in BOOLEAN
        BY <3>1
      <4> QED
        BY ONLY <2>1, <4>1, Zenon DEF SomeFrame
    <3>3. better \in Nat
      BY <3>1
    <3> QED
      BY <3>2, <3>3, FrameKeepsBudget
  <2>2. CASE Finish
    BY <2>2, FinishKeeps
  <2>3. CASE UNCHANGED ocrVars
    BY <2>3 DEF ocrVars
  <2> QED
    BY <2>1, <2>2, <2>3 DEF OcrNext
<1>3. WithinBudget(state) => BudgetIsKept
  <2>1. Budget \in Nat /\ RetryBonus \in Nat
    BY PolicyTypes
  <2> QED
    BY <2>1 DEF WithinBudget, OcrState, BudgetIsKept
<1> QED
  BY <1>1, <1>2, <1>3, PTL DEF OcrSpec

-----------------------------------------------------------------------------
(* s became t without a call: it has waited as often or more.              *)
Waiting(s, t) ==
    /\ t.waits \in Nat /\ s.waits <= t.waits /\ t.waits <= MaxWaits
    /\ t.sinceCall = s.sinceCall

(* PatienceIsBounded is not inductive by itself: until the patience is     *)
(* spent every declined crop was waited for, and until the pause after a   *)
(* call is over every declined crop was a frame of that pause.             *)
Patient ==
    /\ state \in OcrState /\ state.waits <= MaxWaits /\ declined \in Nat
    /\ state.waits < MaxWaits => declined <= state.waits
    /\ state.sinceCall < IntervalGood => declined <= state.sinceCall
    /\ PatienceIsBounded

(* The pause after a call is a number.                                      *)
LEMMA PauseTypes ==
    /\ IntervalGood \in Nat /\ MaxWaits \in Nat /\ IntervalGood > 0
    /\ FarCall \in Nat /\ IntervalGood <= FarCall
<1>1. {IntervalExcellent, IntervalGood, IntervalMarginal, MaxWaits} \subseteq Nat \ {0}
  BY PolicyAssumption DEF PolicyIsValid
<1> QED BY <1>1 DEF FarCall, Most

(* A wait counts one more, up to the limit, and is no call.                 *)
LEMMA WaitFacts ==
    ASSUME NEW s \in OcrState, s.waits <= MaxWaits, NEW reason
    PROVE  /\ Waiting(s, WaitNoted(s, reason))
           /\ WaitNoted(s, reason).waits > s.waits \/ WaitNoted(s, reason).waits = MaxWaits
<1>1. s.waits + 1 \in Nat /\ s.waits \in Nat
  BY DEF OcrState
<1>2. /\ WaitNoted(s, reason).waits = Lesser(s.waits + 1, MaxWaits)
      /\ WaitNoted(s, reason).sinceCall = s.sinceCall
  BY DEF WaitNoted, OcrState
<1> QED BY <1>1, <1>2, PauseTypes DEF Waiting, Lesser

(* decide(): at the end of the patience only the pause after a call, or an *)
(* exhausted budget, stands between a readable crop and a call.            *)
LEMMA OnlyThePauseDeclines ==
    ASSUME NEW s \in OcrState, s.waits >= MaxWaits, NEW width \in Widths, NEW quality,
           NEW stale \in BOOLEAN, Decide(s, width, quality, stale) \in Declines
    PROVE  s.sinceCall < IntervalGood
<1>1. width \in Nat /\ ReadWidth \in Nat /\ s.sinceCall \in Nat /\ IntervalGood \in Nat
  BY PolicyTypes, PolicyAssumption DEF PolicyIsValid, OcrState
<1> SUFFICES ASSUME s.sinceCall >= IntervalGood
             PROVE  FALSE
  BY <1>1
<1>2. CASE stale
  BY <1>2 DEF Decide, Declines
<1>3. CASE ~stale /\ width < ReadWidth
  BY <1>1, <1>3 DEF Decide, Declines
<1>4. CASE ~stale /\ width >= ReadWidth /\ quality = Poor
  BY <1>1, <1>4 DEF Decide, Declines
<1>5. CASE ~stale /\ width >= ReadWidth /\ quality # Poor
  BY <1>1, <1>5 DEF Decide, Declines
<1> QED BY <1>1, <1>2, <1>3, <1>4, <1>5

(* The first pass over a frame only adds to the patience, and ages the     *)
(* last call by one frame.                                                 *)
LEMMA LocalizedWaits ==
    ASSUME NEW s0 \in OcrState, s0.waits <= MaxWaits, NEW sight \in Sight, NEW stale \in BOOLEAN
    PROVE  LET l == Localized(s0, sight, stale) IN
           /\ Waiting(Aged(s0), l.state)
           /\ l.verdict \in Declines =>
                /\ l.state.waits > s0.waits \/ l.state.waits = MaxWaits
                /\ s0.waits >= MaxWaits => l.state.sinceCall < IntervalGood
<1> DEFINE s == Aged(s0)
           b == Budgeted(s, sight.near)
           a == Attempted(b)
           o == Observed(a, sight.width)
           v == Decide(o, sight.width, sight.quality, stale)
           l == Localized(s0, sight, stale)
<1>1. s \in OcrState /\ s.waits = s0.waits /\ Waiting(s, s)
  <2>1. s \in OcrState
    BY AgedCallsNothing DEF NoCall
  <2>2. s.waits = s0.waits
    BY DEF Aged, OcrState
  <2> QED BY <2>1, <2>2 DEF Waiting, OcrState
<1> HIDE DEF s
<1>2. b \in OcrState /\ b.waits = s.waits /\ b.sinceCall = s.sinceCall
  <2>1. b \in OcrState
    BY <1>1, BudgetedCallsNothing DEF NoCall
  <2> QED BY <1>1, <2>1 DEF Budgeted, GrantRetry, OcrState
<1> HIDE DEF b
<1>3. a \in OcrState /\ a.waits = s.waits /\ a.sinceCall = s.sinceCall
  <2>1. a \in OcrState
    BY <1>2, AttemptedCallsNothing DEF NoCall
  <2> QED BY <1>2, <2>1 DEF Attempted, OcrState
<1> HIDE DEF a
<1>4. ASSUME NEW t \in OcrState, t.waits = s.waits, t.sinceCall = s.sinceCall
      PROVE  Waiting(s, t)
  BY <1>1, <1>4 DEF Waiting
<1>5. ASSUME NEW t \in OcrState, t.waits = s.waits, t.sinceCall = s.sinceCall, NEW reason
      PROVE  /\ Waiting(s, WaitNoted(t, reason))
             /\ WaitNoted(t, reason).waits > s0.waits \/ WaitNoted(t, reason).waits = MaxWaits
  <2>1. Waiting(t, WaitNoted(t, reason))
        /\ (WaitNoted(t, reason).waits > t.waits \/ WaitNoted(t, reason).waits = MaxWaits)
    BY <1>1, <1>5, WaitFacts
  <2> QED BY <1>1, <1>5, <2>1 DEF Waiting
<1>6. CASE ~ShouldAttempt(s)
  <2>1. l = [state |-> s, verdict |-> "none"]
    BY <1>6 DEF Localized, s
  <2> QED BY <1>1, <2>1 DEF Declines, s
<1>7. CASE ShouldAttempt(s) /\ (OcrRemaining(b) = 0 \/ sight.kind = "gated")
  <2>1. l = [state |-> b, verdict |-> "none"]
    BY <1>7 DEF Localized, s, b
  <2> QED BY <1>2, <1>4, <2>1 DEF Declines, s
<1> DEFINE Goes == ShouldAttempt(s) /\ ~(OcrRemaining(b) = 0 \/ sight.kind = "gated")
<1>8. CASE Goes /\ sight.kind = "fragment"
  <2>1. l = [state |-> WaitNoted(b, "partial_vehicle"), verdict |-> "none"]
    BY <1>8 DEF Localized, s, b
  <2> QED BY <1>2, <1>5, <2>1 DEF Declines, s
<1>9. CASE Goes /\ sight.kind = "no_plate"
  <2>1. l = [state |-> a, verdict |-> "none"]
    BY <1>9 DEF Localized, s, b, a
  <2> QED BY <1>3, <1>4, <2>1 DEF Declines, s
<1>10. CASE Goes /\ sight.kind = "not_on_vehicle"
  <2>1. l = [state |-> WaitNoted(a, "plate_not_on_vehicle"), verdict |-> "none"]
    BY <1>10 DEF Localized, s, b, a
  <2> QED BY <1>3, <1>5, <2>1 DEF Declines, s
<1>11. CASE Goes /\ sight.kind = "plate"
  <2>1. sight.width \in Widths
    BY <1>11 DEF Sight
  <2>2. o \in OcrState /\ o.waits = s.waits /\ o.sinceCall = s.sinceCall
    <3>1. o \in OcrState
      BY <1>3, <2>1, ObservedCallsNothing DEF NoCall
    <3> QED BY <1>3, <3>1 DEF Observed, OcrState
  <2> HIDE DEF o
  <2>3. l = [state |-> IF v = "run" THEN o ELSE WaitNoted(o, v), verdict |-> v]
    BY <1>11 DEF Localized, s, b, a, o
  <2>4. ASSUME v \in Declines, s0.waits >= MaxWaits
        PROVE  o.sinceCall < IntervalGood
    BY <1>1, <2>1, <2>2, <2>4, OnlyThePauseDeclines
  <2>5. CASE v = "run"
    <3>1. l.state = o /\ l.verdict \notin Declines
      BY <2>3, <2>5 DEF Declines
    <3> QED BY <1>4, <2>2, <3>1 DEF s
  <2>6. CASE v # "run"
    <3>1. l.state = WaitNoted(o, v) /\ l.verdict = v
      BY <2>3, <2>6
    <3>2. WaitNoted(o, v).sinceCall = o.sinceCall
      BY <2>2 DEF WaitNoted, OcrState
    <3> HIDE DEF v, l
    <3> QED BY <1>5, <2>2, <2>4, <3>1, <3>2 DEF s, l
  <2> QED BY <2>5, <2>6
<1>12. sight.kind \in {"gated", "fragment", "no_plate", "not_on_vehicle", "plate"}
  BY DEF Sight
<1> QED BY <1>6, <1>7, <1>8, <1>9, <1>10, <1>11, <1>12

(* A frame declines a crop only while patience or pause last.               *)
LEMMA FrameKeepsPatience ==
    ASSUME Patient, NEW sight \in Sight, NEW stale \in BOOLEAN,
           NEW better \in Nat, NEW locks \in BOOLEAN, OcrFrame(sight, stale, better, locks)
    PROVE  Patient'
<1> DEFINE p == Localized(state, sight, stale)
           runs == p.verdict = "run" /\ better < MaxPerFrame
<1>1. /\ p.state \in OcrState /\ Waiting(Aged(state), p.state)
      /\ p.verdict \in Declines =>
            /\ p.state.waits > state.waits \/ p.state.waits = MaxWaits
            /\ state.waits >= MaxWaits => p.state.sinceCall < IntervalGood
  BY LocalizedCallsNothing, LocalizedWaits DEF Patient, NoCall
<1>2. /\ state' = IF runs THEN AfterCall(p.state, locks)
                  ELSE IF p.verdict = "run"
                  THEN WaitNoted(p.state, "frame_ocr_cap")
                  ELSE p.state
      /\ declined' = IF runs THEN 0
                     ELSE IF p.verdict \in Declines THEN declined + 1 ELSE declined
  BY DEF OcrFrame
<1> HIDE DEF p
<1>3. /\ state.waits \in Nat /\ state.sinceCall \in Nat /\ declined \in Nat
      /\ p.state.waits \in Nat /\ p.state.sinceCall \in Nat
      /\ state.waits <= p.state.waits /\ p.state.waits <= MaxWaits
      /\ p.state.sinceCall = IF state.sinceCall + 1 <= FarCall THEN state.sinceCall + 1 ELSE FarCall
  <2>1. /\ Aged(state).waits = state.waits
        /\ Aged(state).sinceCall = Lesser(state.sinceCall + 1, FarCall)
    BY DEF Patient, Aged, OcrState
  <2>2. state.waits \in Nat /\ state.sinceCall \in Nat /\ p.state.sinceCall \in Nat
    BY <1>1 DEF Patient, OcrState
  <2> QED BY <1>1, <2>1, <2>2 DEF Patient, Waiting, Lesser
<1>4. CASE runs
  <2>1. state' \in OcrState
    BY <1>1, <1>2, <1>4, AfterCallType
  <2>2. state'.waits = 0 /\ state'.sinceCall = 0
    BY <1>1, <1>2, <1>4 DEF AfterCall, CallNoted, OcrState
  <2>3. declined' = 0
    BY <1>2, <1>4
  <2> QED BY <2>1, <2>2, <2>3, PauseTypes DEF Patient, PatienceIsBounded, Most
<1>5. CASE ~runs
  <2>1. /\ state' \in OcrState /\ state'.waits \in Nat /\ state'.waits <= MaxWaits
        /\ p.state.waits <= state'.waits /\ state'.sinceCall = p.state.sinceCall
    <3>1. CASE p.verdict = "run"
      <4>1. state' = WaitNoted(p.state, "frame_ocr_cap")
        BY <1>2, <1>5, <3>1
      <4>2. Waiting(p.state, state')
        BY <1>1, <1>3, <4>1, WaitFacts
      <4>3. state' \in OcrState
        BY <1>1, <4>1, WaitCallsNothing DEF NoCall, Reasons
      <4> QED BY <4>2, <4>3 DEF Waiting
    <3>2. CASE p.verdict # "run"
      BY <1>1, <1>2, <1>3, <1>5, <3>2
    <3> QED BY <3>1, <3>2
  <2>2. CASE p.verdict \in Declines
    <3>1. declined' = declined + 1
      BY <1>2, <1>5, <2>2
    <3>2. state'.sinceCall < IntervalGood => state.sinceCall < IntervalGood
                                             /\ state'.sinceCall = state.sinceCall + 1
      BY <1>3, <2>1, PauseTypes
    <3>3. state'.sinceCall < IntervalGood => declined' <= state'.sinceCall
      BY <1>3, <3>1, <3>2 DEF Patient
    <3>4. state.waits < MaxWaits => declined <= state.waits
      BY DEF Patient
    <3>5. state'.waits < MaxWaits => declined' <= state'.waits
      BY <1>1, <1>3, <2>1, <2>2, <3>1, <3>4, PauseTypes
    <3>6. declined' <= Most(MaxWaits, IntervalGood - 1)
      <4>1. CASE state.waits < MaxWaits
        BY <1>3, <3>1, <3>4, <4>1, PauseTypes DEF Most
      <4>2. CASE state.waits >= MaxWaits
        <5>1. state'.sinceCall < IntervalGood
          BY <1>1, <2>1, <2>2, <4>2
        <5> QED BY <1>3, <2>1, <3>1, <3>3, <5>1, PauseTypes DEF Most
      <4> QED BY <1>3, <4>1, <4>2, PauseTypes
    <3> QED BY <1>3, <2>1, <3>1, <3>3, <3>5, <3>6 DEF Patient, PatienceIsBounded
  <2>3. CASE p.verdict \notin Declines
    <3>1. declined' = declined
      BY <1>2, <1>5, <2>3
    <3>2. state'.sinceCall < IntervalGood => declined' <= state'.sinceCall
      BY <1>3, <2>1, <3>1, PauseTypes DEF Patient
    <3>3. state'.waits < MaxWaits => declined' <= state'.waits
      BY <1>3, <2>1, <3>1, PauseTypes DEF Patient
    <3> QED BY <1>3, <2>1, <3>1, <3>2, <3>3 DEF Patient, PatienceIsBounded
  <2> QED BY <2>2, <2>3
<1> QED BY <1>4, <1>5

(* The end of a track declines nothing.                                     *)
LEMMA FinishKeepsPatience ==
    ASSUME Patient, Finish
    PROVE  Patient'
<1>1. PICK near \in BOOLEAN, unread \in 0 .. RetryBonus + 1 :
          state' = [Resolved(near, unread) EXCEPT !.emitted = TRUE]
  BY DEF Finish
<1>2. /\ Resolved(near, unread) \in OcrState
      /\ Resolved(near, unread).waits = state.waits
      /\ Resolved(near, unread).sinceCall = state.sinceCall
  <2>1. unread \in Nat /\ RetryBonus \in Nat /\ state \in OcrState /\ state.calls \in Nat
    BY PolicyTypes DEF Patient, OcrState
  <2>2. state.calls + Lesser(unread, RetryBonus) \in Nat
    BY <2>1, LesserType, SMTT(30)
  <2> QED BY <2>1, <2>2 DEF Resolved, OcrState
<1>3. state' \in OcrState /\ state'.waits = state.waits /\ state'.sinceCall = state.sinceCall
  BY <1>1, <1>2 DEF OcrState
<1>4. declined' = declined
  BY DEF Finish
<1> QED BY <1>3, <1>4 DEF Patient, PatienceIsBounded

(* Waiting for a better view ends, for every policy, every sequence of     *)
(* views and every rival: of the readable crops of a vehicle no more are   *)
(* declined in a row than its patience, or the pause after a call, is long *)
(* (decide(), note_wait(), note_ocr()).                                    *)
THEOREM PatienceIsBoundedCorrect == OcrSpec => []PatienceIsBounded
<1>1. OcrInit => Patient
  <2> SUFFICES ASSUME OcrInit PROVE Patient
    OBVIOUS
  <2>1. FreshState \in OcrState
    BY PolicyTypes DEF FreshState, OcrState, Reasons
  <2>2. FreshState.waits = 0 /\ FreshState.sinceCall = FarCall
    BY DEF FreshState
  <2> HIDE DEF FreshState
  <2> QED BY <2>1, <2>2, PauseTypes DEF OcrInit, Patient, PatienceIsBounded, Most
<1>2. Patient /\ [OcrNext]_ocrVars => Patient'
  <2> SUFFICES ASSUME Patient, [OcrNext]_ocrVars
               PROVE  Patient'
    OBVIOUS
  <2>1. CASE SomeFrame
    <3>1. MaxPerFrame \in Nat
      BY PolicyAssumption DEF PolicyIsValid
    <3>2. PICK sight \in Sight, stale \in BOOLEAN, better \in 0 .. MaxPerFrame,
               locks \in BOOLEAN : OcrFrame(sight, stale, better, locks)
      <4>1. 0 \in 0 .. MaxPerFrame /\ TRUE \in BOOLEAN /\ FALSE \in BOOLEAN
        BY <3>1
      <4> QED BY ONLY <2>1, <4>1, Zenon DEF SomeFrame
    <3>3. better \in Nat
      BY <3>1
    <3> QED BY <3>2, <3>3, FrameKeepsPatience
  <2>2. CASE Finish
    BY <2>2, FinishKeepsPatience
  <2>3. CASE UNCHANGED ocrVars
    BY <2>3 DEF ocrVars, Patient, PatienceIsBounded
  <2> QED BY <2>1, <2>2, <2>3 DEF OcrNext
<1>3. Patient => PatienceIsBounded
  BY DEF Patient
<1> QED BY <1>1, <1>2, <1>3, PTL DEF OcrSpec
==============================================================================
