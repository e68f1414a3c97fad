----------------------------- MODULE ByteTracker -----------------------------
(***************************************************************************)
(* The vehicle tracker (ai/vehicle_tracker/bytetrack.py): which tracks     *)
(* exist, how sure the tracker is of each, and which it reports as         *)
(* retired.  Boxes, costs and the assignment are abstracted to the set of  *)
(* tracks some detection is matched with and the number of confident       *)
(* detections no track takes; both passes treat a matched track alike.     *)
(***************************************************************************)
EXTENDS Integers, FiniteSets, Sequences, Functions

CONSTANTS MaxTracks,     \* bound: track ids handed out (itertools.count)
          MinHits,       \* hits that make a track real
          TrackBuffer    \* frames a track survives without a detection

ASSUME TrackerAssumption ==
    /\ MaxTracks \in Nat \ {0}
    /\ MinHits \in Nat \ {0}
    /\ TrackBuffer \in Nat

VARIABLES tracks,        \* id -> _Strack, for the ids in ByteTracker._tracks
          nextId,        \* the next id of ByteTracker._ids
          removed        \* ids retired since the last removed_track_ids()

trackerVars == <<tracks, nextId, removed>>

TrackId == 1 .. MaxTracks

(* hits is only compared with min_hits, so it stops counting there, and    *)
(* time_since_update only with track_buffer.                               *)
Strack == [state : {"tentative", "confirmed", "lost"},
           hits  : 1 .. MinHits,
           tsu   : 0 .. TrackBuffer + 1]

Least(a, b) == IF a <= b THEN a ELSE b

NewTrack == [state |-> "tentative", hits |-> 1, tsu |-> 0]

Predicted(t) == [t EXCEPT !.tsu = Least(@ + 1, TrackBuffer + 1)]

Updated(t) ==
    LET hits == Least(t.hits + 1, MinHits) IN
    [state |-> IF t.state = "lost" \/ hits >= MinHits
               THEN "confirmed" ELSE t.state,
     hits  |-> hits,
     tsu   |-> 0]

Missed(t) == [t EXCEPT !.state = IF @ = "tentative" THEN "removed" ELSE "lost"]

Retires(t) == t.state = "removed" \/ t.tsu > TrackBuffer

(* A frame without detector: extrapolate, associate and retire nothing.    *)
Coasted == [tracks |-> [i \in DOMAIN tracks |-> Predicted(tracks[i])],
            nextId |-> nextId,
            removed |-> removed]

(* A frame with detector: matched tracks are updated, the others missed,   *)
(* "new" confident detections start tracks, and the retired leave.         *)
Associated(matched, new) ==
    LET seen == [i \in DOMAIN tracks \cup (nextId .. nextId + new - 1) |->
                    IF i \notin DOMAIN tracks THEN NewTrack
                    ELSE IF i \in matched THEN Updated(Predicted(tracks[i]))
                    ELSE Missed(Predicted(tracks[i]))]
        retired == {i \in DOMAIN seen : Retires(seen[i])}
    IN [tracks  |-> Restrict(seen, DOMAIN seen \ retired),
        nextId  |-> nextId + new,
        removed |-> removed \cup {i \in retired : seen[i].hits >= MinHits}]

(* What one update() may leave, whatever the boxes of the frame were.      *)
Update(detectorRan) ==
    IF detectorRan
    THEN {Associated(matched, new) : matched \in SUBSET DOMAIN tracks,
                                     new \in 0 .. MaxTracks + 1 - nextId}
    ELSE {Coasted}

(* The tracks update() returns, once it has left the tracker in t.         *)
Visible(t, detectorRan) ==
    {i \in DOMAIN t.tracks :
        IF detectorRan
        THEN t.tracks[i].state = "confirmed" /\ t.tracks[i].tsu = 0
        ELSE t.tracks[i].state # "lost" /\ t.tracks[i].tsu <= TrackBuffer}

TrackerInit ==
    /\ tracks = <<>>
    /\ nextId = 1
    /\ removed = {}

TrackerTypeOK ==
    /\ DOMAIN tracks \subseteq TrackId
    /\ \A i \in DOMAIN tracks : tracks[i] \in Strack
    /\ nextId \in 1 .. MaxTracks + 1
    /\ removed \subseteq TrackId
==============================================================================
