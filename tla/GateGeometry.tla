----------------------------- MODULE GateGeometry -----------------------------
(***************************************************************************)
(* The pure geometry of the gate: whether a vehicle's path crosses the     *)
(* virtual line and which way (video/line_crossing.py), and whether a      *)
(* plate box can sit on a vehicle box (video/plate_association.py).        *)
(* Coordinates are integers; fractions are in hundredths.                  *)
(***************************************************************************)
EXTENDS Integers, Sequences, FiniteSets, FiniteSetsExt

CONSTANTS LineA, LineB,           \* the ends of the line, <<x, y>>
          Threshold,              \* cross product below which a side is noise
          FrameWidth, FrameHeight,
          InsideTolerance, MinWidthRatio, MaxWidthRatio,
          MinVertical, MaxVertical, MaxEdgeClip, PlateEdgeMargin

(* The line is drawn in pixels; DEFAULT_INSIDE_TOLERANCE is 0.15, and only *)
(* a plate more than half inside is a plate on the vehicle.                *)
ASSUME GateAssumption ==
    /\ LineA \in Int \X Int
    /\ LineB \in Int \X Int
    /\ Threshold \in Nat
    /\ InsideTolerance \in 0 .. 49

Boxes == [x1 : Int, y1 : Int, x2 : Int, y2 : Int]

(* Signed distance of a point from the line, times the line's length.      *)
Side(p) == (LineB[1] - LineA[1]) * (p[2] - LineA[2])
           - (LineB[2] - LineA[2]) * (p[1] - LineA[1])

Orientation(p, q, r) ==
    (q[2] - p[2]) * (r[1] - q[1]) - (q[1] - p[1]) * (r[2] - q[2])

(* Mutant: a segment that only touches the line does not intersect it.     *)
StrictlyIntersect(p1, p2, p3, p4) ==
    /\ Orientation(p3, p4, p1) * Orientation(p3, p4, p2) < 0
    /\ Orientation(p1, p2, p3) * Orientation(p1, p2, p4) < 0

SegmentsIntersect(p1, p2, p3, p4) ==
    /\ (Orientation(p3, p4, p1) > 0) # (Orientation(p3, p4, p2) > 0)
    /\ (Orientation(p1, p2, p3) > 0) # (Orientation(p1, p2, p4) > 0)

CrossesSegment(history) ==
    \E i \in 1 .. Len(history) - 1 :
        SegmentsIntersect(LineA, LineB, history[i], history[i + 1])

Significant(history) ==
    {i \in DOMAIN history : Side(history[i]) > Threshold \/ Side(history[i]) < -Threshold}

(* VirtualLine.check(): "in" is forward.                                   *)
Crossing(history) ==
    LET far == Significant(history)
        first == Side(history[Min(far)]) > 0
        last == Side(history[Max(far)]) > 0
    IN IF far = {} THEN "none"
       ELSE IF first = last \/ ~CrossesSegment(history) THEN "none"
       ELSE IF last THEN "in" ELSE "out"

-----------------------------------------------------------------------------
(* Boxes are [x1, y1, x2, y2].                                             *)
Width(b) == b.x2 - b.x1
Height(b) == b.y2 - b.y1
Overlap(lo1, hi1, lo2, hi2) == Max({0, Min({hi1, hi2}) - Max({lo1, lo2})})

InsideArea(p, v) == Overlap(p.x1, p.x2, v.x1, v.x2) * Overlap(p.y1, p.y2, v.y1, v.y2)

(* Mutant: containment is tested across the lane only.                     *)
ContainedAcross(p, v) ==
    100 * Overlap(p.x1, p.x2, v.x1, v.x2) >= (100 - InsideTolerance) * Width(p)

Contained(p, v) ==
    100 * InsideArea(p, v) >= (100 - InsideTolerance) * Width(p) * Height(p)

PlausibleWidth(p, v) ==
    /\ 100 * Width(p) >= MinWidthRatio * Width(v)
    /\ 100 * Width(p) <= MaxWidthRatio * Width(v)

PlateWithinFrame(p) ==
    /\ p.x1 > PlateEdgeMargin /\ p.y1 > PlateEdgeMargin
    /\ p.x2 < FrameWidth - 1 - PlateEdgeMargin
    /\ p.y2 < FrameHeight - 1 - PlateEdgeMargin

VerticallyClipped(v) == v.y1 <= 0 \/ v.y2 >= FrameHeight - 1

PlausibleHeight(p, v) ==
    LET twiceAbove == p.y1 + p.y2 - 2 * v.y1 IN
    /\ 100 * twiceAbove >= 2 * MinVertical * Height(v)
    /\ 100 * twiceAbove <= 2 * MaxVertical * Height(v)

(* plate_association.validate()                                            *)
PlateOnVehicle(p, v) ==
    /\ Width(v) > 0 /\ Height(v) > 0 /\ Width(p) > 0 /\ Height(p) > 0
    /\ Contained(p, v)
    /\ PlausibleWidth(p, v)
    /\ PlateWithinFrame(p)
    /\ VerticallyClipped(v) \/ PlausibleHeight(p, v)

(* vehicle_laterally_visible(), the slack in hundredths of a pixel         *)
LaterallyVisible(v) ==
    LET slack == Max({100, MaxEdgeClip * Max({1, Width(v)})}) IN
    /\ 100 * v.x1 > slack - 100
    /\ 100 * v.x2 < 100 * FrameWidth - slack

(* A plate is looked for on a vehicle whose width is in view, and followed *)
(* when it can sit on it.                                                  *)
MayBeFollowed(p, v) == LaterallyVisible(v) /\ PlateOnVehicle(p, v)
===============================================================================
