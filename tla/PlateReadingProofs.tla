-------------------------- MODULE PlateReadingProofs --------------------------
EXTENDS PlateReading, WellFoundedInduction, FiniteSetTheorems,
        SequenceTheorems, TLAPS
(***************************************************************************)
(* Proofs about PlateReading, for every alphabet, set of formats, gate,    *)
(* registry and set of calls that its assumptions allow, in this order:    *)
(* the geometry of a plate on a vehicle and of a path through the gate,    *)
(* the repair of a misread, the decoding from the recognizer's             *)
(* alternatives, the evidence that stays with its character, the pictures  *)
(* that stay with the texts they were read as, the one resident a text     *)
(* matches, the doubt that a verdict does not hide, and the one vehicle    *)
(* whose views are sent.                                                   *)
(***************************************************************************)
(* What is defined by recursion over a number (a sum, a filter, a ranking) *)
(* is reasoned about in one way throughout: a function that satisfies the  *)
(* recursion exists (Accumulates), so the one the definition picks         *)
(* satisfies it too, and what holds of 0 and of each next number holds of  *)
(* all (UpTo, from the least element of a set of numbers).                 *)
(***************************************************************************)

(* A nonempty set of natural numbers has a least element: what takes the    *)
(* place of induction over a number.                                        *)
LEMMA Least ==
    ASSUME NEW T \in SUBSET Nat, T # {}
    PROVE  \E m \in T : \A k \in T : m <= k
<1> DEFINE R == OpToRel(<, Nat)
<1>1. \A x, y \in Nat : x < y => <<x, y>> \in R
  BY DEF OpToRel
<1>2. IsWellFoundedOn(R, Nat)
  BY NatLessThanWellFounded
<1> HIDE DEF R
<1>3. PICK x \in T : \A y \in T : ~(<<y, x>> \in R)
  BY <1>2, WFMin
<1>4. \A y \in T : ~(y < x)
  BY <1>1, <1>3
<1> QED BY <1>4

(* A call, once made, is one of the calls there are.                       *)
KnownCall == input = NoCall \/ input \in CallInputs

(* What the checks of the calls rest on: only a known call is ever made.   *)
LEMMA CallsAreKnown == Spec => []KnownCall
<1>1. Init => KnownCall
  BY DEF Init, KnownCall
<1>2. KnownCall /\ [Next]_vars => KnownCall'
  BY DEF KnownCall, Next, Observe, Glimpse, PlateMissed, Read, Finish, Call, vars
<1> QED BY <1>1, <1>2, PTL DEF Spec

(* The larger of two numbers.                                               *)
LEMMA MaxOfTwo ==
    ASSUME NEW a \in Int, NEW b \in Int
    PROVE  Max({a, b}) = IF a >= b THEN a ELSE b
BY DEF Max

(* The smaller of two numbers.                                              *)
LEMMA MinOfTwo ==
    ASSUME NEW a \in Int, NEW b \in Int
    PROVE  Min({a, b}) = IF a <= b THEN a ELSE b
BY DEF Min

(* Multiplying by a natural number keeps the order.                         *)
LEMMA MulMonotone ==
    ASSUME NEW a \in Int, NEW b \in Int, NEW c \in Nat, a <= b
    PROVE  a * c <= b * c
<1>1. (b - a) * c >= 0
  OBVIOUS
<1> QED BY <1>1

(* The overlap of two intervals, by cases.                                  *)
LEMMA OverlapValue ==
    ASSUME NEW a \in Int, NEW b \in Int, NEW c \in Int, NEW d \in Int
    PROVE  \E lo, hi \in Int :
              /\ lo = (IF a >= c THEN a ELSE c)
              /\ hi = (IF b <= d THEN b ELSE d)
              /\ Overlap(a, b, c, d) = IF hi >= lo THEN hi - lo ELSE 0
<1>1. Min({b, d}) - Max({a, c}) =
        (IF b <= d THEN b ELSE d) - (IF a >= c THEN a ELSE c)
  BY MaxOfTwo, MinOfTwo
<1>2. Overlap(a, b, c, d) =
        Max({0, (IF b <= d THEN b ELSE d) - (IF a >= c THEN a ELSE c)})
  BY <1>1 DEF Overlap
<1>3. 0 \in Int /\ (IF b <= d THEN b ELSE d) - (IF a >= c THEN a ELSE c) \in Int
  OBVIOUS
<1> HIDE DEF Overlap
<1> QED BY <1>2, <1>3, MaxOfTwo

(* Of two intervals that do not meet, a third one has no part twice.       *)
LEMMA Disjoint ==
    ASSUME NEW a \in Int, NEW b \in Int, NEW c \in Int, NEW d \in Int,
           NEW e \in Int, NEW f \in Int, a < b, c < d, e < f
    PROVE  Overlap(c, d, e, f) = 0
           => Overlap(a, b, c, d) + Overlap(a, b, e, f) <= b - a
<1>1. PICK lo1, hi1 \in Int :
              /\ lo1 = (IF a >= c THEN a ELSE c)
              /\ hi1 = (IF b <= d THEN b ELSE d)
              /\ Overlap(a, b, c, d) = IF hi1 >= lo1 THEN hi1 - lo1 ELSE 0
  BY OverlapValue
<1>2. PICK lo2, hi2 \in Int :
              /\ lo2 = (IF a >= e THEN a ELSE e)
              /\ hi2 = (IF b <= f THEN b ELSE f)
              /\ Overlap(a, b, e, f) = IF hi2 >= lo2 THEN hi2 - lo2 ELSE 0
  BY OverlapValue
<1>3. PICK lo, hi \in Int :
              /\ lo = (IF c >= e THEN c ELSE e)
              /\ hi = (IF d <= f THEN d ELSE f)
              /\ Overlap(c, d, e, f) = IF hi >= lo THEN hi - lo ELSE 0
  BY OverlapValue
<1> SUFFICES ASSUME Overlap(c, d, e, f) = 0
             PROVE  Overlap(a, b, c, d) + Overlap(a, b, e, f) <= b - a
  OBVIOUS
<1>4. d <= e \/ f <= c
  <2>1. hi <= lo
    BY <1>3
  <2>2. (lo = c \/ lo = e) /\ (hi = d \/ hi = f) /\ hi \in Int /\ lo \in Int
    BY <1>3
  <2> QED BY <2>1, <2>2
<1> QED BY <1>1, <1>2, <1>4

(* The overlap of two intervals is no longer than the first.                *)
LEMMA Within ==
    ASSUME NEW a \in Int, NEW b \in Int, NEW c \in Int, NEW d \in Int, a < b
    PROVE  Overlap(a, b, c, d) \in 0 .. b - a
<1>1. PICK lo, hi \in Int :
              /\ lo = (IF a >= c THEN a ELSE c)
              /\ hi = (IF b <= d THEN b ELSE d)
              /\ Overlap(a, b, c, d) = IF hi >= lo THEN hi - lo ELSE 0
  BY OverlapValue
<1> QED BY <1>1

(* Two parts of a plate that share no column (or no row) are together no   *)
(* larger than the plate.                                                  *)
LEMMA Areas ==
    ASSUME NEW w \in Nat, NEW h \in Nat, NEW p \in Nat, NEW q \in Nat,
           NEW r \in Nat, NEW s \in Nat,
           p + q <= w, r <= h, s <= h
    PROVE  p * r + q * s <= w * h
<1>1. r * p <= h * p /\ s * q <= h * q
  BY MulMonotone
<1>2. (p + q) * h <= w * h
  BY MulMonotone
<1> QED BY <1>1, <1>2

(* Two parts that do not meet cannot each be more than half of a whole.     *)
LEMMA HalfIsNotEnough ==
    ASSUME NEW A \in Nat, NEW B \in Nat, NEW C \in Nat, C > 0, A + B <= C,
           NEW t \in 0 .. 49, 100 * A >= (100 - t) * C, 100 * B >= (100 - t) * C
    PROVE  FALSE
<1>1. 100 * C >= (2 * (100 - t)) * C
  OBVIOUS
<1>2. (2 * (100 - t) - 100) * C > 0
  OBVIOUS
<1> QED BY <1>1, <1>2

(* A product is zero only when a factor is.                                 *)
LEMMA ZeroProduct ==
    ASSUME NEW a \in Nat, NEW b \in Nat, a * b = 0
    PROVE  a = 0 \/ b = 0
OBVIOUS

(* A plate box lies on at most one of two vehicle boxes that do not meet.   *)
LEMMA OneVehicle ==
    ASSUME NEW p \in Boxes, NEW v \in Boxes, NEW u \in Boxes,
           PlateOnVehicle(p, v), PlateOnVehicle(p, u), InsideArea(v, u) = 0
    PROVE  FALSE
<1> DEFINE vx == Overlap(p.x1, p.x2, v.x1, v.x2)
           vy == Overlap(p.y1, p.y2, v.y1, v.y2)
           ux == Overlap(p.x1, p.x2, u.x1, u.x2)
           uy == Overlap(p.y1, p.y2, u.y1, u.y2)
           w == p.x2 - p.x1
           h == p.y2 - p.y1
<1>1. /\ p.x1 \in Int /\ p.x2 \in Int /\ p.y1 \in Int /\ p.y2 \in Int
      /\ v.x1 \in Int /\ v.x2 \in Int /\ v.y1 \in Int /\ v.y2 \in Int
      /\ u.x1 \in Int /\ u.x2 \in Int /\ u.y1 \in Int /\ u.y2 \in Int
  BY DEF Boxes
<1>2. /\ p.x1 < p.x2 /\ p.y1 < p.y2
      /\ v.x1 < v.x2 /\ v.y1 < v.y2
      /\ u.x1 < u.x2 /\ u.y1 < u.y2
  BY <1>1 DEF PlateOnVehicle, Width, Height
<1>3. /\ Overlap(v.x1, v.x2, u.x1, u.x2) \in Nat
      /\ Overlap(v.y1, v.y2, u.y1, u.y2) \in Nat
  <2>1. /\ Overlap(v.x1, v.x2, u.x1, u.x2) \in 0 .. v.x2 - v.x1
        /\ Overlap(v.y1, v.y2, u.y1, u.y2) \in 0 .. v.y2 - v.y1
    BY <1>1, <1>2, Within
  <2> QED BY <1>1, <2>1
<1>4. \/ Overlap(v.x1, v.x2, u.x1, u.x2) = 0
      \/ Overlap(v.y1, v.y2, u.y1, u.y2) = 0
  <2> DEFINE across == Overlap(v.x1, v.x2, u.x1, u.x2)
             along == Overlap(v.y1, v.y2, u.y1, u.y2)
  <2>1. across * along = 0
    BY DEF InsideArea
  <2>2. across \in Nat /\ along \in Nat
    BY <1>3
  <2> HIDE DEF across, along
  <2>3. across = 0 \/ along = 0
    BY <2>1, <2>2, ZeroProduct
  <2> QED BY <2>3 DEF across, along
<1>5. /\ vx \in Nat /\ vy \in Nat /\ ux \in Nat /\ uy \in Nat
      /\ vx <= w /\ ux <= w /\ vy <= h /\ uy <= h /\ w \in Nat /\ h \in Nat
  <2>1. vx \in 0 .. w /\ ux \in 0 .. w /\ vy \in 0 .. h /\ uy \in 0 .. h
    BY <1>1, <1>2, Within
  <2>2. w \in Nat /\ h \in Nat
    BY <1>1, <1>2
  <2> HIDE DEF vx, vy, ux, uy, w, h
  <2> QED BY <2>1, <2>2
<1>6. vx + ux <= w \/ vy + uy <= h
  BY <1>1, <1>2, <1>4, Disjoint
<1>7. /\ 100 * (vx * vy) >= (100 - InsideTolerance) * w * h
      /\ 100 * (ux * uy) >= (100 - InsideTolerance) * w * h
  BY DEF PlateOnVehicle, Contained, InsideArea, Width, Height
<1>8. w > 0 /\ h > 0
  BY <1>1, <1>2
<1> HIDE DEF vx, vy, ux, uy, w, h
<1>9. vx * vy + ux * uy <= w * h
  <2>1. CASE vx + ux <= w
    BY <1>5, <2>1, Areas
  <2>2. CASE vy + uy <= h
    <3>1. vy * vx + uy * ux <= h * w
      BY <1>5, <2>2, Areas
    <3> QED BY <1>5, <3>1
  <2> QED BY <1>6, <2>1, <2>2
<1>10. /\ vx * vy \in Nat /\ ux * uy \in Nat /\ w * h \in Nat /\ w * h > 0
       /\ (100 - InsideTolerance) * w * h = (100 - InsideTolerance) * (w * h)
       /\ InsideTolerance \in 0 .. 49
  BY <1>5, <1>8, GateAssumption
<1> QED BY <1>7, <1>9, <1>10, HalfIsNotEnough

(* Two vehicles whose boxes do not meet are never both given one plate.    *)
THEOREM OnePlateOneVehicleCorrect == Spec => []OnePlateOneVehicle
<1>1. KnownCall => OnePlateOneVehicle
  <2> SUFFICES ASSUME KnownCall, input.function = "associate",
                      MayBeFollowed(input.plate, input.first),
                      MayBeFollowed(input.plate, input.second),
                      InsideArea(input.first, input.second) = 0
               PROVE  FALSE
    BY DEF OnePlateOneVehicle
  <2>1. input \in CallInputs
    BY DEF KnownCall, NoCall
  <2>2. input.plate \in Boxes /\ input.first \in Boxes /\ input.second \in Boxes
    BY <2>1, CallsAssumption
  <2> QED BY <2>2, OneVehicle DEF MayBeFollowed
<1> QED BY <1>1, CallsAreKnown, PTL

-----------------------------------------------------------------------------

(* The least and the greatest index of a path.                              *)
LEMMA Extremes ==
    ASSUME NEW n \in Nat, NEW T \in SUBSET (1 .. n), 1 \in T, n \in T
    PROVE  Min(T) = 1 /\ Max(T) = n
<1>1. (\A y \in T : 1 <= y) /\ (\A y \in T : n >= y)
  OBVIOUS
<1>2. Min(T) \in T /\ \A y \in T : Min(T) <= y
  BY <1>1 DEF Min
<1>3. Max(T) \in T /\ \A y \in T : Max(T) >= y
  BY <1>1 DEF Max
<1>4. Min(T) \in 1 .. n /\ Max(T) \in 1 .. n /\ Min(T) <= 1 /\ Max(T) >= n
  BY <1>2, <1>3
<1> QED BY <1>4

(* A sequence of yes and no that ends otherwise than it starts changes     *)
(* somewhere.                                                              *)
LEMMA Turn ==
    ASSUME NEW n \in Nat, n >= 1, NEW P, ~(1 \in P <=> n \in P)
    PROVE  \E i \in 1 .. n - 1 : ~(i \in P <=> i + 1 \in P)
<1> DEFINE T == {k \in 1 .. n : ~(k \in P <=> 1 \in P)}
<1>1. T \in SUBSET Nat /\ T # {}
  BY n \in T
<1>2. PICK m \in T : \A k \in T : m <= k
  BY <1>1, Least
<1>3. m - 1 \in 1 .. n - 1 /\ m - 1 \notin T
  BY <1>2
<1> QED BY <1>2, <1>3

(* A point's distance from the gate and its position along it are integers. *)
LEMMA Integral == ASSUME NEW p \in Int \X Int PROVE Side(p) \in Int /\ Along(p) \in Int
<1>1. /\ p[1] \in Int /\ p[2] \in Int /\ LineA[1] \in Int /\ LineA[2] \in Int
      /\ LineB[1] \in Int /\ LineB[2] \in Int
  BY GateAssumption
<1> QED BY <1>1 DEF Side, Along

(* The side and the position of a point, measured from the other end of the *)
(* segment.                                                                 *)
LEMMA Shift ==
    ASSUME NEW a \in Int, NEW b \in Int, NEW c \in Int, NEW d \in Int,
           NEW x \in Int, NEW y \in Int
    PROVE  /\ (c - a) * (y - d) - (d - b) * (x - c) = (c - a) * (y - b) - (d - b) * (x - a)
           /\ (c - a) * (x - c) + (d - b) * (y - d)
              = ((c - a) * (x - a) + (d - b) * (y - b)) - ((c - a) * (c - a) + (d - b) * (d - b))
OBVIOUS

(* The identity behind the intersection test: what two steps of a path tell *)
(* of the ends of the gate.                                                 *)
LEMMA Cross ==
    ASSUME NEW a \in Int, NEW b \in Int, NEW c \in Int, NEW d \in Int,
           NEW x \in Int, NEW y \in Int
    PROVE  (x * x + y * y) * (b * c - a * d)
           = (x * b - y * a) * (x * c + y * d) - (x * d - y * c) * (x * a + y * b)
OBVIOUS

(* The orientation of three points, measured from the third.                *)
LEMMA Relative ==
    ASSUME NEW p \in Int \X Int, NEW q \in Int \X Int, NEW r \in Int \X Int
    PROVE  Orientation(p, q, r)
           = (p[2] - r[2]) * (q[1] - r[1]) - (p[1] - r[1]) * (q[2] - r[2])
BY DEF Orientation

(* Seen from a step of the path, each end of the line is on the side that  *)
(* the step's distances from the line and along it tell.                   *)
LEMMA Ends ==
    ASSUME NEW p \in Int \X Int, NEW q \in Int \X Int
    PROVE  /\ Along(LineB) * Orientation(p, q, LineA)
              = Side(p) * Along(q) - Side(q) * Along(p)
           /\ Along(LineB) * Orientation(p, q, LineB)
              = Side(p) * (Along(q) - Along(LineB)) - Side(q) * (Along(p) - Along(LineB))
<1> DEFINE x == LineB[1] - LineA[1]
           y == LineB[2] - LineA[2]
<1>1. LineA \in Int \X Int /\ LineB \in Int \X Int /\ x \in Int /\ y \in Int
  BY GateAssumption
<1>2. ASSUME NEW r \in Int \X Int
      PROVE  Orientation(p, q, r) \in Int
             /\ (x * x + y * y) * Orientation(p, q, r)
                = (x * (p[2] - r[2]) - y * (p[1] - r[1])) * (x * (q[1] - r[1]) + y * (q[2] - r[2]))
                  - (x * (q[2] - r[2]) - y * (q[1] - r[1])) * (x * (p[1] - r[1]) + y * (p[2] - r[2]))
  <2> DEFINE a == p[1] - r[1]
             b == p[2] - r[2]
             c == q[1] - r[1]
             d == q[2] - r[2]
  <2>1. a \in Int /\ b \in Int /\ c \in Int /\ d \in Int
    OBVIOUS
  <2>2. Orientation(p, q, r) = b * c - a * d
    BY Relative
  <2> HIDE DEF a, b, c, d, x, y
  <2>3. (x * x + y * y) * (b * c - a * d)
        = (x * b - y * a) * (x * c + y * d) - (x * d - y * c) * (x * a + y * b)
    BY <1>1, <2>1, Cross
  <2> QED BY <2>1, <2>2, <2>3 DEF a, b, c, d
<1>3. Along(LineB) = x * x + y * y
  BY <1>1 DEF Along
<1>4. ASSUME NEW r \in {p, q}
      PROVE  /\ x * (r[2] - LineA[2]) - y * (r[1] - LineA[1]) = Side(r)
             /\ x * (r[2] - LineB[2]) - y * (r[1] - LineB[1]) = Side(r)
             /\ x * (r[1] - LineA[1]) + y * (r[2] - LineA[2]) = Along(r)
             /\ x * (r[1] - LineB[1]) + y * (r[2] - LineB[2]) = Along(r) - Along(LineB)
  <2>1. /\ r[1] \in Int /\ r[2] \in Int /\ LineA[1] \in Int /\ LineA[2] \in Int
        /\ LineB[1] \in Int /\ LineB[2] \in Int
    BY <1>1
  <2>2. /\ Side(r) = x * (r[2] - LineA[2]) - y * (r[1] - LineA[1])
        /\ Along(r) = x * (r[1] - LineA[1]) + y * (r[2] - LineA[2])
    BY DEF Side, Along
  <2> QED BY <1>3, <2>1, <2>2, Shift
<1> HIDE DEF x, y
<1> QED BY <1>1, <1>2, <1>3, <1>4

(* The sign of a product.                                                   *)
LEMMA Signs ==
    ASSUME NEW a \in Int, NEW b \in Int
    PROVE  /\ a > 0 /\ b > 0 => a * b > 0
           /\ a > 0 /\ b < 0 => a * b < 0
           /\ a < 0 /\ b > 0 => a * b < 0
           /\ a < 0 /\ b < 0 => a * b > 0
           /\ a >= 0 /\ b > 0 => a * b >= 0
           /\ a >= 0 /\ b < 0 => a * b <= 0
           /\ a > 0 /\ a * b > 0 => b > 0
           /\ a > 0 /\ a * b < 0 => b < 0
OBVIOUS

(* s and t are the distances of two consecutive points from the line, u    *)
(* and v how far along it they lie, o tells the side of one of its ends.   *)
LEMMA EndAhead ==
    ASSUME NEW s \in Int, NEW t \in Int, NEW u \in Int, NEW v \in Int,
           NEW l \in Int, NEW o \in Int, l > 0, l * o = s * v - t * u
    PROVE  /\ s < 0 /\ t >= 0 /\ u > 0 /\ v > 0 => o < 0
           /\ s < 0 /\ t >= 0 /\ u < 0 /\ v < 0 => o > 0
           /\ s >= 0 /\ t < 0 /\ u > 0 /\ v > 0 => o > 0
           /\ s >= 0 /\ t < 0 /\ u < 0 /\ v < 0 => o < 0
<1> DEFINE m == s * v
           n == t * u
           k == l * o
<1>1. m \in Int /\ n \in Int /\ k \in Int /\ k = m - n
  OBVIOUS
<1>2. (k > 0 => o > 0) /\ (k < 0 => o < 0)
  BY Signs
<1>3. /\ s < 0 /\ v > 0 => m < 0
      /\ s < 0 /\ v < 0 => m > 0
      /\ s >= 0 /\ v > 0 => m >= 0
      /\ s >= 0 /\ v < 0 => m <= 0
      /\ t < 0 /\ u > 0 => n < 0
      /\ t < 0 /\ u < 0 => n > 0
      /\ t >= 0 /\ u > 0 => n >= 0
      /\ t >= 0 /\ u < 0 => n <= 0
  BY Signs
<1> HIDE DEF m, n, k
<1> QED BY <1>1, <1>2, <1>3

(* A step of a path meets the gate when its ends are on opposite sides and  *)
(* within the gate's extent, only if they are on opposite sides, and never  *)
(* beyond an end of the gate.                                               *)
LEMMA PathStep ==
    ASSUME NEW p \in Int \X Int, NEW q \in Int \X Int
    PROVE  /\ SegmentsIntersect(LineA, LineB, p, q) => ~(Side(p) < 0 <=> Side(q) < 0)
           /\ /\ ~(Side(p) < 0 <=> Side(q) < 0)
              /\ {Along(p), Along(q)} \subseteq 1 .. Along(LineB) - 1
              => SegmentsIntersect(LineA, LineB, p, q)
           /\ \/ Along(p) < 0 /\ Along(q) < 0
              \/ Along(p) > Along(LineB) /\ Along(q) > Along(LineB)
              => ~SegmentsIntersect(LineA, LineB, p, q)
<1> DEFINE s == Side(p)
           t == Side(q)
           u == Along(p)
           v == Along(q)
           l == Along(LineB)
           a == Orientation(p, q, LineA)
           b == Orientation(p, q, LineB)
<1>1. LineA \in Int \X Int /\ LineB \in Int \X Int
  BY GateAssumption
<1>2. /\ s \in Int /\ t \in Int /\ u \in Int /\ v \in Int /\ l \in Int
      /\ a \in Int /\ b \in Int
  BY <1>1 DEF Side, Along, Orientation
<1>3. l * a = s * v - t * u /\ l * b = s * (v - l) - t * (u - l)
  BY Ends
<1>4. Orientation(LineA, LineB, p) = -s /\ Orientation(LineA, LineB, q) = -t
  BY <1>1 DEF Orientation, Side
<1>5. SegmentsIntersect(LineA, LineB, p, q)
      <=> ~(a > 0 <=> b > 0) /\ ~(s < 0 <=> t < 0)
  BY <1>2, <1>4 DEF SegmentsIntersect
<1>6. l > 0 \/ (u = 0 /\ v = 0 /\ l = 0)
  <2> DEFINE x == LineB[1] - LineA[1]
             y == LineB[2] - LineA[2]
  <2>1. l = x * x + y * y /\ x \in Int /\ y \in Int
    BY <1>1 DEF Along
  <2>2. (x * x > 0 \/ x = 0) /\ (y * y > 0 \/ y = 0) /\ x * x \in Int /\ y * y \in Int
    BY <2>1, Signs
  <2>3. x = 0 /\ y = 0 => u = 0 /\ v = 0
    BY <1>1 DEF Along
  <2> HIDE DEF x, y, l
  <2> QED BY <2>1, <2>2, <2>3
<1> HIDE DEF s, t, u, v, l, a, b
<1>7. ASSUME l > 0
      PROVE  /\ s < 0 /\ t >= 0 /\ u > 0 /\ v > 0 => a < 0
             /\ s < 0 /\ t >= 0 /\ u < 0 /\ v < 0 => a > 0
             /\ s >= 0 /\ t < 0 /\ u > 0 /\ v > 0 => a > 0
             /\ s >= 0 /\ t < 0 /\ u < 0 /\ v < 0 => a < 0
  BY <1>2, <1>3, <1>7, EndAhead
<1>8. ASSUME l > 0
      PROVE  /\ s < 0 /\ t >= 0 /\ u > l /\ v > l => b < 0
             /\ s < 0 /\ t >= 0 /\ u < l /\ v < l => b > 0
             /\ s >= 0 /\ t < 0 /\ u > l /\ v > l => b > 0
             /\ s >= 0 /\ t < 0 /\ u < l /\ v < l => b < 0
  <2> DEFINE x == u - l
             y == v - l
  <2>1. x \in Int /\ y \in Int /\ l * b = s * y - t * x
    BY <1>2, <1>3
  <2>2. (x > 0 <=> u > l) /\ (y > 0 <=> v > l) /\ (x < 0 <=> u < l) /\ (y < 0 <=> v < l)
    BY <1>2
  <2> HIDE DEF x, y
  <2>3. /\ s < 0 /\ t >= 0 /\ x > 0 /\ y > 0 => b < 0
        /\ s < 0 /\ t >= 0 /\ x < 0 /\ y < 0 => b > 0
        /\ s >= 0 /\ t < 0 /\ x > 0 /\ y > 0 => b > 0
        /\ s >= 0 /\ t < 0 /\ x < 0 /\ y < 0 => b < 0
    BY <1>2, <1>8, <2>1, EndAhead
  <2> QED BY <2>2, <2>3
<1>9. ASSUME ~(s < 0 <=> t < 0), u \in 1 .. l - 1, v \in 1 .. l - 1
      PROVE  ~(a > 0 <=> b > 0)
  <2>1. l > 0 /\ u > 0 /\ v > 0 /\ u < l /\ v < l
    BY <1>2, <1>9
  <2> QED BY <1>2, <1>7, <1>8, <1>9, <2>1
<1>10. ASSUME ~(s < 0 <=> t < 0), (u < 0 /\ v < 0) \/ (u > l /\ v > l)
       PROVE  a > 0 <=> b > 0
  <2>1. l > 0
    BY <1>2, <1>6, <1>10
  <2>2. CASE u < 0 /\ v < 0
    <3>1. u < l /\ v < l
      BY <1>2, <2>1, <2>2
    <3> QED BY <1>2, <1>7, <1>8, <1>10, <2>1, <2>2, <3>1
  <2>3. CASE u > l /\ v > l
    <3>1. u > 0 /\ v > 0
      BY <1>2, <2>1, <2>3
    <3> QED BY <1>2, <1>7, <1>8, <1>10, <2>1, <2>3, <3>1
  <2> QED BY <1>10, <2>2, <2>3
<1> QED BY <1>5, <1>9, <1>10 DEF s, t, u, v, l

(* A path from one side to the other, within the extent of the gate, is     *)
(* counted in the direction it goes.                                        *)
LEMMA PathCrosses ==
    ASSUME NEW path \in Seq(Int \X Int),
           {1, Len(path)} \subseteq Significant(path),
           (Side(path[1]) > 0) # (Side(Last(path)) > 0),
           \A i \in DOMAIN path : Along(path[i]) \in 1 .. Along(LineB) - 1
    PROVE  Crossing(path) = IF Side(Last(path)) > 0 THEN "in" ELSE "out"
<1> DEFINE n == Len(path)
           far == Significant(path)
           P == {i \in 1 .. n : Side(path[i]) < 0}
<1>1. n \in Nat /\ DOMAIN path = 1 .. n /\ far \subseteq 1 .. n
  BY DEF Significant
<1>2. Min(far) = 1 /\ Max(far) = n /\ n >= 1 /\ far # {}
  BY <1>1, Extremes
<1>3. ASSUME NEW i \in 1 .. n
      PROVE  path[i] \in Int \X Int /\ Side(path[i]) \in Int
  <2>1. path[i] \in Int \X Int
    BY <1>1
  <2> QED BY <2>1, Integral
<1>4. ~(1 \in P <=> n \in P)
  <2>1. /\ Side(path[1]) > Threshold \/ Side(path[1]) < -Threshold
        /\ Side(path[n]) > Threshold \/ Side(path[n]) < -Threshold
    BY DEF Significant
  <2>2. /\ 1 \in 1 .. n /\ n \in 1 .. n
        /\ Side(path[1]) \in Int /\ Side(path[n]) \in Int /\ Threshold \in Nat
    BY <1>1, <1>2, <1>3, GateAssumption
  <2>3. (Side(path[1]) > 0) # (Side(path[n]) > 0)
    BY DEF Last
  <2> HIDE DEF n
  <2>4. (Side(path[1]) < 0 <=> ~(Side(path[1]) > 0)) /\ (Side(path[n]) < 0 <=> ~(Side(path[n]) > 0))
    BY <2>1, <2>2
  <2> QED BY <2>2, <2>3, <2>4
<1> HIDE DEF P
<1>5. PICK i \in 1 .. n - 1 : ~(i \in P <=> i + 1 \in P)
  BY <1>1, <1>2, <1>4, Turn
<1>6. i \in 1 .. n /\ i + 1 \in 1 .. n
  BY <1>1, <1>5
<1>7. SegmentsIntersect(LineA, LineB, path[i], path[i + 1])
  BY <1>1, <1>3, <1>5, <1>6, PathStep DEF P
<1>8. CrossesSegment(path)
  BY <1>5, <1>7 DEF CrossesSegment
<1> QED BY <1>2, <1>8 DEF Crossing, Last

(* A path that stays beyond one end of the gate is not counted.             *)
LEMMA PathPasses ==
    ASSUME NEW path \in Seq(Int \X Int),
           \/ \A i \in DOMAIN path : Along(path[i]) < 0
           \/ \A i \in DOMAIN path : Along(path[i]) > Along(LineB)
    PROVE  Crossing(path) = "none"
<1>1. ASSUME NEW i \in 1 .. Len(path) - 1
      PROVE  ~SegmentsIntersect(LineA, LineB, path[i], path[i + 1])
  <2>1. i \in DOMAIN path /\ i + 1 \in DOMAIN path
    OBVIOUS
  <2>2. path[i] \in Int \X Int /\ path[i + 1] \in Int \X Int
    BY <2>1
  <2> QED BY <2>1, <2>2, PathStep
<1>2. ~CrossesSegment(path)
  BY <1>1 DEF CrossesSegment
<1> QED BY <1>2 DEF Crossing

(* A path through the gate counts, whichever way the gate runs and however *)
(* long the steps are; one that stays beyond an end of it never does.      *)
THEOREM NoCrossingMissedCorrect == Spec => []NoCrossingMissed
<1>1. KnownCall => NoCrossingMissed
  <2> SUFFICES ASSUME KnownCall, input.function = "cross" PROVE NoCrossingMissed
    BY DEF NoCrossingMissed
  <2>1. input.path \in Seq(Int \X Int)
    BY CallsAssumption DEF KnownCall, NoCall
  <2> QED BY <2>1, PathCrosses, PathPasses DEF NoCrossingMissed
<1> QED BY <1>1, CallsAreKnown, PTL

-----------------------------------------------------------------------------
(* The grammar.                                                            *)
Mask == Seq({"A", "N"})
Text == Seq(Alphanumeric)

(* Every format has a mask and, beside it, literals that leave the state    *)
(* code free.                                                               *)
LEMMA MasksAreMasks ==
    ASSUME NEW f \in Formats
    PROVE  /\ f.mask \in Mask
           /\ Len(f.mask) >= 2
           /\ DOMAIN f.literal \subseteq DOMAIN f.mask
           /\ HasStateCode(f) => 1 \notin DOMAIN f.literal /\ 2 \notin DOMAIN f.literal
<1>1. CASE f \in Marked
  BY <1>1, FormatsAssumption DEF Mask, HasStateCode
<1>2. CASE f \in StandardFormats
  <2>1. PICK q \in Districts \X Series \X Numbers :
             f = [mask |-> Repeat("A", 2) \o Repeat("N", q[1]) \o Repeat("A", q[2])
                           \o Repeat("N", q[3]),
                  literal |-> <<>>]
    BY <1>2 DEF StandardFormats
  <2>2. 2 \in Nat /\ q[1] \in Nat /\ q[2] \in Nat /\ q[3] \in Nat
    BY FormatsAssumption
  <2>3. ASSUME NEW n \in Nat, NEW k \in {"A", "N"} PROVE Repeat(k, n) \in Mask
    BY DEF Repeat, Mask
  <2>4. /\ Repeat("A", 2) \in Mask /\ Repeat("N", q[1]) \in Mask
        /\ Repeat("A", q[2]) \in Mask /\ Repeat("N", q[3]) \in Mask
    BY <2>2, <2>3
  <2>5. ASSUME NEW a \in Mask, NEW b \in Mask
        PROVE  a \o b \in Mask /\ Len(a \o b) >= Len(a)
    BY DEF Mask
  <2>6. Repeat("A", 2) \o Repeat("N", q[1]) \in Mask
        /\ Len(Repeat("A", 2) \o Repeat("N", q[1])) >= 2
    <3>1. Len(Repeat("A", 2)) = 2
      BY DEF Repeat
    <3> QED BY <2>4, <2>5, <3>1
  <2>7. /\ (Repeat("A", 2) \o Repeat("N", q[1])) \o Repeat("A", q[2]) \in Mask
        /\ Len((Repeat("A", 2) \o Repeat("N", q[1])) \o Repeat("A", q[2])) >= 2
    <3> DEFINE a == Repeat("A", 2) \o Repeat("N", q[1])
               b == Repeat("A", q[2])
    <3>1. a \in Mask /\ b \in Mask /\ Len(a) >= 2
      BY <2>4, <2>6
    <3> HIDE DEF a, b
    <3>2. Len(a) \in Nat /\ Len(a \o b) \in Nat
      BY <3>1 DEF Mask
    <3> QED BY <2>5, <3>1, <3>2 DEF a, b
  <2>8. f.mask \in Mask /\ Len(f.mask) >= 2
    <3> DEFINE a == (Repeat("A", 2) \o Repeat("N", q[1])) \o Repeat("A", q[2])
               b == Repeat("N", q[3])
    <3>1. a \in Mask /\ b \in Mask /\ Len(a) >= 2 /\ f.mask = a \o b
      BY <2>1, <2>4, <2>7
    <3> HIDE DEF a, b
    <3>2. Len(a) \in Nat /\ Len(a \o b) \in Nat
      BY <3>1 DEF Mask
    <3> QED BY <2>5, <3>1, <3>2
  <2>9. DOMAIN f.literal = {}
    BY <2>1
  <2> QED BY <2>8, <2>9
<1> QED BY <1>1, <1>2 DEF Formats

(* A character is confused only with one of the other kind, and with one at *)
(* most.                                                                    *)
LEMMA Confusions ==
    ASSUME NEW c
    PROVE  /\ c \in Digit => Candidate(c, "N") = {}
           /\ c \in Letter => Candidate(c, "A") = {}
           /\ Candidate(c, "A") # {} => c \in Digit /\ \E x \in Letter : Candidate(c, "A") = {x}
           /\ Candidate(c, "N") # {} => c \in Letter /\ \E x \in Digit : Candidate(c, "N") = {x}
<1>1. ASSUME NEW T, NEW s \in Seq(T) \ {<<>>} PROVE Head(s) \in T
  OBVIOUS
<1>2. c \in DOMAIN ToAlpha => c \in Digit /\ c \notin Letter /\ Head(ToAlpha[c]) \in Letter
  BY <1>1, AlphabetAssumption
<1>3. c \in DOMAIN ToDigit => c \in Letter /\ c \notin Digit /\ Head(ToDigit[c]) \in Digit
  BY <1>1, AlphabetAssumption
<1> QED BY <1>2, <1>3 DEF Candidate

(* What the confusions make of a character, whichever type it has.         *)
Confusion(c) == Candidate(c, "A") \cup Candidate(c, "N")
Other(c) == CHOOSE x \in Confusion(c) : TRUE

(* It is of the other type, so that it fits exactly where the character    *)
(* itself does not.                                                        *)
LEMMA Swaps ==
    ASSUME NEW c, Confusion(c) # {}, NEW k \in {"A", "N"}
    PROVE  /\ Other(c) \in Alphanumeric
           /\ Other(c) # c
           /\ Other(c) \in Allowed(k) <=> c \notin Allowed(k)
           /\ c \notin Allowed(k) => Candidate(c, k) = Confusion(c)
           /\ c \in Allowed(k) => Candidate(c, k) = {}
<1>1. CASE Candidate(c, "A") # {}
  <2>1. PICK x \in Letter : Candidate(c, "A") = {x}
    BY <1>1, Confusions
  <2>2. c \in Digit /\ Candidate(c, "N") = {} /\ c \notin Letter /\ x \notin Digit
    BY <1>1, Confusions, AlphabetAssumption
  <2>3. Confusion(c) = {x} /\ Other(c) = x
    BY <2>1, <2>2 DEF Confusion, Other
  <2> QED BY <2>1, <2>2, <2>3 DEF Allowed, Alphanumeric
<1>2. CASE Candidate(c, "N") # {}
  <2>1. PICK x \in Digit : Candidate(c, "N") = {x}
    BY <1>2, Confusions
  <2>2. c \in Letter /\ Candidate(c, "A") = {} /\ c \notin Digit /\ x \notin Letter
    BY <1>2, Confusions, AlphabetAssumption
  <2>3. Confusion(c) = {x} /\ Other(c) = x
    BY <2>1, <2>2 DEF Confusion, Other
  <2> QED BY <2>1, <2>2, <2>3 DEF Allowed, Alphanumeric
<1> QED BY <1>1, <1>2 DEF Confusion

(* A text with the characters at the places of S confused.                 *)
Confused(text, S) == [i \in DOMAIN text |-> IF i \in S THEN Other(text[i]) ELSE text[i]]

(* All that repair() considers.                                            *)
Repairs(text) == UNION {RepairsUnder(text, f) : f \in Formats}

(* The positions of a text are finitely many.                               *)
LEMMA SmallSets ==
    ASSUME NEW text \in Text, NEW S \in SUBSET DOMAIN text
    PROVE  IsFiniteSet(S) /\ Cardinality(S) \in Nat
<1>1. Len(text) \in Nat /\ DOMAIN text = 1 .. Len(text)
  BY DEF Text
<1>2. IsFiniteSet(1 .. Len(text))
  BY <1>1, FS_Interval
<1>3. IsFiniteSet(S)
  BY <1>1, <1>2, FS_Subset
<1> QED BY <1>3, FS_CardinalityType

(* Swapping confusable characters gives a text that differs exactly there.  *)
LEMMA ConfusedText ==
    ASSUME NEW text \in Text, NEW S \in SUBSET DOMAIN text,
           \A i \in S : Confusion(text[i]) # {}
    PROVE  /\ Confused(text, S) \in Text
           /\ Len(Confused(text, S)) = Len(text)
           /\ Differences(text, Confused(text, S)) = S
<1>1. Len(text) \in Nat /\ DOMAIN text = 1 .. Len(text) /\ \A i \in DOMAIN text : text[i] \in Alphanumeric
  BY DEF Text
<1>2. \A i \in S : Other(text[i]) \in Alphanumeric /\ Other(text[i]) # text[i]
  BY Swaps
<1>3. Confused(text, S) \in [1 .. Len(text) -> Alphanumeric]
  BY <1>1, <1>2 DEF Confused
<1>4. Differences(text, Confused(text, S)) = S
  BY <1>2 DEF Differences, Confused
<1> HIDE DEF Confused
<1> QED BY <1>1, <1>3, <1>4 DEF Text

(* A format that leads to a repair asks for a confusion at the places that *)
(* do not fit it, and nowhere else.                                        *)
LEMMA FormatRepairs ==
    ASSUME NEW text \in Text, NEW f \in Formats, NEW s \in RepairsUnder(text, f)
    PROVE  \E S \in SUBSET DOMAIN text :
           /\ Cardinality(S) <= MaxFixes
           /\ \A i \in S : Confusion(text[i]) # {}
           /\ s.text = Confused(text, S)
           /\ s.fixes = Cardinality(S)
           /\ IsValid(s.text)
<1> DEFINE S == Misfits(text, f.mask)
           fixed == [i \in DOMAIN text |->
                       IF i \in S THEN CHOOSE c \in Candidate(text[i], f.mask[i]) : TRUE
                       ELSE text[i]]
<1>1. /\ Len(text) = Len(f.mask) /\ ~(Cardinality(S) > MaxFixes)
      /\ \A i \in S : Candidate(text[i], f.mask[i]) # {}
      /\ s = [text |-> fixed, fixes |-> Cardinality(S)] /\ IsValid(fixed)
  BY DEF RepairsUnder
<1>2. f.mask \in Mask
  BY MasksAreMasks
<1>3. S \subseteq DOMAIN text /\ \A i \in S : f.mask[i] \in {"A", "N"} /\ text[i] \notin Allowed(f.mask[i])
  BY <1>1, <1>2 DEF Misfits, Mask, Text
<1> HIDE DEF S
<1>4. \A i \in S : Confusion(text[i]) # {}
  BY <1>1, <1>3 DEF Confusion
<1>5. \A i \in S : Candidate(text[i], f.mask[i]) = Confusion(text[i])
  BY <1>3, <1>4, Swaps
<1>6. fixed = Confused(text, S)
  <2> SUFFICES ASSUME NEW i \in DOMAIN text PROVE fixed[i] = Confused(text, S)[i]
    BY DEF Confused
  <2>1. CASE i \in S
    BY <1>5, <2>1 DEF Confused, Other
  <2>2. CASE i \notin S
    BY <2>2 DEF Confused
  <2> QED BY <2>1, <2>2
<1>7. Cardinality(S) <= MaxFixes
  BY <1>1, <1>3, SmallSets, FormatsAssumption
<1> HIDE DEF fixed
<1> QED BY <1>1, <1>3, <1>4, <1>6, <1>7

(* And every valid plate so few confusions away is such a repair.          *)
LEMMA ValidIsRepair ==
    ASSUME NEW text \in Text, NEW S \in SUBSET DOMAIN text,
           Cardinality(S) <= MaxFixes,
           \A i \in S : Confusion(text[i]) # {},
           IsValid(Confused(text, S))
    PROVE  [text |-> Confused(text, S), fixes |-> Cardinality(S)] \in Repairs(text)
<1> DEFINE q == Confused(text, S)
<1>1. PICK f \in Formats : Len(q) = Len(f.mask) /\ \A i \in DOMAIN f.mask : q[i] \in Allowed(f.mask[i])
  BY DEF IsValid, MatchFormat, Matches, Fits
<1>2. f.mask \in Mask
  BY MasksAreMasks
<1>3. Len(text) = Len(f.mask) /\ DOMAIN f.mask = DOMAIN text
      /\ \A i \in DOMAIN text : f.mask[i] \in {"A", "N"}
  <2>1. Len(q) = Len(text)
    BY ConfusedText
  <2> HIDE DEF q
  <2>2. Len(text) = Len(f.mask)
    BY <1>1, <2>1
  <2> QED BY <1>2, <2>2 DEF Mask, Text
<1>4. \A i \in DOMAIN text : q[i] = IF i \in S THEN Other(text[i]) ELSE text[i]
  BY DEF Confused
<1>5. ASSUME NEW i \in DOMAIN text
      PROVE  /\ i \in S <=> text[i] \notin Allowed(f.mask[i])
             /\ i \in S => Candidate(text[i], f.mask[i]) = Confusion(text[i])
  <2>1. q[i] \in Allowed(f.mask[i]) /\ f.mask[i] \in {"A", "N"}
    BY <1>1, <1>3
  <2>2. CASE i \in S
    BY <1>4, <2>1, <2>2, Swaps
  <2>3. CASE i \notin S
    BY <1>4, <2>1, <2>3
  <2> QED BY <2>2, <2>3
<1>6. Misfits(text, f.mask) = S
  BY <1>3, <1>5 DEF Misfits
<1>7. q = [i \in DOMAIN text |->
             IF i \in S THEN CHOOSE c \in Candidate(text[i], f.mask[i]) : TRUE ELSE text[i]]
  <2> DEFINE fixed == [i \in DOMAIN text |->
             IF i \in S THEN CHOOSE c \in Candidate(text[i], f.mask[i]) : TRUE ELSE text[i]]
  <2> SUFFICES ASSUME NEW i \in DOMAIN text PROVE q[i] = fixed[i]
    BY DEF Confused
  <2>1. CASE i \in S
    BY <1>5, <2>1 DEF Confused, Other
  <2>2. CASE i \notin S
    BY <2>2 DEF Confused
  <2> QED BY <2>1, <2>2
<1>8. ~(Cardinality(S) > MaxFixes)
  BY SmallSets, FormatsAssumption
<1>9. \A i \in S : Candidate(text[i], f.mask[i]) # {}
  BY <1>5
<1> HIDE DEF q
<1>10. [text |-> q, fixes |-> Cardinality(S)] \in RepairsUnder(text, f)
  BY <1>3, <1>6, <1>7, <1>8, <1>9 DEF RepairsUnder, q
<1> QED BY <1>10 DEF Repairs, q

(* Of one solution or of several equal ones the text is taken, else        *)
(* nothing changes.                                                        *)
LEMMA DecidedCases ==
    ASSUME NEW text, NEW sols
    PROVE  /\ Decided(text, sols) = Unchanged(text)
              \/ \E s \in sols : Decided(text, sols) = [text |-> s.text, repaired |-> TRUE]
           /\ Cardinality({s.text : s \in sols}) = 1
              => \E s \in sols : Decided(text, sols) = [text |-> s.text, repaired |-> TRUE]
           /\ Cardinality({s.text : s \in sols}) # 1 => Decided(text, sols) = Unchanged(text)
<1> DEFINE texts == {s.text : s \in sols}
<1>1. CASE Cardinality(texts) = 1
  <2>1. texts # {}
    BY <1>1, FS_EmptySet
  <2>2. PICK s \in sols : (CHOOSE t \in texts : TRUE) = s.text
    BY <2>1
  <2> QED BY <1>1, <2>2 DEF Decided
<1>2. CASE Cardinality(texts) # 1
  BY <1>2 DEF Decided
<1> QED BY <1>1, <1>2

(* What repair() returns.                                                  *)
LEMMA RepairResult ==
    ASSUME NEW text \in Text
    PROVE  /\ Repair(text).repaired \in BOOLEAN
           /\ Repair(text).text \in Text
           /\ Len(Repair(text).text) = Len(text)
           /\ ~Repair(text).repaired => Repair(text).text = text
           /\ Repair(text).repaired => IsValid(Repair(text).text)
<1>1. CASE Repair(text) = Unchanged(text)
  BY <1>1 DEF Unchanged
<1>2. CASE Repair(text) # Unchanged(text)
  <2>1. PICK s \in Cheapest(Repairs(text)) : Repair(text) = [text |-> s.text, repaired |-> TRUE]
    BY <1>2, DecidedCases DEF Repair, Repairs
  <2>2. PICK f \in Formats : s \in RepairsUnder(text, f)
    BY <2>1 DEF Cheapest, Repairs
  <2>3. PICK S \in SUBSET DOMAIN text :
             (\A i \in S : Confusion(text[i]) # {}) /\ s.text = Confused(text, S) /\ IsValid(s.text)
    BY <2>2, FormatRepairs
  <2>4. s.text \in Text /\ Len(s.text) = Len(text)
    BY <2>3, ConfusedText
  <2> QED BY <2>1, <2>3, <2>4
<1> QED BY <1>1, <1>2

(* Trimming gives a shorter text.                                           *)
LEMMA TrimmedText ==
    ASSUME NEW text \in Text, NEW lead \in Nat, NEW tail \in Nat,
           Len(Trimmed(text, lead, tail)) >= MinLen
    PROVE  /\ Trimmed(text, lead, tail) \in Text
           /\ Len(Trimmed(text, lead, tail)) = Len(text) - lead - tail
<1>1. /\ text \in Seq(Alphanumeric) /\ Len(text) \in Nat /\ MinLen \in Nat /\ MinLen > 0
  BY FormatsAssumption DEF Text
<1>2. CASE lead + 1 > Len(text) - tail
  <2>1. SubSeq(text, lead + 1, Len(text) - tail) = <<>>
    <3>1. lead + 1 \in Int /\ Len(text) - tail \in Int /\ Len(text) - tail < lead + 1
      BY <1>1, <1>2
    <3> QED BY <3>1, SubSeqEmpty, Zenon
  <2>2. Trimmed(text, lead, tail) = <<>>
    BY <2>1 DEF Trimmed
  <2>3. Len(<<>>) = 0
    OBVIOUS
  <2>4. Len(Trimmed(text, lead, tail)) = 0
    BY <2>2, <2>3, Zenon
  <2> QED BY <1>1, <2>4
<1>3. CASE lead + 1 <= Len(text) - tail
  <2>1. lead + 1 \in 1 .. Len(text) /\ Len(text) - tail \in 1 .. Len(text)
    BY <1>1, <1>3
  <2>2. SubSeq(text, lead + 1, Len(text) - tail) \in Seq(Alphanumeric)
    BY <1>1, <2>1
  <2>3. Len(SubSeq(text, lead + 1, Len(text) - tail)) = Len(text) - lead - tail
    BY <1>1, <1>3, <2>1
  <2> QED BY <2>2, <2>3 DEF Trimmed, Text
<1> QED BY <1>1, <1>2, <1>3

(* What trim_noise() returns.                                              *)
LEMMA TrimResult ==
    ASSUME NEW text \in Text
    PROVE  \/ TrimNoise(text).text = text
           \/ /\ TrimNoise(text).text \in Text
              /\ Len(TrimNoise(text).text) < Len(text)
              /\ Len(TrimNoise(text).text) > 0
              /\ IsValid(TrimNoise(text).text)
<1>1. CASE TrimNoise(text) = Unchanged(text)
  BY <1>1 DEF Unchanged
<1>2. CASE TrimNoise(text) # Unchanged(text)
  <2> DEFINE trims == {q \in (0 .. MaxLead) \X (0 .. MaxTail) : q[1] + q[2] > 0}
             all == UNION {TrimSolutions(text, q[1], q[2]) : q \in trims}
  <2>1. TrimNoise(text) = Decided(text, Cheapest(all))
    BY <1>2 DEF TrimNoise
  <2>2. PICK s \in Cheapest(all) : TrimNoise(text) = [text |-> s.text, repaired |-> TRUE]
    BY <1>2, <2>1, DecidedCases
  <2>3. PICK q \in trims : s \in TrimSolutions(text, q[1], q[2])
    BY <2>2 DEF Cheapest
  <2> DEFINE rest == Trimmed(text, q[1], q[2])
  <2>4. q[1] \in Nat /\ q[2] \in Nat /\ q[1] + q[2] > 0
    BY FormatsAssumption
  <2>5. /\ ~(Len(rest) < MinLen)
        /\ \/ IsValid(rest) /\ s.text = rest
           \/ Repair(rest).repaired /\ s.text = Repair(rest).text
    BY <2>3 DEF TrimSolutions
  <2>6. Len(rest) >= MinLen
    <3>1. PICK a \in Nat, b \in Int : a = q[1] + 1 /\ b = Len(text) - q[2] /\ a >= 1
      BY <2>4 DEF Text
    <3>2. text \in Seq(Alphanumeric) /\ Len(text) \in Nat /\ b <= Len(text)
      BY <2>4, <3>1 DEF Text
    <3>3. rest = SubSeq(text, a, b)
      BY <3>1 DEF Trimmed
    <3>4. Len(rest) \in Nat
      <4>1. CASE a > b
        <5>1. rest = <<>>
          BY <3>1, <3>3, <4>1, SubSeqEmpty, SMTT(30)
        <5> QED BY <5>1
      <4>2. CASE a <= b
        <5>1. Len(SubSeq(text, a, b)) \in Nat
          BY <3>1, <3>2, <4>2
        <5> QED BY <3>3, <5>1
      <4> QED BY <3>1, <4>1, <4>2
    <3>5. MinLen \in Nat
      BY FormatsAssumption
    <3> HIDE DEF rest
    <3> QED BY <2>5, <3>4, <3>5
  <2>7. rest \in Text /\ Len(rest) = Len(text) - q[1] - q[2] /\ Len(text) \in Nat
    BY <2>4, <2>6, TrimmedText DEF Text
  <2>8. s.text \in Text /\ Len(s.text) = Len(rest) /\ IsValid(s.text)
    <3> HIDE DEF rest
    <3> QED BY <2>5, <2>7, RepairResult
  <2>9. Len(s.text) < Len(text) /\ Len(s.text) > 0
    <3> HIDE DEF rest
    <3> QED BY <2>4, <2>6, <2>7, <2>8, FormatsAssumption, SMTT(30)
  <2> QED BY <2>2, <2>8, <2>9
<1> QED BY <1>1, <1>2

(* What resolve() returns.                                                 *)
LEMMA ResolveResult ==
    ASSUME NEW text \in Text
    PROVE  /\ Resolve(text).text \in Text
           /\ text # <<>> => Resolve(text).text # <<>>
<1>1. CASE Repair(text).repaired
  BY <1>1, RepairResult DEF Resolve, Text
<1>2. CASE ~Repair(text).repaired
  BY <1>2, TrimResult DEF Resolve, Text
<1> QED BY <1>1, <1>2, RepairResult

(* The texts a repair may aim at are those the solver finds, with their     *)
(* distances.                                                               *)
LEMMA TargetsAreRepairs ==
    ASSUME NEW text \in Text
    PROVE  /\ RepairTargets(text) = {s.text : s \in Repairs(text)}
           /\ \A s \in Repairs(text) : s.fixes = Cardinality(Differences(text, s.text))
<1> DEFINE Sets == {T \in SUBSET DOMAIN text :
                       /\ Cardinality(T) <= MaxFixes
                       /\ \A i \in T : Confusion(text[i]) # {}}
<1>1. RepairTargets(text) = {q \in {Confused(text, S) : S \in Sets} : IsValid(q)}
  BY DEF RepairTargets, Confused, Other, Confusion
<1>2. ASSUME NEW s \in Repairs(text)
      PROVE  s.text \in RepairTargets(text) /\ s.fixes = Cardinality(Differences(text, s.text))
  <2>1. PICK f \in Formats : s \in RepairsUnder(text, f)
    BY DEF Repairs
  <2>2. PICK S \in SUBSET DOMAIN text :
           /\ Cardinality(S) <= MaxFixes
           /\ \A i \in S : Confusion(text[i]) # {}
           /\ s.text = Confused(text, S)
           /\ s.fixes = Cardinality(S)
           /\ IsValid(s.text)
    BY <2>1, FormatRepairs
  <2>3. Differences(text, s.text) = S
    BY <2>2, ConfusedText
  <2> QED BY <1>1, <2>2, <2>3
<1>3. ASSUME NEW q \in RepairTargets(text) PROVE q \in {s.text : s \in Repairs(text)}
  <2>1. PICK S \in Sets : q = Confused(text, S) /\ IsValid(q)
    BY <1>1
  <2>2. [text |-> q, fixes |-> Cardinality(S)] \in Repairs(text)
    BY <2>1, ValidIsRepair
  <2> QED BY <2>2
<1> QED BY <1>2, <1>3

(* Resolution returns a valid text as it is, the nearest valid text when    *)
(* there is one, and otherwise the text itself or a valid part of it.       *)
LEMMA UniqueRepair ==
    ASSUME NEW text \in Text
    PROVE  LET result == Resolve(text).text
               targets == RepairTargets(text)
               nearest == {q \in targets : \A r \in targets :
                             Cardinality(Differences(text, q)) <= Cardinality(Differences(text, r))}
           IN IF IsValid(text) THEN result = text
              ELSE IF Cardinality(nearest) = 1 THEN result \in nearest
              ELSE result = text \/ (Len(result) < Len(text) /\ IsValid(result))
<1> DEFINE result == Resolve(text).text
           targets == RepairTargets(text)
           nearest == {q \in targets : \A r \in targets :
                         Cardinality(Differences(text, q)) <= Cardinality(Differences(text, r))}
<1>1. nearest = {s.text : s \in Cheapest(Repairs(text))}
  <2>1. /\ targets = {s.text : s \in Repairs(text)}
        /\ \A s \in Repairs(text) : s.fixes = Cardinality(Differences(text, s.text))
    BY TargetsAreRepairs
  <2> HIDE DEF targets
  <2>2. ASSUME NEW s \in Cheapest(Repairs(text)) PROVE s.text \in nearest
    <3>1. s \in Repairs(text) /\ \A t \in Repairs(text) : s.fixes <= t.fixes
      BY DEF Cheapest
    <3>2. s.text \in targets
      BY <2>1, <3>1
    <3>3. ASSUME NEW r \in targets
          PROVE  Cardinality(Differences(text, s.text)) <= Cardinality(Differences(text, r))
      <4>1. PICK t \in Repairs(text) : r = t.text
        BY <2>1
      <4> QED BY <2>1, <3>1, <4>1
    <3> QED BY <3>2, <3>3
  <2>3. ASSUME NEW q \in nearest PROVE q \in {s.text : s \in Cheapest(Repairs(text))}
    <3>1. PICK s \in Repairs(text) : q = s.text
      BY <2>1
    <3>2. ASSUME NEW t \in Repairs(text) PROVE s.fixes <= t.fixes
      <4>1. t.text \in targets
        BY <2>1
      <4> QED BY <2>1, <3>1, <4>1
    <3> QED BY <3>1, <3>2 DEF Cheapest
  <2> HIDE DEF nearest
  <2> QED BY <2>2, <2>3
<1>2. ASSUME IsValid(text) PROVE result = text
  BY <1>2 DEF Resolve, Repair, TrimNoise, Unchanged
<1>3. ASSUME ~IsValid(text), Cardinality(nearest) = 1 PROVE result \in nearest
  <2>1. PICK s \in Cheapest(Repairs(text)) :
             Decided(text, Cheapest(Repairs(text))) = [text |-> s.text, repaired |-> TRUE]
    BY <1>1, <1>3, DecidedCases
  <2>2. text # <<>>
    <3> SUFFICES ASSUME text = <<>> PROVE FALSE
      OBVIOUS
    <3>1. PICK f \in Formats : s \in RepairsUnder(text, f)
      BY DEF Cheapest, Repairs
    <3>2. PICK S \in SUBSET DOMAIN text : s.text = Confused(text, S) /\ IsValid(s.text)
      BY <3>1, FormatRepairs
    <3>3. Confused(text, S) = text
      BY <3>2 DEF Confused
    <3> QED BY <1>3, <3>2, <3>3
  <2>3. Repair(text) = [text |-> s.text, repaired |-> TRUE]
    BY <1>3, <2>1, <2>2 DEF Repair, Repairs
  <2>4. result = s.text
    BY <2>3 DEF Resolve
  <2> HIDE DEF nearest, result
  <2> QED BY <1>1, <1>3, <2>4
<1>4. ASSUME ~IsValid(text), Cardinality(nearest) # 1
      PROVE  result = text \/ (Len(result) < Len(text) /\ IsValid(result))
  <2>1. Repair(text) = Unchanged(text)
    BY <1>1, <1>4, DecidedCases DEF Repair, Repairs
  <2>2. result = TrimNoise(text).text
    BY <2>1 DEF Resolve, Unchanged
  <2> QED BY <2>2, TrimResult
<1> QED BY <1>2, <1>3, <1>4

(* A misread is repaired exactly when one valid plate is nearest, whatever *)
(* the alphabet, the confusions and the formats are.                       *)
THEOREM RepairIsUniqueCorrect == Spec => []RepairIsUnique
<1>1. KnownCall => RepairIsUnique
  <2> SUFFICES ASSUME KnownCall, input.function = "resolve" PROVE RepairIsUnique
    BY DEF RepairIsUnique
  <2>1. input.text \in Text
    BY CallsAssumption DEF KnownCall, NoCall, Text
  <2> QED BY <2>1, UniqueRepair DEF RepairIsUnique
<1> QED BY <1>1, CallsAreKnown, PTL

-----------------------------------------------------------------------------
(* The decoder.  What it is given: alternatives and a confidence for each  *)
(* character.                                                              *)
Seen(text, alts, conf) ==
    /\ text \in Text
    /\ alts \in Seq(Seq([char : Alphanumeric \cup Foreign, prob : Nat]))
    /\ conf \in Seq(Nat)
    /\ Len(alts) = Len(text) /\ Len(conf) = Len(text)

(* A runner-up at place i, probable enough, that says x.                   *)
Backed(alts, conf, i, x) ==
    \E a \in Range(alts[i]) :
        /\ a.char = x
        /\ a.prob >= MinProb
        /\ 100 * a.prob >= MinRatio * conf[i]

AllBacked(text, alts, conf, other) ==
    /\ other \in Text
    /\ Len(other) = Len(text)
    /\ \A i \in Differences(text, other) : Backed(alts, conf, i, other[i])

(* An acceptable alternative clears both floors.                            *)
LEMMA AcceptableIsBacked ==
    ASSUME NEW p \in Nat, NEW c \in Nat, Acceptable(p, c)
    PROVE  p >= MinProb /\ 100 * p >= MinRatio * c
<1>1. MinProb \in Nat /\ MinRatio \in Nat /\ MinRatio * 0 = 0
  BY FormatsAssumption
<1> QED BY <1>1 DEF Acceptable

(* The first runner-up that fits is one of them and fits.                  *)
LEMMA BestFits ==
    ASSUME NEW text, NEW alts, NEW conf, Seen(text, alts, conf),
           NEW i \in DOMAIN text, NEW k \in {"A", "N"}, NEW a \in BestAllowed(alts, i, k)
    PROVE  /\ a \in Range(alts[i]) /\ a.char \in Alphanumeric /\ a.prob \in Nat
           /\ BestAllowed(alts, i, k) = {a}
<1> DEFINE fits == {j \in DOMAIN alts[i] : alts[i][j].char \in Allowed(k)}
<1>1. /\ DOMAIN text = DOMAIN alts
      /\ alts[i] \in Seq([char : Alphanumeric \cup Foreign, prob : Nat])
  BY DEF Seen, Text
<1>2. fits # {} /\ a = alts[i][Min(fits)] /\ BestAllowed(alts, i, k) = {a}
  BY DEF BestAllowed
<1>3. fits \in SUBSET Nat
  BY <1>1
<1>4. Min(fits) \in fits
  <2> HIDE DEF fits
  <2> QED BY <1>2, <1>3, Least DEF Min
<1>5. a.char \in Allowed(k) /\ a \in [char : Alphanumeric \cup Foreign, prob : Nat]
      /\ Min(fits) \in DOMAIN alts[i]
  <2>1. Min(fits) \in DOMAIN alts[i] /\ a.char \in Allowed(k)
    BY <1>2, <1>4
  <2> HIDE DEF fits
  <2>2. alts[i][Min(fits)] \in [char : Alphanumeric \cup Foreign, prob : Nat]
    <3>1. ASSUME NEW T, NEW q \in Seq(T), NEW j \in DOMAIN q PROVE q[j] \in T
      OBVIOUS
    <3> QED BY <1>1, <2>1, <3>1, Zenon
  <2> QED BY <1>2, <2>1, <2>2
<1> HIDE DEF fits
<1>6. a \in Range(alts[i])
  BY <1>2, <1>5 DEF Range
<1> QED BY <1>2, <1>5, <1>6 DEF Allowed, Alphanumeric

(* A string of a known shape that the evidence leads to.                   *)
LEMMA ShapeIsBacked ==
    ASSUME NEW text, NEW alts, NEW conf, Seen(text, alts, conf),
           NEW s \in ShapeCandidates(text, alts, conf)
    PROVE  /\ AllBacked(text, alts, conf, s.text)
           /\ s.fixes \in Nat /\ s.fixes <= MaxSubstitutions
           /\ Cardinality(Differences(text, s.text)) <= s.fixes
<1>0. text \in Text /\ DOMAIN text = 1 .. Len(text) /\ DOMAIN conf = DOMAIN text
      /\ Len(text) \in Nat /\ (\A i \in DOMAIN text : text[i] \in Alphanumeric /\ conf[i] \in Nat)
  BY DEF Seen, Text
<1>1. CASE s = [text |-> text, fixes |-> 0]
  <2>1. Differences(text, s.text) = {} /\ Cardinality({}) = 0
    BY <1>1, FS_EmptySet DEF Differences
  <2>2. s.text = text /\ s.fixes = 0
    BY <1>1
  <2>3. AllBacked(text, alts, conf, s.text)
    BY <1>0, <2>1, <2>2 DEF AllBacked
  <2>4. Cardinality(Differences(text, s.text)) <= s.fixes
    BY <2>1, <2>2
  <2> QED BY <2>2, <2>3, <2>4, FormatsAssumption
<1>2. ASSUME NEW f \in Formats, Len(f.mask) = Len(text),
             Misfits(text, f.mask) # {},
             ~(Cardinality(Misfits(text, f.mask)) > MaxSubstitutions),
             ~\E i \in Misfits(text, f.mask) :
                \A a \in BestAllowed(alts, i, f.mask[i]) : ~Acceptable(a.prob, conf[i]),
             s = [text |-> [i \in DOMAIN text |->
                              IF i \in Misfits(text, f.mask)
                              THEN (CHOOSE a \in BestAllowed(alts, i, f.mask[i]) : TRUE).char
                              ELSE text[i]],
                  fixes |-> Cardinality(Misfits(text, f.mask))]
      PROVE  /\ AllBacked(text, alts, conf, s.text)
             /\ s.fixes \in Nat /\ s.fixes <= MaxSubstitutions
             /\ Cardinality(Differences(text, s.text)) <= s.fixes
  <2> DEFINE wrong == Misfits(text, f.mask)
             other == [i \in DOMAIN text |->
                              IF i \in wrong
                              THEN (CHOOSE a \in BestAllowed(alts, i, f.mask[i]) : TRUE).char
                              ELSE text[i]]
  <2>1. wrong \subseteq DOMAIN text /\ \A i \in wrong : f.mask[i] \in {"A", "N"}
    BY <1>0, <1>2, MasksAreMasks DEF Misfits, Mask
  <2>2. s.text = other /\ s.fixes = Cardinality(wrong)
    BY <1>2
  <2>3. \A i \in wrong : \E a \in BestAllowed(alts, i, f.mask[i]) : Acceptable(a.prob, conf[i])
    BY <1>2
  <2>4. ~(Cardinality(wrong) > MaxSubstitutions)
    BY <1>2
  <2> HIDE DEF wrong
  <2>5. ASSUME NEW i \in wrong
        PROVE  other[i] \in Alphanumeric /\ Backed(alts, conf, i, other[i])
    <3>1. PICK a \in BestAllowed(alts, i, f.mask[i]) : Acceptable(a.prob, conf[i])
      BY <2>3
    <3>2. i \in DOMAIN text /\ f.mask[i] \in {"A", "N"} /\ conf[i] \in Nat
      BY <1>0, <2>1
    <3>3. /\ a \in Range(alts[i]) /\ a.char \in Alphanumeric /\ a.prob \in Nat
          /\ BestAllowed(alts, i, f.mask[i]) = {a}
      BY <3>2, BestFits
    <3>4. other[i] = a.char
      BY <3>2, <3>3
    <3>5. a.prob >= MinProb /\ 100 * a.prob >= MinRatio * conf[i]
      BY <3>1, <3>2, <3>3, AcceptableIsBacked
    <3> HIDE DEF other
    <3> QED BY <3>3, <3>4, <3>5 DEF Backed
  <2>6. \A i \in DOMAIN text : i \notin wrong => other[i] = text[i]
    OBVIOUS
  <2>7. DOMAIN other = 1 .. Len(text) /\ other = [i \in 1 .. Len(text) |-> other[i]]
    BY <1>0
  <2> HIDE DEF other
  <2>8. other \in [1 .. Len(text) -> Alphanumeric]
    <3>1. \A i \in 1 .. Len(text) : other[i] \in Alphanumeric
      BY <1>0, <2>5, <2>6
    <3> QED BY <2>7, <3>1
  <2>9. other \in Text /\ Len(other) = Len(text)
    BY <1>0, <2>8 DEF Text
  <2>10. Differences(text, other) \subseteq wrong
    BY <2>6 DEF Differences
  <2>11. IsFiniteSet(wrong) /\ Cardinality(wrong) \in Nat
    BY <1>0, <2>1, SmallSets
  <2>12. Cardinality(Differences(text, other)) <= Cardinality(wrong)
    BY <2>10, <2>11, FS_Subset
  <2>13. AllBacked(text, alts, conf, other)
    BY <2>5, <2>9, <2>10 DEF AllBacked
  <2> QED BY <2>2, <2>4, <2>11, <2>12, <2>13, FormatsAssumption
<1>3. CASE \E f \in {g \in Formats : Len(g.mask) = Len(text)} :
             s \in LET wrong == Misfits(text, f.mask)
                       pick(i) == BestAllowed(alts, i, f.mask[i])
                   IN IF \/ wrong = {}
                         \/ Cardinality(wrong) > MaxSubstitutions
                         \/ \E i \in wrong : \A a \in pick(i) : ~Acceptable(a.prob, conf[i])
                      THEN {}
                      ELSE {[text |-> [i \in DOMAIN text |->
                                         IF i \in wrong THEN (CHOOSE a \in pick(i) : TRUE).char
                                         ELSE text[i]],
                             fixes |-> Cardinality(wrong)]}
  <2>1. PICK f \in Formats :
             /\ Len(f.mask) = Len(text)
             /\ Misfits(text, f.mask) # {}
             /\ ~(Cardinality(Misfits(text, f.mask)) > MaxSubstitutions)
             /\ ~\E i \in Misfits(text, f.mask) :
                   \A a \in BestAllowed(alts, i, f.mask[i]) : ~Acceptable(a.prob, conf[i])
             /\ s = [text |-> [i \in DOMAIN text |->
                              IF i \in Misfits(text, f.mask)
                              THEN (CHOOSE a \in BestAllowed(alts, i, f.mask[i]) : TRUE).char
                              ELSE text[i]],
                     fixes |-> Cardinality(Misfits(text, f.mask))]
    BY <1>3, Zenon
  <2> QED BY <1>2, <2>1
<1>4. s \in {[text |-> text, fixes |-> 0] : f \in MatchFormat(text)} => s = [text |-> text, fixes |-> 0]
  OBVIOUS
<1> QED BY <1>1, <1>3, <1>4, Zenon DEF ShapeCandidates

(* A text with its first two characters replaced, and a text's first two.  *)
WithCode(w, code) == code \o SubSeq(w, 3, Len(w))
CodeOf(w) == SubSeq(w, 1, 2)

(* Replacing the state code of a text changes its first two characters and  *)
(* no other.                                                                *)
LEMMA NewStateCode ==
    ASSUME NEW w \in Text, Len(w) >= 2, NEW a \in Alphanumeric, NEW b \in Alphanumeric,
           NEW code, code = <<a, b>>
    PROVE  /\ WithCode(w, code) \in Text
           /\ Len(WithCode(w, code)) = Len(w)
           /\ WithCode(w, code)[1] = a /\ WithCode(w, code)[2] = b
           /\ CodeOf(WithCode(w, code)) = code
           /\ \A i \in DOMAIN w : i # 1 /\ i # 2 => WithCode(w, code)[i] = w[i]
<1> DEFINE rest == SubSeq(w, 3, Len(w))
           r == WithCode(w, code)
<1>1. w \in Seq(Alphanumeric) /\ Len(w) \in Nat /\ Len(w) \in Int /\ 3 \in Int
      /\ \A i \in 3 .. Len(w) : w[i] \in Alphanumeric
  BY DEF Text
<1>2. /\ rest \in Seq(Alphanumeric)
      /\ Len(rest) = IF 3 <= Len(w) THEN Len(w) - 3 + 1 ELSE 0
      /\ \A i \in 1 .. Len(w) - 3 + 1 : rest[i] = w[3 + i - 1]
  BY <1>1, SubSeqProperties
<1>3. Len(rest) = Len(w) - 2 /\ \A i \in 1 .. Len(w) - 2 : rest[i] = w[i + 2]
  BY <1>1, <1>2
<1>0. r = <<a, b>> \o rest
  BY DEF WithCode
<1> HIDE DEF rest, r
<1>4. <<a, b>> \in Seq(Alphanumeric) /\ Len(<<a, b>>) = 2
  OBVIOUS
<1>5. r = <<a, b>> \o rest
  BY <1>0
<1>6. r \in Seq(Alphanumeric) /\ Len(r) = Len(w)
  BY <1>1, <1>2, <1>3, <1>4, <1>5
<1>7. r[1] = a /\ r[2] = b
  BY <1>1, <1>2, <1>3, <1>4, <1>5
<1>8. ASSUME NEW i \in DOMAIN w, i # 1, i # 2 PROVE r[i] = w[i]
  <2>1. i \in 1 .. Len(w) /\ i - 2 \in 1 .. Len(w) - 2 /\ (i - 2) + 2 = i
    BY <1>1, <1>8
  <2>2. r[i] = rest[i - 2]
    BY <1>2, <1>3, <1>4, <1>5, <2>1
  <2> QED BY <1>3, <2>1, <2>2
<1>9. SubSeq(r, 1, 2) = <<a, b>>
  <2>1. 1 \in Int /\ 2 \in Int /\ \A i \in 1 .. 2 : r[i] \in Alphanumeric
    BY <1>7
  <2>2. /\ SubSeq(r, 1, 2) \in Seq(Alphanumeric) /\ Len(SubSeq(r, 1, 2)) = 2
        /\ \A i \in 1 .. 2 - 1 + 1 : SubSeq(r, 1, 2)[i] = r[1 + i - 1]
    BY <2>1, SubSeqProperties
  <2>3. SubSeq(r, 1, 2)[1] = r[1] /\ SubSeq(r, 1, 2)[2] = r[2]
    BY <2>2
  <2> DEFINE y == <<a, b>>
             z == SubSeq(r, 1, 2)
  <2>4. /\ y \in Seq(Alphanumeric) /\ z \in Seq(Alphanumeric) /\ Len(z) = 2 /\ Len(y) = 2
        /\ z[1] = y[1] /\ z[2] = y[2]
    BY <1>4, <1>7, <2>2, <2>3
  <2> HIDE DEF y, z
  <2>5. \A i \in 1 .. Len(z) : z[i] = y[i]
    BY <2>4
  <2>6. z = y
    BY <2>4, <2>5, SeqEqual
  <2> QED BY <2>6 DEF y, z
<1> QED BY <1>6, <1>7, <1>8, <1>9 DEF Text, r, CodeOf

(* A letter taken for a position is the one read there or one the evidence  *)
(* backs.                                                                   *)
LEMMA OptionIsBacked ==
    ASSUME NEW text, NEW alts, NEW conf, Seen(text, alts, conf), NEW w,
           NEW i \in DOMAIN text, w[i] \in Letter,
           NEW o \in LetterOptions(w, alts, conf, i)
    PROVE  /\ o.char \in Letter
           /\ \/ o.used = 0 /\ o.char = w[i]
              \/ o.used = 1 /\ Backed(alts, conf, i, o.char)
<1>1. CASE o = [char |-> w[i], prob |-> conf[i], used |-> 0]
  BY <1>1
<1>2. CASE \E a \in Range(alts[i]) : /\ a.char \in Letter
                                     /\ Acceptable(a.prob, conf[i])
                                     /\ o = [char |-> a.char, prob |-> a.prob, used |-> 1]
  <2>1. PICK a \in Range(alts[i]) : /\ a.char \in Letter
                                    /\ Acceptable(a.prob, conf[i])
                                    /\ o = [char |-> a.char, prob |-> a.prob, used |-> 1]
    BY <1>2
  <2>2. /\ DOMAIN text = DOMAIN alts /\ DOMAIN text = DOMAIN conf
        /\ alts[i] \in Seq([char : Alphanumeric \cup Foreign, prob : Nat]) /\ conf[i] \in Nat
    BY DEF Seen, Text
  <2>3. a \in [char : Alphanumeric \cup Foreign, prob : Nat]
    <3>1. PICK j \in DOMAIN alts[i] : a = alts[i][j]
      BY DEF Range
    <3>2. ASSUME NEW T, NEW z \in Seq(T), NEW k \in DOMAIN z PROVE z[k] \in T
      OBVIOUS
    <3> QED BY <2>2, <3>1, <3>2, Zenon
  <2>4. a.prob \in Nat
    BY <2>3
  <2>5. a.prob >= MinProb /\ 100 * a.prob >= MinRatio * conf[i]
    BY <2>1, <2>2, <2>4, AcceptableIsBacked
  <2>6. o.char = a.char /\ o.used = 1
    BY <2>1
  <2> QED BY <2>1, <2>5, <2>6 DEF Backed
<1> QED BY <1>1, <1>2 DEF LetterOptions

(* A real state code that the evidence puts in the place of an unknown one *)
(* makes a valid plate of the shape.                                       *)
LEMMA FixIsBacked ==
    ASSUME NEW text, NEW alts, NEW conf, Seen(text, alts, conf), NEW s,
           AllBacked(text, alts, conf, s.text),
           s.fixes \in Nat, Cardinality(Differences(text, s.text)) <= s.fixes,
           NEW f \in MatchFormat(s.text), HasStateCode(f),
           NEW t \in FixStateCode(s, alts, conf)
    PROVE  /\ AllBacked(text, alts, conf, t.text)
           /\ Cardinality(Differences(text, t.text)) <= MaxSubstitutions
           /\ IsValid(t.text)
<1> DEFINE w == s.text
           r == t.text
<1>1. t \in StateSolutions(s, alts, conf)
  BY DEF FixStateCode
<1>2. PICK q \in LetterOptions(w, alts, conf, 1) \X LetterOptions(w, alts, conf, 2) :
           /\ q[1].used + q[2].used \in 1 .. MaxSubstitutions - s.fixes
           /\ <<q[1].char, q[2].char>> \in StateCodes
           /\ t = [text  |-> <<q[1].char, q[2].char>> \o SubSeq(w, 3, Len(w)),
                   fixes |-> s.fixes + q[1].used + q[2].used,
                   joint |-> q[1].prob * q[2].prob]
  BY <1>1 DEF StateSolutions
<1> DEFINE a == q[1].char
           b == q[2].char
           u == q[1].used
           v == q[2].used
<1>3. /\ w \in Text /\ Len(w) = Len(text) /\ text \in Text
      /\ \A i \in Differences(text, w) : Backed(alts, conf, i, w[i])
  BY DEF AllBacked, Seen
<1>4. /\ f \in Formats /\ Len(w) = Len(f.mask) /\ Len(f.mask) >= 2 /\ f.mask \in Mask
      /\ DOMAIN f.mask = DOMAIN w /\ DOMAIN w = DOMAIN text /\ DOMAIN w = 1 .. Len(w)
      /\ \A i \in DOMAIN f.mask : w[i] \in Allowed(f.mask[i])
      /\ \A i \in DOMAIN f.literal : i \in DOMAIN w /\ i # 1 /\ i # 2 /\ w[i] = f.literal[i]
  <2>1. f \in Formats /\ Fits(w, f.mask) /\ \A i \in DOMAIN f.literal : w[i] = f.literal[i]
    BY DEF MatchFormat, Matches
  <2>2. Len(w) = Len(f.mask) /\ \A i \in DOMAIN f.mask : w[i] \in Allowed(f.mask[i])
    BY <2>1 DEF Fits
  <2>3. /\ f.mask \in Mask /\ Len(f.mask) >= 2 /\ DOMAIN f.literal \subseteq DOMAIN f.mask
        /\ 1 \notin DOMAIN f.literal /\ 2 \notin DOMAIN f.literal
    BY <2>1, MasksAreMasks
  <2>4. DOMAIN f.mask = 1 .. Len(f.mask) /\ DOMAIN w = 1 .. Len(w) /\ DOMAIN text = 1 .. Len(text)
    BY <1>3, <2>3 DEF Mask, Text
  <2> HIDE DEF w
  <2> QED BY <1>3, <2>1, <2>2, <2>3, <2>4
<1>5. 1 \in DOMAIN w /\ 2 \in DOMAIN w /\ w[1] \in Letter /\ w[2] \in Letter
  <2>1. Len(w) \in Nat
    BY <1>3 DEF Text
  <2>2. 1 \in DOMAIN w /\ 2 \in DOMAIN w
    BY <1>4, <2>1
  <2>3. f.mask[1] = "A" /\ f.mask[2] = "A"
    BY DEF HasStateCode
  <2> HIDE DEF w
  <2> QED BY <1>4, <2>2, <2>3 DEF Allowed
<1>6. /\ a \in Letter /\ b \in Letter
      /\ (u = 0 /\ a = w[1]) \/ (u = 1 /\ Backed(alts, conf, 1, a))
      /\ (v = 0 /\ b = w[2]) \/ (v = 1 /\ Backed(alts, conf, 2, b))
  BY <1>2, <1>4, <1>5, OptionIsBacked, ZenonT(60)
<1>7. /\ u + v \in 1 .. MaxSubstitutions - s.fixes /\ <<a, b>> \in StateCodes
      /\ r = <<a, b>> \o SubSeq(w, 3, Len(w))
  BY <1>2
<1> HIDE DEF w, r, a, b, u, v
<1>8. a \in Alphanumeric /\ b \in Alphanumeric /\ Len(w) >= 2
  BY <1>4, <1>6 DEF Alphanumeric
<1>9. /\ r \in Text /\ Len(r) = Len(w) /\ r[1] = a /\ r[2] = b /\ SubSeq(r, 1, 2) = <<a, b>>
      /\ \A i \in DOMAIN w : i # 1 /\ i # 2 => r[i] = w[i]
  <2> DEFINE code == <<a, b>>
  <2>1. /\ w \in Text /\ Len(w) >= 2 /\ a \in Alphanumeric /\ b \in Alphanumeric
        /\ r = WithCode(w, code) /\ code = <<a, b>>
    BY <1>3, <1>7, <1>8 DEF WithCode
  <2> HIDE DEF code
  <2>2. /\ WithCode(w, code) \in Text
        /\ Len(WithCode(w, code)) = Len(w)
        /\ WithCode(w, code)[1] = a /\ WithCode(w, code)[2] = b
        /\ CodeOf(WithCode(w, code)) = code
        /\ \A i \in DOMAIN w : i # 1 /\ i # 2 => WithCode(w, code)[i] = w[i]
    BY <2>1, NewStateCode
  <2> QED BY <2>1, <2>2 DEF CodeOf, code
<1>10. IsValid(r)
  <2>1. Fits(r, f.mask)
    <3>1. ASSUME NEW i \in DOMAIN f.mask PROVE r[i] \in Allowed(f.mask[i])
      <4>1. f.mask[1] = "A" /\ f.mask[2] = "A"
        BY DEF HasStateCode
      <4>2. CASE i = 1 \/ i = 2
        BY <1>6, <1>9, <4>1, <4>2 DEF Allowed
      <4>3. CASE i # 1 /\ i # 2
        BY <1>4, <1>9, <4>3
      <4> QED BY <4>2, <4>3
    <3> QED BY <1>4, <1>9, <3>1 DEF Fits
  <2>2. \A i \in DOMAIN f.literal : r[i] = f.literal[i]
    BY <1>4, <1>9
  <2>3. f \in MatchFormat(r)
    BY <1>4, <2>1, <2>2 DEF MatchFormat, Matches
  <2> QED BY <1>7, <1>9, <2>3 DEF IsValid
<1> DEFINE new == (IF u = 1 THEN {1} ELSE {}) \cup (IF v = 1 THEN {2} ELSE {})
<1>11. ASSUME NEW i \in Differences(text, r)
       PROVE  Backed(alts, conf, i, r[i]) /\ i \in Differences(text, w) \cup new
  <2>1. i \in DOMAIN w /\ r[i] # text[i]
    BY <1>4 DEF Differences
  <2>2. CASE r[i] = w[i]
    <3>1. i \in Differences(text, w)
      BY <1>4, <2>1, <2>2 DEF Differences
    <3> QED BY <1>3, <2>2, <3>1
  <2>3. CASE r[i] # w[i] /\ i = 1
    BY <1>6, <1>9, <2>3
  <2>4. CASE r[i] # w[i] /\ i = 2
    BY <1>6, <1>9, <2>4
  <2> QED BY <1>9, <2>1, <2>2, <2>3, <2>4
<1>12. IsFiniteSet(new) /\ Cardinality(new) <= u + v /\ Cardinality(new) \in Nat
  <2>1. Cardinality({}) = 0 /\ IsFiniteSet({})
    BY FS_EmptySet
  <2>2. /\ Cardinality({1}) = 1 /\ IsFiniteSet({1})
        /\ Cardinality({2}) = 1 /\ IsFiniteSet({2})
    BY FS_Singleton
  <2>3. /\ IsFiniteSet({1, 2}) /\ Cardinality({1, 2}) = 2
    <3>1. {1, 2} = {1} \cup {2} /\ 2 \notin {1}
      OBVIOUS
    <3> QED BY <2>2, <3>1, FS_AddElement, SMTT(30)
  <2>4. CASE u = 1 /\ v = 1
    <3>1. new = {1, 2}
      BY <2>4
    <3> HIDE DEF new
    <3> QED BY <2>3, <2>4, <3>1
  <2>5. CASE u = 1 /\ v = 0
    <3>1. new = {1}
      BY <2>5
    <3> HIDE DEF new
    <3> QED BY <2>2, <2>5, <3>1
  <2>6. CASE u = 0 /\ v = 1
    <3>1. new = {2}
      BY <2>6
    <3> HIDE DEF new
    <3> QED BY <2>2, <2>6, <3>1
  <2>7. CASE u = 0 /\ v = 0
    <3>1. new = {}
      BY <2>7
    <3> HIDE DEF new
    <3> QED BY <2>1, <2>7, <3>1
  <2> QED BY <1>6, <2>4, <2>5, <2>6, <2>7
<1> HIDE DEF new
<1>13. Cardinality(Differences(text, r)) <= MaxSubstitutions
  <2> DEFINE D == Differences(text, w)
  <2>1. IsFiniteSet(D) /\ Cardinality(D) \in Nat /\ Cardinality(D) <= s.fixes
    <3>1. D \in SUBSET DOMAIN text
      BY DEF Differences
    <3> QED BY <1>3, <3>1, SmallSets DEF w
  <2> HIDE DEF D
  <2>2. /\ IsFiniteSet(D \cup new)
        /\ Cardinality(D \cup new) = Cardinality(D) + Cardinality(new) - Cardinality(D \cap new)
    BY <1>12, <2>1, FS_Union
  <2>3. Cardinality(D \cap new) \in Nat /\ Cardinality(D \cup new) \in Nat
    BY <2>1, <2>2, FS_Subset, FS_CardinalityType
  <2>4. Differences(text, r) \subseteq D \cup new
    BY <1>11 DEF D
  <2>5. /\ Cardinality(Differences(text, r)) <= Cardinality(D \cup new)
        /\ Cardinality(Differences(text, r)) \in Nat
    BY <2>2, <2>4, FS_Subset, FS_CardinalityType
  <2>6. u \in Nat /\ v \in Nat /\ u + v <= MaxSubstitutions - s.fixes /\ MaxSubstitutions \in Nat
    BY <1>6, <1>7, FormatsAssumption
  <2> QED BY <1>12, <2>1, <2>2, <2>3, <2>5, <2>6
<1>14. AllBacked(text, alts, conf, r)
  BY <1>3, <1>9, <1>11 DEF AllBacked
<1> QED BY <1>10, <1>13, <1>14 DEF r

(* Every solution of the decoder is a reading the evidence backs, within    *)
(* the limit of substitutions.                                              *)
LEMMA SolutionIsBacked ==
    ASSUME NEW text, NEW alts, NEW conf, Seen(text, alts, conf),
           NEW d \in DecodeSolutions(text, alts, conf)
    PROVE  /\ AllBacked(text, alts, conf, d.text)
           /\ Cardinality(Differences(text, d.text)) <= MaxSubstitutions
           /\ IsValid(d.text)
<1>1. PICK s \in ShapeCandidates(text, alts, conf) :
         \/ IsValid(s.text) /\ d = s
         \/ /\ \E f \in MatchFormat(s.text) : HasStateCode(f)
            /\ \E t \in FixStateCode(s, alts, conf) : d = [text |-> t.text, fixes |-> t.fixes]
  BY DEF DecodeSolutions
<1>2. /\ AllBacked(text, alts, conf, s.text)
      /\ s.fixes \in Nat /\ s.fixes <= MaxSubstitutions
      /\ Cardinality(Differences(text, s.text)) <= s.fixes
  BY ShapeIsBacked
<1>3. CASE IsValid(s.text) /\ d = s
  <2>1. Cardinality(Differences(text, s.text)) \in Nat
    <3>1. Differences(text, s.text) \in SUBSET DOMAIN text /\ text \in Text
      BY DEF Differences, Seen
    <3> QED BY <3>1, SmallSets
  <2> QED BY <1>2, <1>3, <2>1, FormatsAssumption
<1>4. CASE /\ \E f \in MatchFormat(s.text) : HasStateCode(f)
           /\ \E t \in FixStateCode(s, alts, conf) : d = [text |-> t.text, fixes |-> t.fixes]
  <2>1. PICK f \in MatchFormat(s.text) : HasStateCode(f)
    BY <1>4
  <2>2. PICK t \in FixStateCode(s, alts, conf) : d = [text |-> t.text, fixes |-> t.fixes]
    BY <1>4
  <2>3. d.text = t.text
    BY <2>2
  <2> QED BY <1>2, <2>1, <2>3, FixIsBacked
<1> QED BY <1>1, <1>3, <1>4

(* The decoder invents nothing: what it changes the recognizer had seen.   *)
THEOREM DecodeIsBackedCorrect == Spec => []DecodeIsBacked
<1>1. KnownCall => DecodeIsBacked
  <2> SUFFICES ASSUME KnownCall, input.function = "decode" PROVE DecodeIsBacked
    BY DEF DecodeIsBacked
  <2> DEFINE text == input.text
             alts == input.alts
             conf == input.conf
             result == Decode(text, alts, conf).text
  <2>0. input \in CallInputs
    BY DEF KnownCall, NoCall
  <2>1. Seen(text, alts, conf)
    BY <2>0, CallsAssumption DEF Seen, Text
  <2>2. CASE Decode(text, alts, conf) = Unchanged(text)
    BY <2>2 DEF DecodeIsBacked, Unchanged
  <2>3. CASE Decode(text, alts, conf) # Unchanged(text)
    <3>1. ~IsValid(text)
      BY <2>3 DEF Decode
    <3>2. Decode(text, alts, conf)
          = Decided(text, Cheapest(DecodeSolutions(text, alts, conf)))
      BY <2>3 DEF Decode
    <3>3. PICK d \in Cheapest(DecodeSolutions(text, alts, conf)) :
               Decode(text, alts, conf) = [text |-> d.text, repaired |-> TRUE]
      BY <2>3, <3>2, DecidedCases
    <3>4. d \in DecodeSolutions(text, alts, conf) /\ result = d.text
      BY <3>3 DEF Cheapest
    <3> HIDE DEF text, alts, conf, result
    <3>5. /\ AllBacked(text, alts, conf, result)
          /\ Cardinality(Differences(text, result)) <= MaxSubstitutions
          /\ IsValid(result)
      BY <2>1, <3>4, SolutionIsBacked
    <3>6. \A i \in Differences(text, result) :
                \E a \in Range(alts[i]) :
                    /\ a.char = result[i]
                    /\ a.prob >= MinProb
                    /\ 100 * a.prob >= MinRatio * conf[i]
      BY <3>5 DEF AllBacked, Backed
    <3> QED BY <3>1, <3>5, <3>6 DEF DecodeIsBacked, text, alts, conf, result
  <2> QED BY <2>2, <2>3
<1> QED BY <1>1, CallsAreKnown, PTL

-----------------------------------------------------------------------------
(* What holds of 0 and, with each number below n, of the next, holds up to *)
(* n.                                                                      *)
LEMMA UpTo ==
    ASSUME NEW n \in Nat, NEW T, 0 \in T, \A i \in 1 .. n : i - 1 \in T => i \in T
    PROVE  0 .. n \subseteq T
<1> SUFFICES ASSUME (0 .. n) \ T # {} PROVE FALSE
  OBVIOUS
<1>1. PICK m \in (0 .. n) \ T : \A k \in (0 .. n) \ T : m <= k
  <2>1. (0 .. n) \ T \in SUBSET Nat
    OBVIOUS
  <2> QED BY <2>1, Least
<1>2. m # 0 /\ m \in 1 .. n /\ m - 1 \in 0 .. n /\ m - 1 \in T
  BY <1>1
<1> QED BY <1>1, <1>2

(* A result built up element by element, and that there is one, of the     *)
(* type that each step keeps.                                              *)
Builds(g, n, V, base, G) ==
    /\ g \in [0 .. n -> V]
    /\ g[0] = base
    /\ \A i \in 1 .. n : g[i - 1] \in V /\ g[i] = G[i][g[i - 1]]

(* Whatever the steps do, as long as each stays in the type, the result of *)
(* all of them exists.                                                     *)
LEMMA Accumulates ==
    ASSUME NEW n \in Nat, NEW V, NEW base \in V, NEW G \in [1 .. n -> [V -> V]]
    PROVE  \E g : Builds(g, n, V, base, G)
<1> DEFINE T == {k \in 0 .. n : \E g : Builds(g, k, V, base, G)}
<1>1. 0 \in T
  <2> DEFINE g == [i \in 0 .. 0 |-> base]
  <2>1. Builds(g, 0, V, base, G) /\ 0 \in 0 .. n
    BY DEF Builds
  <2> HIDE DEF g
  <2> QED BY <2>1
<1>2. ASSUME NEW k \in 1 .. n, k - 1 \in T PROVE k \in T
  <2>1. PICK g : Builds(g, k - 1, V, base, G)
    BY <1>2
  <2>2. /\ g \in [0 .. k - 1 -> V] /\ g[0] = base
        /\ \A i \in 1 .. k - 1 : g[i - 1] \in V /\ g[i] = G[i][g[i - 1]]
    BY <2>1 DEF Builds
  <2> DEFINE h == [i \in 0 .. k |-> IF i = k THEN G[k][g[k - 1]] ELSE g[i]]
  <2>3. k - 1 \in 0 .. k - 1 /\ g[k - 1] \in V /\ G[k][g[k - 1]] \in V
    BY <2>2
  <2>4. h \in [0 .. k -> V]
    BY <2>2, <2>3
  <2>5. ASSUME NEW i \in 1 .. k
        PROVE  h[i - 1] \in V /\ h[i] = G[i][h[i - 1]]
    <3>1. CASE i = k
      <4>1. h[k - 1] = g[k - 1] /\ h[k] = G[k][g[k - 1]]
        OBVIOUS
      <4>2. h[k] = G[k][h[k - 1]] /\ h[k - 1] \in V
        BY <2>3, <4>1
      <4> HIDE DEF h
      <4> QED BY <3>1, <4>2
    <3>2. CASE i # k
      <4>1. /\ i \in 1 .. k - 1 /\ i - 1 \in 0 .. k /\ i - 1 # k
            /\ h[i - 1] = g[i - 1] /\ h[i] = g[i]
        BY <3>2
      <4> QED BY <2>2, <4>1
    <3> QED BY <3>1, <3>2
  <2>6. h[0] = base
    BY <2>2
  <2> HIDE DEF h
  <2>7. Builds(h, k, V, base, G)
    BY <2>4, <2>5, <2>6 DEF Builds
  <2> QED BY <2>7
<1> HIDE DEF T
<1>3. 0 .. n \subseteq T
  BY <1>1, <1>2, UpTo
<1> QED BY <1>3 DEF T

(* What is kept grows with every position that is kept.                    *)
Grows(g, s, S) ==
    /\ g[0] = <<>>
    /\ \A i \in (1 .. Len(s)) \cap S : g[i] = Append(g[i - 1], s[i])
    /\ \A i \in (1 .. Len(s)) \ S : g[i] = g[i - 1]

(* Filtering a sequence is such an accumulation.                           *)
LEMMA KeptGrows ==
    ASSUME NEW E, NEW s \in Seq(E), NEW S
    PROVE  \E g : Grows(g, s, S) /\ Kept(s, S) = g[Len(s)]
<1>1. PICK n \in Nat : n = Len(s)
  OBVIOUS
<1>2. PICK V : V = Seq(E)
  OBVIOUS
<1>3. <<>> \in V /\ (\A i \in 1 .. n : s[i] \in E) /\ \A v \in V, e \in E : Append(v, e) \in V
  BY <1>1, <1>2
<1> DEFINE Next_(i, v) == IF i \in S THEN Append(v, s[i]) ELSE v
           Step(f) == f = [i \in 0 .. n |-> IF i = 0 THEN <<>> ELSE Next_(i, f[i - 1])]
           G == [i \in 1 .. n |-> [v \in V |-> Next_(i, v)]]
<1>4. G \in [1 .. n -> [V -> V]]
  <2>1. ASSUME NEW i \in 1 .. n, NEW v \in V PROVE Next_(i, v) \in V
    BY <1>3
  <2> HIDE DEF Next_
  <2> QED BY <2>1
<1>5. \A i \in 1 .. n, v \in V : G[i][v] = Next_(i, v)
  OBVIOUS
<1>6. ASSUME NEW i, NEW v
      PROVE  /\ i \in S => Next_(i, v) = Append(v, s[i])
             /\ i \notin S => Next_(i, v) = v
  OBVIOUS
<1>7. Kept(s, S) = (CHOOSE f : Step(f))[n]
  BY <1>1 DEF Kept
<1> HIDE DEF Next_, G
<1>8. PICK g : g \in [0 .. n -> V] /\ g[0] = <<>>
               /\ \A i \in 1 .. n : g[i - 1] \in V /\ g[i] = G[i][g[i - 1]]
  <2>1. PICK base \in V : base = <<>>
    BY <1>3
  <2>2. \E g : Builds(g, n, V, base, G)
    BY <1>4, Accumulates
  <2> QED BY <2>1, <2>2 DEF Builds
<1>9. \A i \in 1 .. n : g[i] = Next_(i, g[i - 1])
  BY <1>5, <1>8
<1>10. Step(g)
  <2>1. \A i \in 0 .. n : g[i] = IF i = 0 THEN <<>> ELSE Next_(i, g[i - 1])
    BY <1>8, <1>9
  <2>2. g = [i \in 0 .. n |-> g[i]]
    BY <1>8
  <2> QED BY <2>1, <2>2
<1> DEFINE k == CHOOSE f : Step(f)
<1>11. Step(k)
  BY <1>10
<1> HIDE DEF k
<1>12. k[0] = <<>> /\ \A i \in 1 .. n : k[i] = Next_(i, k[i - 1])
  BY <1>11
<1>13. /\ \A i \in (1 .. n) \cap S : k[i] = Append(k[i - 1], s[i])
       /\ \A i \in (1 .. n) \ S : k[i] = k[i - 1]
  BY <1>6, <1>12
<1>14. Kept(s, S) = k[n]
  BY <1>7 DEF k
<1> HIDE DEF Step
<1>15. Grows(k, s, S)
  BY <1>1, <1>12, <1>13 DEF Grows
<1> QED BY <1>1, <1>14, <1>15

(* The elements a at the positions b of s, all of them in S.               *)
At(s, S, a, b) ==
    /\ a \in Seq(Range(s)) /\ b \in Seq(S \cap DOMAIN s)
    /\ Len(a) = Len(b)
    /\ \A k \in DOMAIN a : a[k] = s[b[k]]

(* One more character is taken together with its place.                    *)
LEMMA AtMore ==
    ASSUME NEW E, NEW s \in Seq(E), NEW S, NEW a, NEW b, At(s, S, a, b),
           NEW i \in S \cap DOMAIN s
    PROVE  At(s, S, Append(a, s[i]), Append(b, i))
<1> DEFINE x == s[i]
           X == Range(s)
           Y == S \cap DOMAIN s
<1>1. a \in Seq(X) /\ b \in Seq(Y) /\ Len(a) = Len(b) /\ x \in X /\ i \in Y
      /\ Len(a) \in Nat /\ DOMAIN a = 1 .. Len(a) /\ \A k \in DOMAIN a : a[k] = s[b[k]]
  BY DEF At, Range
<1> HIDE DEF X, Y, x
<1>2. /\ Append(a, x) \in Seq(X) /\ Append(b, i) \in Seq(Y)
      /\ Len(Append(a, x)) = Len(a) + 1 /\ Len(Append(b, i)) = Len(a) + 1
      /\ DOMAIN Append(a, x) = 1 .. Len(a) + 1
  BY <1>1
<1>3. ASSUME NEW k \in 1 .. Len(a) + 1
      PROVE  Append(a, x)[k] = s[Append(b, i)[k]]
  <2>1. CASE k = Len(a) + 1
    <3>1. Append(a, x)[Len(a) + 1] = x
      BY <1>1, SMTT(30)
    <3>2. Append(b, i)[Len(b) + 1] = i
      BY <1>1
    <3> QED BY <1>1, <2>1, <3>1, <3>2 DEF x
  <2>2. CASE k # Len(a) + 1
    <3>1. k \in DOMAIN a /\ Append(a, x)[k] = a[k] /\ Append(b, i)[k] = b[k]
      BY <1>1, <2>2
    <3> QED BY <1>1, <3>1
  <2> QED BY <2>1, <2>2
<1> QED BY <1>2, <1>3 DEF At, X, Y, x

(* What is kept of a sequence are its elements at the positions that are   *)
(* kept of its numbering.                                                  *)
LEMMA KeptAligned ==
    ASSUME NEW E, NEW s \in Seq(E), NEW S
    PROVE  At(s, S, Kept(s, S), Kept([i \in DOMAIN s |-> i], S))
<1>1. PICK ids : ids = [i \in DOMAIN s |-> i]
  OBVIOUS
<1>2. PICK n \in Nat : n = Len(s) /\ DOMAIN s = 1 .. n
  OBVIOUS
<1>3. ids \in Seq(Nat) /\ Len(ids) = n /\ \A i \in 1 .. n : ids[i] = i
  BY <1>1, <1>2
<1>4. PICK g : /\ Kept(s, S) = g[n]
               /\ g[0] = <<>>
               /\ \A i \in (1 .. n) \cap S : g[i] = Append(g[i - 1], s[i])
               /\ \A i \in (1 .. n) \ S : g[i] = g[i - 1]
  <2>1. \E g : Grows(g, s, S) /\ Kept(s, S) = g[Len(s)]
    BY KeptGrows
  <2> QED BY <1>2, <2>1 DEF Grows
<1>5. PICK h : /\ Kept(ids, S) = h[n]
               /\ h[0] = <<>>
               /\ \A i \in (1 .. n) \cap S : h[i] = Append(h[i - 1], ids[i])
               /\ \A i \in (1 .. n) \ S : h[i] = h[i - 1]
  <2>1. \E h : Grows(h, ids, S) /\ Kept(ids, S) = h[Len(ids)]
    BY <1>3, KeptGrows
  <2> QED BY <1>3, <2>1 DEF Grows
<1> DEFINE T == {i \in 0 .. n : At(s, S, g[i], h[i])}
<1>6. 0 \in T
  <2>1. At(s, S, <<>>, <<>>)
    BY DEF At
  <2> QED BY <1>4, <1>5, <2>1
<1>7. ASSUME NEW i \in 1 .. n, i - 1 \in T PROVE i \in T
  <2>1. At(s, S, g[i - 1], h[i - 1]) /\ i \in 0 .. n
    BY <1>7
  <2>2. CASE i \in S
    <3>1. g[i] = Append(g[i - 1], s[i]) /\ h[i] = Append(h[i - 1], i) /\ i \in S \cap DOMAIN s
      BY <1>2, <1>3, <1>4, <1>5, <2>2
    <3>2. At(s, S, Append(g[i - 1], s[i]), Append(h[i - 1], i))
      BY <2>1, <3>1, AtMore
    <3> QED BY <2>1, <3>1, <3>2
  <2>3. CASE i \notin S
    BY <1>4, <1>5, <2>1, <2>3
  <2> QED BY <2>2, <2>3
<1> HIDE DEF T
<1>8. 0 .. n \subseteq T
  BY <1>6, <1>7, UpTo
<1>9. At(s, S, g[n], h[n])
  BY <1>8 DEF T
<1> QED BY <1>1, <1>4, <1>5, <1>9

(* The tail of a text, and of its positions.                               *)
TailOf(s, k) == SubSeq(s, k + 1, Len(s))

(* Cutting the same number of characters and of places off the front keeps *)
(* each character at its place.                                            *)
LEMMA TailAligned ==
    ASSUME NEW s, NEW S, NEW a, NEW b, At(s, S, a, b), NEW k \in Nat, k <= Len(a),
           NEW text, text = TailOf(a, k),
           NEW places, places = TailOf(b, Len(b) - Len(text))
    PROVE  \A i \in DOMAIN text : s[places[i]] = text[i]
<1> DEFINE X == Range(s)
           Y == S \cap DOMAIN s
<1>1. PICK n \in Nat : n = Len(a) /\ n = Len(b) /\ k \in 0 .. n /\ DOMAIN a = 1 .. n
                       /\ DOMAIN b = 1 .. n
                       /\ a \in Seq(X) /\ b \in Seq(Y) /\ \A j \in 1 .. n : a[j] = s[b[j]]
  BY DEF At
<1>2. /\ \A j \in k + 1 .. n : a[j] \in X
      /\ \A j \in k + 1 .. n : b[j] \in Y
  BY <1>1
<1> HIDE DEF X, Y
<1>3. /\ Len(SubSeq(a, k + 1, n)) = n - k /\ DOMAIN SubSeq(a, k + 1, n) = 1 .. n - k
      /\ \A j \in 1 .. n - k : SubSeq(a, k + 1, n)[j] = a[j + k]
  BY <1>1, <1>2
<1>4. \A j \in 1 .. n - k : SubSeq(b, k + 1, n)[j] = b[j + k]
  BY <1>1, <1>2
<1>5. n - (n - k) + 1 = k + 1
  BY <1>1
<1>6. \A j \in 1 .. n - k : SubSeq(a, k + 1, n)[j] = s[SubSeq(b, k + 1, n)[j]]
  <2>1. \A j \in 1 .. n - k : j + k \in 1 .. n
    BY <1>1
  <2> QED BY <1>1, <1>3, <1>4, <2>1
<1>7. text = SubSeq(a, k + 1, n) /\ Len(text) = n - k /\ DOMAIN text = 1 .. n - k
  BY <1>1, <1>3 DEF TailOf
<1>8. places = SubSeq(b, k + 1, n)
  BY <1>1, <1>5, <1>7 DEF TailOf
<1> QED BY <1>6, <1>7, <1>8

(* A bounded set of numbers has a greatest element.                        *)
LEMMA Greatest ==
    ASSUME NEW n \in Nat, NEW T \in SUBSET (0 .. n), T # {}
    PROVE  Max(T) \in T /\ \A y \in T : Max(T) >= y
<1> DEFINE gaps == {n - y : y \in T}
<1>1. gaps \in SUBSET Nat /\ gaps # {} /\ \A y \in T : n - y \in gaps
  <2>1. \A y \in T : y \in Nat /\ n - y \in Nat
    OBVIOUS
  <2>2. PICK y \in T : TRUE
    OBVIOUS
  <2>3. n - y \in gaps
    BY <2>2
  <2>4. gaps \in SUBSET Nat
    BY <2>1
  <2> QED BY <2>3, <2>4
<1>2. PICK m \in gaps : \A k \in gaps : m <= k
  <2> HIDE DEF gaps
  <2> QED BY <1>1, Least
<1>3. PICK x \in T : m = n - x
  BY <1>2
<1> HIDE DEF gaps
<1>4. ASSUME NEW y \in T PROVE x >= y
  <2>1. n - x <= n - y
    BY <1>1, <1>2, <1>3
  <2> QED BY <2>1
<1> QED BY <1>4 DEF Max

(* The noise cut off a text is no longer than the text.                    *)
LEMMA NoiseFits ==
    ASSUME NEW text, Len(text) \in Nat
    PROVE  NoiseLength(text) \in 0 .. Len(text)
<1> DEFINE tokens == {t \in Hologram :
                         /\ Len(text) >= Len(t) + 3
                         /\ SubSeq(text, 1, Len(t)) = t
                         /\ text[Len(t) + 1] \in Letter
                         /\ text[Len(t) + 2] \in Letter
                         /\ text[Len(t) + 3] \in Digit}
           T == {Len(t) : t \in tokens} \cup {0}
<1>1. \A t \in tokens : Len(t) \in 0 .. Len(text)
  <2>1. ASSUME NEW t \in tokens PROVE Len(t) \in 0 .. Len(text)
    <3>1. t \in Seq(Alphanumeric) /\ Len(text) >= Len(t) + 3
      BY FormatsAssumption
    <3>2. Len(t) \in Nat
      BY <3>1
    <3> QED BY <3>1, <3>2
  <2> QED BY <2>1
<1>2. NoiseLength(text) = Max(T)
  BY DEF NoiseLength
<1> HIDE DEF tokens
<1>3. T \in SUBSET (0 .. Len(text)) /\ T # {}
  BY <1>1
<1> HIDE DEF T
<1>4. Max(T) \in T
  BY <1>3, Greatest
<1> QED BY <1>2, <1>3, <1>4

(* No character is given another's evidence by the normalization, however  *)
(* long the text is and whatever separators and tokens it drops.           *)
THEOREM EvidenceStaysAlignedCorrect == Spec => []EvidenceStaysAligned
<1>1. KnownCall => EvidenceStaysAligned
  <2> SUFFICES ASSUME KnownCall, input.function = "finalize",
                      Range(input.text) \cap Foreign = {},
                      NEW r \in FinalizeRead(input.text), NEW i \in DOMAIN r.text
               PROVE  input.text[r.evidence[i]] = r.text[i]
    BY DEF EvidenceStaysAligned
  <2>1. input \in CallInputs
    BY DEF KnownCall, NoCall
  <2>2. PICK raw : raw = input.text
    OBVIOUS
  <2>3. raw \in Seq(Range(raw)) /\ Range(raw) \cap Foreign = {}
    BY <2>1, <2>2, CallsAssumption
  <2> DEFINE S == {j \in DOMAIN raw : raw[j] \in Alphanumeric}
             ids == [j \in DOMAIN raw |-> j]
             a == Stripped(raw)
             b == ListPositions(raw)
             k == NoiseLength(a)
             text == SubSeq(a, k + 1, Len(a))
             places == SubSeq(b, Len(b) - Len(text) + 1, Len(b))
  <2>4. {j \in DOMAIN raw : raw[j] \in Alphanumeric \cup Foreign} = S
    BY <2>3 DEF Range
  <2>5. a = Kept(raw, S) /\ b = Kept(ids, S)
    BY <2>4 DEF Stripped, ListPositions
  <2> HIDE DEF S, a, b
  <2>6. At(raw, S, a, b)
    BY <2>3, <2>5, KeptAligned
  <2>7. Len(a) \in Nat
    <3>1. a \in Seq(Range(raw))
      BY <2>6 DEF At
    <3> QED BY <3>1
  <2>8. k \in Nat /\ k <= Len(a)
    BY <2>7, NoiseFits
  <2>9. r = [text |-> text, evidence |-> places]
    BY <2>2 DEF FinalizeRead, Normalize, a, b
  <2>10. text = TailOf(a, k) /\ places = TailOf(b, Len(b) - Len(text))
    BY DEF TailOf
  <2> HIDE DEF k, text, places
  <2>11. \A j \in DOMAIN text : raw[places[j]] = text[j]
    BY <2>6, <2>8, <2>10, TailAligned
  <2> QED BY <2>2, <2>9, <2>11
<1> QED BY <1>1, CallsAreKnown, PTL

-----------------------------------------------------------------------------
(* The reads of a track.                                                   *)
ReadRecord == [text : Text, rec : 0 .. 100, weak : Nat, quality : 0 .. 100,
               weight : Nat, look : Nat, frame : Nat]

(* The weight of the grammar is a percentage.                               *)
LEMMA GrammarWeighs == ASSUME NEW text PROVE GrammarFactor(text) \in 0 .. 100
BY DEF GrammarFactor

(* Dividing natural numbers.                                                *)
LEMMA Quotient ==
    ASSUME NEW n \in Nat, NEW d \in Nat \ {0}
    PROVE  n \div d \in Nat
OBVIOUS

(* Squaring keeps the order.                                                *)
LEMMA SquareMonotone ==
    ASSUME NEW a \in Nat, NEW b \in Nat, a <= b
    PROVE  a * a <= b * b
<1>1. a * a <= b * a /\ a * b <= b * b
  BY MulMonotone
<1> QED BY <1>1

(* There is a root to weigh by.                                            *)
LEMMA Root ==
    ASSUME NEW rec \in 0 .. 100
    PROVE  \E s \in 0 .. 100 :
              /\ 100 * s * s <= rec * rec * rec
              /\ rec * rec * rec < 100 * (s + 1) * (s + 1)
<1> DEFINE c == rec * rec * rec
           T == {s \in Nat : c < 100 * (s + 1) * (s + 1)}
<1>1. c \in Nat /\ c <= 1000000
  <2>1. rec * rec <= 100 * rec /\ rec * rec \in Nat
    BY MulMonotone
  <2>2. (rec * rec) * rec <= 10000 * rec
    BY <2>1, MulMonotone
  <2> QED BY <2>1, <2>2
<1> HIDE DEF c
<1>2. 100 \in T
  BY <1>1
<1>3. PICK m \in T : \A k \in T : m <= k
  <2>1. T \in SUBSET Nat /\ T # {}
    BY <1>2
  <2> HIDE DEF T
  <2> QED BY <2>1, Least
<1>4. m \in 0 .. 100 /\ c < 100 * (m + 1) * (m + 1)
  BY <1>2, <1>3
<1>5. 100 * m * m <= c
  <2>1. CASE m = 0
    BY <1>1, <2>1
  <2>2. CASE m > 0
    <3>1. m - 1 \in Nat /\ m - 1 \notin T
      BY <1>3, <1>4, <2>2
    <3>2. ~(c < 100 * ((m - 1) + 1) * ((m - 1) + 1))
      BY <3>1
    <3>3. (m - 1) + 1 = m /\ 100 * m * m \in Nat
      BY <1>4
    <3> QED BY <1>1, <3>2, <3>3
  <2> QED BY <1>4, <2>1, <2>2
<1> QED BY <1>4, <1>5 DEF c

(* Every read has a weight.                                                 *)
LEMMA Weighs ==
    ASSUME NEW text, NEW rec \in 0 .. 100, NEW quality \in 0 .. 100
    PROVE  WeightOf(text, rec, quality) \in Nat
<1> DEFINE sharp == CHOOSE s \in 0 .. 100 :
              /\ 100 * s * s <= rec * rec * rec
              /\ rec * rec * rec < 100 * (s + 1) * (s + 1)
<1>1. sharp \in 0 .. 100
  BY Root
<1>2. WeightOf(text, rec, quality) = (sharp * quality * GrammarFactor(text)) \div 10000
  BY DEF WeightOf
<1> HIDE DEF sharp
<1>3. sharp * quality * GrammarFactor(text) \in Nat
  <2>1. GrammarFactor(text) \in Nat /\ sharp * quality \in Nat
    BY <1>1, GrammarWeighs
  <2> QED BY <2>1
<1> QED BY <1>2, <1>3, Quotient

ReadsTyped == reads \in Seq(ReadRecord) /\ frame \in Nat

(* Decoding a text gives a text, and an empty one only of an empty one.    *)
LEMMA DecodeResult ==
    ASSUME NEW text, NEW alts, NEW conf, Seen(text, alts, conf)
    PROVE  Decode(text, alts, conf).text \in Text /\ Len(Decode(text, alts, conf).text) = Len(text)
<1>1. CASE Decode(text, alts, conf) = Unchanged(text)
  BY <1>1 DEF Unchanged, Seen
<1>2. CASE Decode(text, alts, conf) # Unchanged(text)
  <2>1. Decode(text, alts, conf) = Decided(text, Cheapest(DecodeSolutions(text, alts, conf)))
    BY <1>2 DEF Decode
  <2>2. PICK d \in Cheapest(DecodeSolutions(text, alts, conf)) :
             Decode(text, alts, conf) = [text |-> d.text, repaired |-> TRUE]
    BY <1>2, <2>1, DecidedCases
  <2>3. d \in DecodeSolutions(text, alts, conf)
    BY DEF Cheapest
  <2>4. AllBacked(text, alts, conf, d.text)
    BY <2>3, SolutionIsBacked
  <2> QED BY <2>2, <2>4 DEF AllBacked
<1> QED BY <1>1, <1>2

(* What votes for a read is a text.                                        *)
LEMMA VotedResult ==
    ASSUME NEW text, NEW alts, NEW conf, Seen(text, alts, conf), text # <<>>
    PROVE  Voted(text, alts, conf) \in Text /\ Voted(text, alts, conf) # <<>>
<1>1. text \in Text /\ Len(text) # 0
  BY DEF Seen, Text
<1>2. Decode(text, alts, conf).text \in Text /\ Decode(text, alts, conf).text # <<>>
  BY <1>1, DecodeResult DEF Text
<1>3. Resolve(text).text \in Text /\ Resolve(text).text # <<>>
  BY <1>1, ResolveResult
<1> QED BY <1>2, <1>3 DEF Voted

(* What is left of a list of reads are reads.                              *)
LEMMA KeptReadsAreReads ==
    ASSUME NEW all \in Seq(ReadRecord), NEW S
    PROVE  /\ Kept(all, S) \in Seq(ReadRecord)
           /\ \A i \in DOMAIN Kept(all, S) : \E j \in DOMAIN all : Kept(all, S)[i] = all[j]
<1>2. PICK b : At(all, S, Kept(all, S), b)
  BY KeptAligned
<1>3. Kept(all, S) \in Seq(Range(all)) /\ Range(all) \subseteq ReadRecord
  BY <1>2 DEF At, Range
<1>4. \A i \in DOMAIN Kept(all, S) : Kept(all, S)[i] \in Range(all)
  BY <1>3
<1>5. Kept(all, S) \in Seq(ReadRecord)
  BY <1>3
<1>6. \A x \in Range(all) : \E j \in DOMAIN all : x = all[j]
  BY DEF Range
<1> QED BY <1>4, <1>5, <1>6

(* The reads stay reads when they are capped.                              *)
LEMMA CappedAreReads ==
    ASSUME NEW all \in Seq(ReadRecord)
    PROVE  Capped(all) \in Seq(ReadRecord)
<1> DEFINE S == {i \in DOMAIN all :
                   Cardinality({j \in DOMAIN all : Outweighs(all, j, i)}) < KeptReads}
<1>1. Capped(all) = IF Len(all) <= MaxHeld THEN all ELSE Kept(all, S)
  BY DEF Capped
<1> HIDE DEF S
<1> QED BY <1>1, KeptReadsAreReads

(* The crops kept for a text are of its own reads.                         *)
Illustrated(e, t) == e.plate = {t} /\ e.vehicle \in {{}, {t}}

(* Every text held was said, and as long as not more texts were said than  *)
(* are held, every text said is held.                                      *)
Pictured ==
    /\ <<>> \notin said
    /\ IsFiniteSet(said)
    /\ DOMAIN evidence \subseteq said
    /\ Cardinality(said) <= MaxHypotheses => DOMAIN evidence = said
    /\ \A t \in DOMAIN evidence : Illustrated(evidence[t], t)

(* A further read leaves the crops of the others as they were.             *)
LEMMA BetterCrops ==
    ASSUME NEW E, NEW r \in ReadRecord, NEW whole,
           \A t \in DOMAIN E : Illustrated(E[t], t)
    PROVE  /\ DOMAIN BestCrops(E, r, whole) = DOMAIN E \cup {r.text}
           /\ \A t \in DOMAIN BestCrops(E, r, whole) : Illustrated(BestCrops(E, r, whole)[t], t)
<1> DEFINE old == IF r.text \in DOMAIN E THEN E[r.text]
                  ELSE [plate |-> {}, plateQuality |-> -1, vehicle |-> {}, vehicleQuality |-> -1]
           plate == r.quality > old.plateQuality
           vehicle == whole /\ r.quality > old.vehicleQuality
           new == [plate          |-> IF plate THEN {r.text} ELSE old.plate,
                   plateQuality   |-> IF plate THEN r.quality ELSE old.plateQuality,
                   vehicle        |-> IF vehicle THEN {r.text} ELSE old.vehicle,
                   vehicleQuality |-> IF vehicle THEN r.quality ELSE old.vehicleQuality]
<1>1. BestCrops(E, r, whole)
      = [t \in DOMAIN E \cup {r.text} |-> IF t = r.text THEN new ELSE E[t]]
  BY DEF BestCrops
<1>2. Illustrated(new, r.text)
  <2>1. CASE r.text \in DOMAIN E
    <3>1. old = E[r.text]
      BY <2>1
    <3>2. old.plate = {r.text} /\ old.vehicle \in {{}, {r.text}}
      BY <2>1, <3>1 DEF Illustrated
    <3> HIDE DEF old, plate, vehicle
    <3> QED BY <3>2 DEF Illustrated
  <2>2. CASE r.text \notin DOMAIN E
    <3>1. old.plateQuality = -1 /\ old.vehicle = {}
      BY <2>2
    <3>2. r.quality > -1
      BY DEF ReadRecord
    <3>3. plate
      <4> HIDE DEF old
      <4> QED BY <3>1, <3>2
    <3> HIDE DEF old, plate, vehicle
    <3> QED BY <3>1, <3>3 DEF Illustrated
  <2> QED BY <2>1, <2>2
<1> HIDE DEF new
<1> QED BY <1>1, <1>2

(* What one more read leaves of the pictures.                              *)
LEMMA KeptPictures ==
    ASSUME NEW E, NEW r \in ReadRecord, NEW whole, NEW F \in Hypotheses(E, r, whole),
           \A t \in DOMAIN E : Illustrated(E[t], t)
    PROVE  /\ DOMAIN F \subseteq DOMAIN E \cup {r.text}
           /\ Cardinality(DOMAIN E \cup {r.text}) <= MaxHypotheses
              => DOMAIN F = DOMAIN E \cup {r.text}
           /\ \A t \in DOMAIN F : Illustrated(F[t], t)
<1> DEFINE better == BestCrops(E, r, whole)
<1>1. /\ DOMAIN better = DOMAIN E \cup {r.text}
      /\ \A t \in DOMAIN better : Illustrated(better[t], t)
  BY BetterCrops
<1> HIDE DEF better
<1>2. CASE F = better
  BY <1>1, <1>2
<1>3. CASE /\ ~(Cardinality(DOMAIN better) <= MaxHypotheses)
           /\ \E t : F = [u \in (DOMAIN better \ {t}) \cup {r.text} |-> better[u]]
  BY <1>1, <1>3
<1> QED BY <1>2, <1>3 DEF Hypotheses, better

(* A read that is used is one nonempty read more, and one hypothesis        *)
(* changed or added for it.                                                 *)
LEMMA ReadAdds ==
    ASSUME ReadsTyped, Read
    PROVE  \E r \in ReadRecord, whole \in BOOLEAN :
              /\ r.text # <<>>
              /\ reads' = Capped(Append(reads, r))
              /\ evidence' \in Hypotheses(evidence, r, whole)
              /\ said' = said \cup {r.text}
<1>1. frame' \in Nat
  BY DEF Read, ReadsTyped
<1>2. PICK s \in Recognized :
           AddRead(s.raw, s.alts, s.rec, s.weak, s.quality, s.look, s.whole, frame')
  BY DEF Read
<1> DEFINE conf == [i \in DOMAIN s.raw |-> IF i = s.weak THEN 40 ELSE s.rec]
           text == Voted(s.raw, s.alts, conf)
           r == [text |-> text, rec |-> s.rec, weak |-> s.weak, quality |-> s.quality,
                 weight |-> WeightOf(text, s.rec, s.quality), look |-> s.look, frame |-> frame']
<1>3. /\ s.raw \in Seq(Alphanumeric) /\ s.raw # <<>>
      /\ s.alts \in Seq(Seq([char : Alphanumeric \cup Foreign, prob : Nat]))
      /\ Len(s.alts) = Len(s.raw)
      /\ s.rec \in 0 .. 100 /\ s.weak \in Nat
      /\ s.quality \in 0 .. 100 /\ s.look \in Nat /\ s.whole \in BOOLEAN
  BY ReadsAssumption, Zenon
<1>4. conf \in Seq(Nat) /\ Len(conf) = Len(s.raw)
  <2>1. PICK n \in Nat : n = Len(s.raw) /\ DOMAIN s.raw = 1 .. n
    BY <1>3
  <2>2. s.rec \in Nat /\ 40 \in Nat
    <3>1. PICK c \in 0 .. 100 : c = s.rec
      BY <1>3, Zenon
    <3>2. c \in Nat /\ 40 \in Nat
      OBVIOUS
    <3> QED BY <3>1, <3>2, Zenon
  <2>3. conf \in [1 .. n -> Nat]
    BY <2>1, <2>2
  <2> HIDE DEF conf
  <2> QED BY <2>1, <2>3
<1>5. text \in Text /\ text # <<>>
  <2>1. Seen(s.raw, s.alts, conf)
    <3> HIDE DEF conf
    <3> QED BY <1>3, <1>4 DEF Seen, Text
  <2> HIDE DEF conf
  <2> QED BY <1>3, <2>1, VotedResult
<1>6. WeightOf(text, s.rec, s.quality) \in Nat
  <2> HIDE DEF text
  <2> QED BY <1>3, Weighs
<1>7. r \in ReadRecord /\ r.text # <<>>
  <2> HIDE DEF text
  <2> QED BY <1>1, <1>3, <1>5, <1>6 DEF ReadRecord
<1>8. /\ reads' = Capped(Append(reads, r))
      /\ evidence' \in Hypotheses(evidence, r, s.whole)
      /\ said' = said \cup {r.text}
  BY <1>2 DEF AddRead
<1> HIDE DEF r
<1> QED BY <1>3, <1>7, <1>8

(* Of the two, the smaller set has no more elements.                        *)
LEMMA SaidBefore ==
    ASSUME NEW t, IsFiniteSet(said), Cardinality(said \cup {t}) <= MaxHypotheses
    PROVE  Cardinality(said) <= MaxHypotheses
<1>1. IsFiniteSet(said \cup {t})
  BY FS_AddElement
<1>2. /\ Cardinality(said) <= Cardinality(said \cup {t})
      /\ Cardinality(said) \in Nat /\ Cardinality(said \cup {t}) \in Nat
  BY <1>1, FS_Subset, FS_CardinalityType
<1> QED BY <1>2, ReadsAssumption

(* The reads stay what reads are, and every picture belongs to the text it  *)
(* is kept for.                                                             *)
LEMMA ReadsAreKept == Spec => [](ReadsTyped /\ Pictured)
<1>1. Init => ReadsTyped /\ Pictured
  BY FS_EmptySet DEF Init, EvidenceInit, ReadsTyped, Pictured
<1>2. ASSUME ReadsTyped, Pictured, [Next]_vars PROVE ReadsTyped' /\ Pictured'
  <2>1. CASE Read
    <3>1. PICK r \in ReadRecord, whole \in BOOLEAN :
              /\ r.text # <<>>
              /\ reads' = Capped(Append(reads, r))
              /\ evidence' \in Hypotheses(evidence, r, whole)
              /\ said' = said \cup {r.text}
      BY <1>2, <2>1, ReadAdds
    <3>2. ReadsTyped'
      <4>1. Append(reads, r) \in Seq(ReadRecord)
        BY <1>2 DEF ReadsTyped
      <4>2. reads' \in Seq(ReadRecord)
        BY <3>1, <4>1, CappedAreReads
      <4> QED BY <1>2, <2>1, <4>2 DEF ReadsTyped, Read
    <3>3. Pictured'
      <4>1. /\ DOMAIN evidence' \subseteq DOMAIN evidence \cup {r.text}
            /\ Cardinality(DOMAIN evidence \cup {r.text}) <= MaxHypotheses
               => DOMAIN evidence' = DOMAIN evidence \cup {r.text}
            /\ \A t \in DOMAIN evidence' : Illustrated(evidence'[t], t)
        BY <1>2, <3>1, KeptPictures DEF Pictured
      <4>2. <<>> \notin said' /\ IsFiniteSet(said') /\ DOMAIN evidence' \subseteq said'
        BY <1>2, <3>1, <4>1, FS_AddElement DEF Pictured
      <4>3. ASSUME Cardinality(said') <= MaxHypotheses PROVE DOMAIN evidence' = said'
        <5>1. Cardinality(said) <= MaxHypotheses
          BY <1>2, <3>1, <4>3, SaidBefore DEF Pictured
        <5>2. DOMAIN evidence = said
          BY <1>2, <5>1 DEF Pictured
        <5> QED BY <3>1, <4>1, <4>3, <5>2
      <4> QED BY <4>1, <4>2, <4>3 DEF Pictured
    <3> QED BY <3>2, <3>3
  <2>2. CASE Observe
    BY <1>2, <2>2, ReadsAssumption DEF Observe, See, NoteObservation, ReadsTyped, Pictured
  <2>3. CASE Glimpse
    BY <1>2, <2>3, ReadsAssumption DEF Glimpse, See, NoteObservation, ReadsTyped, Pictured
  <2>4. CASE PlateMissed
    BY <1>2, <2>4 DEF PlateMissed, NoteVehicle, ReadsTyped, Pictured
  <2>5. CASE Finish
    BY <1>2, <2>5 DEF Finish, Finalize, ReadsTyped, Pictured
  <2>6. CASE Call
    BY <1>2, <2>6 DEF Call, evidenceVars, ReadsTyped, Pictured
  <2>7. CASE UNCHANGED vars
    BY <1>2, <2>7 DEF vars, evidenceVars, ReadsTyped, Pictured
  <2> QED BY <1>2, <2>1, <2>2, <2>3, <2>4, <2>5, <2>6, <2>7 DEF Next
<1> QED BY <1>1, <1>2, PTL DEF Spec

(* What an event shows is of its plate, or of a text like it, or said to   *)
(* be filled in, or the track's best crops for want of such a text.        *)
Fair(p, plate) ==
    LET like == {t \in said : SameVehicle(t, plate)}
    IN /\ p.source # "fallback_global"
          => \E t \in like : /\ p.crop = {t}
                             /\ p.vehicle = {t} \/ p.filled
                             /\ p.source = "hypothesis" => t = plate
       /\ Cardinality(said) <= MaxHypotheses
          => /\ p.source = "fallback_global" => like = {}
             /\ p.source = "derived" => plate \notin said

(* The pictures chosen for a plate are fair ones.                          *)
LEMMA PicturesAreFair ==
    ASSUME Pictured, NEW plate, NEW p \in Pictures(plate)
    PROVE  Fair(p, plate)
<1>1. CASE Compatible(evidence, plate) = {}
  <2>1. p.source = "fallback_global"
    BY <1>1 DEF Pictures
  <2>2. Cardinality(said) <= MaxHypotheses => {t \in said : SameVehicle(t, plate)} = {}
    BY <1>1 DEF Compatible, Pictured
  <2> QED BY <2>1, <2>2 DEF Fair
<1>2. CASE Compatible(evidence, plate) # {}
  <2>1. PICK t \in EvidenceFor(evidence, plate) :
             p = [source  |-> IF t = plate THEN "hypothesis" ELSE "derived",
                  crop    |-> evidence[t].plate,
                  vehicle |-> IF evidence[t].vehicle = {} THEN overall.vehicle
                              ELSE evidence[t].vehicle,
                  filled  |-> evidence[t].vehicle = {}]
    BY <1>2 DEF Pictures
  <2>2. t \in DOMAIN evidence /\ (t = plate \/ SameVehicle(t, plate))
        /\ (plate \in DOMAIN evidence => t = plate)
    BY DEF EvidenceFor, Compatible
  <2>3. t \in said /\ t # <<>> /\ Illustrated(evidence[t], t)
    BY <2>2 DEF Pictured
  <2>4. t \in {u \in said : SameVehicle(u, plate)}
    BY <2>2, <2>3 DEF SameVehicle
  <2>5. /\ p.source = IF t = plate THEN "hypothesis" ELSE "derived"
        /\ p.crop = {t} /\ (p.vehicle = {t} \/ p.filled)
    BY <2>1, <2>3 DEF Illustrated
  <2>6. Cardinality(said) <= MaxHypotheses /\ p.source = "derived" => plate \notin said
    BY <2>2, <2>5 DEF Pictured
  <2> QED BY <2>4, <2>5, <2>6 DEF Fair
<1> QED BY <1>1, <1>2

(* The pictures of an event were read as its plate or as a text like it;   *)
(* only the crop of the vehicle may be filled in, and is then said to be;  *)
(* and a plate that was read is shown by its own pictures, a plate like    *)
(* none that was read by the track's best, unless the track was read as    *)
(* more texts than MAX_HYPOTHESES (_media_fields, evidence_for).           *)
THEOREM ImagesBelongToPlateCorrect == Spec => []ImagesBelongToPlate
<1>1. Pictured => ImagesBelongToPlate
  <2> SUFFICES ASSUME Pictured, NEW d \in Drafts, NEW plate \in d.plate
               PROVE  Fair(d.shows, plate)
    BY DEF ImagesBelongToPlate, Fair
  <2>1. verdict.plates # {}
    BY DEF Drafts
  <2>2. PICK v \in verdict.plates :
             \E q \in Pictures(v.text) : d.plate = {v.text} /\ d.shows = q
    BY <2>1 DEF Drafts
  <2>3. d.shows \in Pictures(plate)
    BY <2>2
  <2> QED BY <2>3, PicturesAreFair
<1> QED BY <1>1, ReadsAreKept, PTL

-----------------------------------------------------------------------------
(* The least of three prices.                                              *)
LEMMA MinOfThree ==
    ASSUME NEW a \in Nat, NEW b \in Nat, NEW c \in Nat
    PROVE  Min({a, b, c}) \in Nat
<1>1. \E x \in {a, b, c} : \A y \in {a, b, c} : x <= y
  OBVIOUS
<1>2. Min({a, b, c}) \in {a, b, c}
  BY <1>1 DEF Min
<1> QED BY <1>2

(* A row of the distance has a price for every prefix of the other text.   *)
Row(n) == {r \in Seq(Nat) : Len(r) = n + 1}

(* The next row of the distance is again a row.                            *)
LEMMA RowsFollow ==
    ASSUME NEW price \in Seq(Nat), NEW indel \in Nat, NEW previous \in Row(Len(price))
    PROVE  NextRow(previous, indel, price) \in Row(Len(price))
<1>1. PICK n \in Nat : n = Len(price)
  OBVIOUS
<1>2. PICK V : V = Seq(Nat) \ {<<>>}
  OBVIOUS
<1>3. /\ \A j \in 1 .. n : price[j] \in Nat /\ previous[j] \in Nat /\ previous[j + 1] \in Nat
      /\ previous[1] \in Nat /\ previous[1] + indel \in Nat
  BY <1>1, SMTT(30) DEF Row
<1>4. \A v \in V : Last(v) \in Nat
  BY <1>2 DEF Last
<1>5. PICK base \in V : base = <<previous[1] + indel>> /\ Len(base) = 1
  <2>1. PICK x \in Nat : x = previous[1] + indel
    BY <1>3
  <2>2. <<x>> \in V /\ Len(<<x>>) = 1
    BY <1>2
  <2> QED BY <2>1, <2>2
<1> DEFINE Next_(j, v) == Append(v, Min({previous[j + 1] + indel, Last(v) + indel,
                                         previous[j] + price[j]}))
           Step(f) == f = [j \in 0 .. n |-> IF j = 0 THEN base ELSE Next_(j, f[j - 1])]
           G == [j \in 1 .. n |-> [v \in V |-> Next_(j, v)]]
<1>6. ASSUME NEW j \in 1 .. n, NEW v \in V
      PROVE  Next_(j, v) \in V /\ Len(Next_(j, v)) = Len(v) + 1
  <2>1. /\ previous[j + 1] + indel \in Nat /\ Last(v) + indel \in Nat
        /\ previous[j] + price[j] \in Nat
    <3>1. ASSUME NEW x \in Nat, NEW y \in Nat PROVE x + y \in Nat
      OBVIOUS
    <3>2. previous[j + 1] \in Nat /\ Last(v) \in Nat /\ previous[j] \in Nat /\ price[j] \in Nat
      BY <1>3, <1>4
    <3> QED BY <3>1, <3>2
  <2> DEFINE m == Min({previous[j + 1] + indel, Last(v) + indel, previous[j] + price[j]})
  <2>2. m \in Nat
    BY <2>1, MinOfThree
  <2> HIDE DEF m
  <2>3. v \in Seq(Nat)
    BY <1>2
  <2>4. Append(v, m) \in V /\ Len(Append(v, m)) = Len(v) + 1
    BY <1>2, <2>2, <2>3
  <2> QED BY <2>4 DEF m
<1>7. NextRow(previous, indel, price) = (CHOOSE f : Step(f))[n]
  BY <1>1, <1>5 DEF NextRow
<1> HIDE DEF Next_
<1>8. G \in [1 .. n -> [V -> V]] /\ \A j \in 1 .. n, v \in V : G[j][v] = Next_(j, v)
  BY <1>6
<1> HIDE DEF G
<1>9. PICK g : g \in [0 .. n -> V] /\ g[0] = base
               /\ \A j \in 1 .. n : g[j - 1] \in V /\ g[j] = G[j][g[j - 1]]
  <2>1. \E g : Builds(g, n, V, base, G)
    BY <1>8, Accumulates
  <2> QED BY <2>1 DEF Builds
<1>10. Step(g)
  <2>1. \A j \in 0 .. n : g[j] = IF j = 0 THEN base ELSE Next_(j, g[j - 1])
    BY <1>8, <1>9
  <2>2. g = [j \in 0 .. n |-> g[j]]
    BY <1>9
  <2> QED BY <2>1, <2>2
<1> DEFINE k == CHOOSE f : Step(f)
<1>11. Step(k)
  BY <1>10
<1> HIDE DEF k
<1>12. k[0] = base /\ \A j \in 1 .. n : k[j] = Next_(j, k[j - 1])
  BY <1>11
<1> DEFINE T == {j \in 0 .. n : k[j] \in V /\ Len(k[j]) = j + 1}
<1>13. 0 \in T
  BY <1>5, <1>12
<1>14. ASSUME NEW j \in 1 .. n, j - 1 \in T PROVE j \in T
  <2>1. k[j - 1] \in V /\ Len(k[j - 1]) = (j - 1) + 1
    BY <1>14
  <2>2. k[j] \in V /\ Len(k[j]) = ((j - 1) + 1) + 1
    BY <1>6, <1>12, <2>1
  <2> QED BY <2>2
<1> HIDE DEF T
<1>15. 0 .. n \subseteq T
  BY <1>13, <1>14, UpTo
<1>16. k[n] \in V /\ Len(k[n]) = n + 1
  BY <1>15 DEF T
<1>17. k[n] \in Row(n)
  BY <1>2, <1>16 DEF Row
<1> QED BY <1>1, <1>7, <1>17 DEF k

(* A distance is a number.                                                 *)
LEMMA DistanceIsNatural ==
    ASSUME NEW indel \in Nat, NEW n \in Nat, NEW prices \in Seq({p \in Seq(Nat) : Len(p) = n})
    PROVE  Distance(indel, n, prices) \in Nat
<1>1. PICK m \in Nat : m = Len(prices)
  OBVIOUS
<1>2. PICK V : V = Row(n)
  OBVIOUS
<1>3. \A i \in 1 .. m : prices[i] \in Seq(Nat) /\ Len(prices[i]) = n
  <2>1. ASSUME NEW P, NEW z \in Seq(P), NEW i \in 1 .. Len(z) PROVE z[i] \in P
    OBVIOUS
  <2> QED BY <1>1, <2>1
<1>4. PICK base \in V : base = [j \in 1 .. n + 1 |-> (j - 1) * indel]
  <2> DEFINE z == [j \in 1 .. n + 1 |-> (j - 1) * indel]
  <2>1. \A j \in 1 .. n + 1 : (j - 1) * indel \in Nat
    <3>1. ASSUME NEW j \in 1 .. n + 1 PROVE (j - 1) * indel \in Nat
      <4>1. j - 1 \in Nat
        OBVIOUS
      <4> QED BY <4>1
    <3> QED BY <3>1
  <2>2. z \in Seq(Nat) /\ Len(z) = n + 1
    BY <2>1
  <2> QED BY <1>2, <2>2 DEF Row
<1> DEFINE Next_(i, v) == NextRow(v, indel, prices[i])
           Step(f) == f = [i \in 0 .. m |-> IF i = 0 THEN base ELSE Next_(i, f[i - 1])]
           G == [i \in 1 .. m |-> [v \in V |-> Next_(i, v)]]
<1>5. ASSUME NEW i \in 1 .. m, NEW v \in V PROVE Next_(i, v) \in V
  BY <1>2, <1>3, RowsFollow
<1>6. Distance(indel, n, prices) = (CHOOSE f : Step(f))[m][n + 1]
  BY <1>1, <1>4 DEF Distance
<1> HIDE DEF Next_
<1>7. G \in [1 .. m -> [V -> V]] /\ \A i \in 1 .. m, v \in V : G[i][v] = Next_(i, v)
  BY <1>5
<1> HIDE DEF G
<1>8. PICK g : g \in [0 .. m -> V] /\ g[0] = base
               /\ \A i \in 1 .. m : g[i - 1] \in V /\ g[i] = G[i][g[i - 1]]
  <2>1. \E g : Builds(g, m, V, base, G)
    BY <1>7, Accumulates
  <2> QED BY <2>1 DEF Builds
<1>9. Step(g)
  <2>1. \A i \in 0 .. m : g[i] = IF i = 0 THEN base ELSE Next_(i, g[i - 1])
    BY <1>7, <1>8
  <2>2. g = [i \in 0 .. m |-> g[i]]
    BY <1>8
  <2> QED BY <2>1, <2>2
<1> DEFINE k == CHOOSE f : Step(f)
<1>10. Step(k)
  BY <1>9
<1> HIDE DEF k
<1>11. k[0] = base /\ \A i \in 1 .. m : k[i] = Next_(i, k[i - 1])
  BY <1>10
<1> DEFINE T == {i \in 0 .. m : k[i] \in V}
<1>12. 0 \in T
  BY <1>4, <1>11
<1>13. ASSUME NEW i \in 1 .. m, i - 1 \in T PROVE i \in T
  BY <1>5, <1>11, <1>13
<1> HIDE DEF T
<1>14. 0 .. m \subseteq T
  BY <1>12, <1>13, UpTo
<1>15. k[m] \in Seq(Nat) /\ Len(k[m]) = n + 1
  BY <1>2, <1>14 DEF T, Row
<1>16. k[m][n + 1] \in Nat
  BY <1>15
<1> QED BY <1>6, <1>16 DEF k

(* The weighted distance of two texts is a natural number, whatever the    *)
(* two texts.                                                              *)
LEMMA CostIsNatural ==
    ASSUME NEW a \in Seq(Alphanumeric), NEW b \in Seq(Alphanumeric)
    PROVE  RegistryCost(a, b) \in Nat
<1>1. PICK n \in Nat : n = Len(b) /\ DOMAIN b = 1 .. n
  OBVIOUS
<1>2. PICK m \in Nat : m = Len(a) /\ DOMAIN a = 1 .. m
  OBVIOUS
<1> DEFINE prices == [i \in 1 .. m |-> [j \in 1 .. n |-> SubCost(a[i], b[j])]]
           P == {p \in Seq(Nat) : Len(p) = n}
<1>3. \A x, y : SubCost(x, y) \in Nat
  BY FormatsAssumption DEF SubCost
<1>4. \A i \in 1 .. m : [j \in 1 .. n |-> SubCost(a[i], b[j])] \in P
  BY <1>3
<1> HIDE DEF P
<1>5. prices \in Seq(P)
  BY <1>4
<1>6. RegistryCost(a, b) = Distance(CostIndel, n, prices) /\ CostIndel \in Nat
  BY <1>1, <1>2, FormatsAssumption DEF RegistryCost
<1> HIDE DEF prices
<1> QED BY <1>5, <1>6, DistanceIsNatural DEF P

(* The plates that the match looks at, and what it knows after some of     *)
(* them: which is the cheapest, and how close the others come.             *)
InReach(read, p) ==
    p # <<>> /\ Len(p) - Len(read) \in -MaxLengthDelta .. MaxLengthDelta

Ranked(b, read, P) ==
    /\ b \in [plate : Seq(Alphanumeric), cost : Nat, runnerUp : Nat]
    /\ b.plate = <<>> => P = {}
    /\ b.plate # <<>> => b.cost = RegistryCost(read, b.plate)
    /\ \A p \in P : b.cost <= RegistryCost(read, p)
    /\ \A p \in P \ {b.plate} : b.runnerUp <= RegistryCost(read, p)

(* Looking at one more plate of the registry keeps the best and the        *)
(* runner-up of those seen so far.                                         *)
LEMMA RanksOneMore ==
    ASSUME NEW read \in Seq(Alphanumeric), NEW plate \in Seq(Alphanumeric),
           NEW P \in SUBSET Seq(Alphanumeric), NEW b, Ranked(b, read, P), NEW Q,
           Q = IF InReach(read, plate) THEN P \cup {plate} ELSE P
    PROVE  Ranked(Considered(b, read, plate), read, Q)
<1>1. PICK cost \in Nat : cost = RegistryCost(read, plate)
  BY CostIsNatural
<1>2. /\ b \in [plate : Seq(Alphanumeric), cost : Nat, runnerUp : Nat]
      /\ b.plate = <<>> => P = {}
      /\ b.plate # <<>> => b.cost = RegistryCost(read, b.plate)
      /\ \A p \in P : b.cost <= RegistryCost(read, p)
      /\ \A p \in P \ {b.plate} : b.runnerUp <= RegistryCost(read, p)
  BY DEF Ranked
<1>3. CASE ~InReach(read, plate)
  BY <1>3 DEF Considered, InReach
<1>4. CASE InReach(read, plate) /\ (b.plate = <<>> \/ cost < b.cost)
  <2> DEFINE new == [plate |-> plate, cost |-> cost, runnerUp |-> b.cost]
  <2>1. Considered(b, read, plate) = new /\ Q = P \cup {plate} /\ plate # <<>>
    BY <1>1, <1>4 DEF Considered, InReach
  <2>2. /\ new \in [plate : Seq(Alphanumeric), cost : Nat, runnerUp : Nat]
        /\ new.plate = plate /\ new.cost = cost /\ new.runnerUp = b.cost
    BY <1>2
  <2> HIDE DEF new
  <2>3. ASSUME NEW p \in Q PROVE new.cost <= RegistryCost(read, p)
    <3>1. CASE p = plate
      BY <1>1, <2>2, <3>1
    <3>2. CASE p \in P
      <4>1. b.cost <= RegistryCost(read, p) /\ RegistryCost(read, p) \in Nat /\ cost < b.cost
        BY <1>2, <1>4, <3>2, CostIsNatural
      <4> QED BY <1>2, <2>2, <4>1
    <3> QED BY <2>1, <3>1, <3>2
  <2>4. ASSUME NEW p \in Q \ {new.plate} PROVE new.runnerUp <= RegistryCost(read, p)
    BY <1>2, <2>1, <2>2
  <2> QED BY <1>1, <2>1, <2>2, <2>3, <2>4 DEF Ranked
<1>5. CASE InReach(read, plate) /\ b.plate # <<>> /\ cost >= b.cost
  <2> DEFINE second == IF cost < b.runnerUp THEN cost ELSE b.runnerUp
             new == [b EXCEPT !.runnerUp = second]
  <2>1. Considered(b, read, plate) = new /\ Q = P \cup {plate}
    BY <1>1, <1>2, <1>5 DEF Considered, InReach
  <2>2. second \in Nat /\ second <= cost /\ second <= b.runnerUp
    BY <1>2
  <2> HIDE DEF second
  <2>3. /\ new \in [plate : Seq(Alphanumeric), cost : Nat, runnerUp : Nat]
        /\ new.plate = b.plate /\ new.cost = b.cost /\ new.runnerUp = second
    BY <1>2, <2>2
  <2> HIDE DEF new
  <2>4. ASSUME NEW p \in Q PROVE new.cost <= RegistryCost(read, p)
    BY <1>1, <1>2, <1>5, <2>1, <2>3
  <2>5. ASSUME NEW p \in Q \ {new.plate} PROVE new.runnerUp <= RegistryCost(read, p)
    <3>1. CASE p = plate
      BY <1>1, <2>2, <2>3, <3>1
    <3>2. CASE p \in P
      <4>1. b.runnerUp <= RegistryCost(read, p) /\ RegistryCost(read, p) \in Nat
        BY <1>2, <2>3, <2>5, <3>2, CostIsNatural
      <4> QED BY <1>2, <2>2, <2>3, <4>1
    <3> QED BY <2>1, <3>1, <3>2
  <2> QED BY <1>2, <1>5, <2>1, <2>3, <2>4, <2>5 DEF Ranked
<1>6. b.cost \in Nat
  BY <1>2
<1> QED BY <1>1, <1>3, <1>4, <1>5, <1>6

(* The match comes from a ranking of every plate in reach.                 *)
LEMMA AllAreRanked ==
    ASSUME NEW read \in Seq(Alphanumeric), NEW registered \in Seq(Seq(Alphanumeric)),
           NEW q \in BestRegistryMatch(read, registered), q # read
    PROVE  \E b : /\ Ranked(b, read, {p \in Range(registered) : InReach(read, p)})
                  /\ q = b.plate
                  /\ b.runnerUp - b.cost >= MinMargin
<1>1. PICK n \in Nat : n = Len(registered) /\ DOMAIN registered = 1 .. n
  OBVIOUS
<1>2. \A i \in 1 .. n : registered[i] \in Seq(Alphanumeric)
  <2>1. ASSUME NEW P, NEW z \in Seq(P), NEW i \in 1 .. Len(z) PROVE z[i] \in P
    OBVIOUS
  <2> QED BY <1>1, <2>1
<1> DEFINE Next_(i, v) == Considered(v, read, registered[i])
           Step(f) == f = [i \in 0 .. n |-> IF i = 0 THEN NoMatch ELSE Next_(i, f[i - 1])]
           V == [plate : Seq(Alphanumeric), cost : Nat, runnerUp : Nat]
           H == [i \in 1 .. n |-> [v \in V |-> Next_(i, v)]]
<1>3. ASSUME NEW i \in 1 .. n, NEW v \in V PROVE Next_(i, v) \in V
  <2>1. PICK cost \in Nat : cost = RegistryCost(read, registered[i])
    BY <1>2, CostIsNatural
  <2>2. registered[i] \in Seq(Alphanumeric)
    BY <1>2
  <2> QED BY <2>1, <2>2 DEF Considered
<1>4. NoMatch \in V
  BY DEF NoMatch, Infinite
<1> DEFINE k == CHOOSE f : Step(f)
           b == k[n]
<1>5. /\ q = b.plate /\ ~(b.cost > MaxCost \/ b.runnerUp - b.cost < MinMargin)
  BY <1>1 DEF BestRegistryMatch
<1> HIDE DEF Next_, V
<1>6. H \in [1 .. n -> [V -> V]] /\ \A i \in 1 .. n, v \in V : H[i][v] = Next_(i, v)
  BY <1>3
<1> HIDE DEF H
<1>7. PICK g : g \in [0 .. n -> V] /\ g[0] = NoMatch
               /\ \A i \in 1 .. n : g[i - 1] \in V /\ g[i] = H[i][g[i - 1]]
  <2>1. \E g : Builds(g, n, V, NoMatch, H)
    BY <1>4, <1>6, Accumulates
  <2> QED BY <2>1 DEF Builds
<1>8. Step(g)
  <2>1. \A i \in 0 .. n : g[i] = IF i = 0 THEN NoMatch ELSE Next_(i, g[i - 1])
    BY <1>6, <1>7
  <2>2. g = [i \in 0 .. n |-> g[i]]
    BY <1>7
  <2> QED BY <2>1, <2>2
<1>9. Step(k)
  BY <1>8
<1> HIDE DEF k
<1>10. k[0] = NoMatch /\ \A i \in 1 .. n : k[i] = Next_(i, k[i - 1])
  BY <1>9
<1> DEFINE Seen_(i) == {p \in {registered[j] : j \in 1 .. i} : InReach(read, p)}
           T == {i \in 0 .. n : Ranked(k[i], read, Seen_(i))}
<1>11. Seen_(0) = {}
  OBVIOUS
<1>12. ASSUME NEW i \in 1 .. n
       PROVE  /\ Seen_(i) = IF InReach(read, registered[i]) THEN Seen_(i - 1) \cup {registered[i]}
                            ELSE Seen_(i - 1)
              /\ Seen_(i - 1) \in SUBSET Seq(Alphanumeric)
  <2>1. 1 .. i = (1 .. i - 1) \cup {i}
    OBVIOUS
  <2>2. {registered[j] : j \in 1 .. i} = {registered[j] : j \in 1 .. i - 1} \cup {registered[i]}
    BY <2>1
  <2>3. Seen_(i - 1) \in SUBSET Seq(Alphanumeric)
    BY <1>2
  <2> QED BY <2>2, <2>3
<1>13. Seen_(n) = {p \in Range(registered) : InReach(read, p)}
  BY <1>1 DEF Range
<1> HIDE DEF Seen_
<1>14. 0 \in T
  <2>1. Ranked(NoMatch, read, {})
    BY DEF Ranked, NoMatch, Infinite
  <2> QED BY <1>10, <1>11, <2>1
<1>15. ASSUME NEW i \in 1 .. n, i - 1 \in T PROVE i \in T
  <2>1. Ranked(k[i - 1], read, Seen_(i - 1)) /\ registered[i] \in Seq(Alphanumeric)
    BY <1>2, <1>15
  <2>2. Ranked(Considered(k[i - 1], read, registered[i]), read, Seen_(i))
    BY <1>12, <2>1, RanksOneMore
  <2> QED BY <1>10, <2>2 DEF Next_
<1>16. n \in T
  <2> HIDE DEF T
  <2>1. 0 .. n \subseteq T
    BY <1>14, <1>15, UpTo
  <2> QED BY <2>1
<1>17. Ranked(b, read, Seen_(n))
  BY <1>16
<1> HIDE DEF b, T
<1>18. b.cost \in Nat /\ b.runnerUp \in Nat /\ MinMargin \in Nat
  BY <1>17, FormatsAssumption DEF Ranked
<1>19. b.runnerUp - b.cost >= MinMargin
  BY <1>5, <1>18
<1> QED BY <1>5, <1>13, <1>17, <1>19

(* No plate of the registry, in whatever order it lists them, is closer to *)
(* the read than the margin allows beside the one that is answered.        *)
THEOREM OneResidentCorrect == Spec => []OneResident
<1>1. KnownCall => OneResident
  <2> SUFFICES ASSUME KnownCall, input.function = "match",
                      NEW q \in BestRegistryMatch(input.text, input.registered),
                      q # input.text,
                      NEW r \in Range(input.registered) \ {q, <<>>},
                      Len(r) - Len(input.text) \in -MaxLengthDelta .. MaxLengthDelta
               PROVE  RegistryCost(input.text, r) >= RegistryCost(input.text, q) + MinMargin
    BY DEF OneResident
  <2>1. input \in CallInputs
    BY DEF KnownCall, NoCall
  <2>2. input.text \in Seq(Alphanumeric) /\ input.registered \in Seq(Seq(Alphanumeric))
    BY <2>1, CallsAssumption
  <2>3. PICK b : /\ Ranked(b, input.text, {p \in Range(input.registered) : InReach(input.text, p)})
                 /\ q = b.plate
                 /\ b.runnerUp - b.cost >= MinMargin
    BY <2>2, AllAreRanked
  <2>4. r \in {p \in Range(input.registered) : InReach(input.text, p)} /\ r # b.plate
    BY <2>3 DEF InReach
  <2>5. /\ b.cost \in Nat /\ b.runnerUp \in Nat /\ MinMargin \in Nat
        /\ b.plate # <<>> /\ b.cost = RegistryCost(input.text, q)
        /\ b.runnerUp <= RegistryCost(input.text, r)
    BY <2>3, <2>4, FormatsAssumption DEF Ranked
  <2>6. RegistryCost(input.text, r) \in Nat
    <3>1. r \in Seq(Alphanumeric)
      BY <2>2 DEF Range
    <3> QED BY <2>2, <3>1, CostIsNatural
  <2> QED BY <2>3, <2>5, <2>6
<1> QED BY <1>1, CallsAreKnown, PTL

-----------------------------------------------------------------------------
(* A sum grows with every element.                                         *)
Sums(g, s) ==
    /\ g[0] = 0
    /\ \A i \in 0 .. Len(s) : g[i] \in Nat
    /\ \A i \in 1 .. Len(s) : g[i] = g[i - 1] + s[i]

(* A sum is what its partial sums arrive at.                               *)
LEMMA SumGrows ==
    ASSUME NEW s \in Seq(Nat)
    PROVE  \E g : Sums(g, s) /\ SumOf(s) = g[Len(s)]
<1>1. PICK n \in Nat : n = Len(s)
  OBVIOUS
<1>2. \A i \in 1 .. n : s[i] \in Nat
  BY <1>1
<1> DEFINE Next_(i, v) == v + s[i]
           Step(f) == f = [i \in 0 .. n |-> IF i = 0 THEN 0 ELSE Next_(i, f[i - 1])]
           G == [i \in 1 .. n |-> [v \in Nat |-> Next_(i, v)]]
<1>3. ASSUME NEW i \in 1 .. n, NEW v \in Nat PROVE Next_(i, v) \in Nat
  BY <1>2
<1>4. SumOf(s) = (CHOOSE f : Step(f))[n]
  BY <1>1 DEF SumOf
<1> HIDE DEF Next_
<1>5. G \in [1 .. n -> [Nat -> Nat]] /\ \A i \in 1 .. n, v \in Nat : G[i][v] = Next_(i, v)
  BY <1>3
<1> HIDE DEF G
<1>6. PICK g : g \in [0 .. n -> Nat] /\ g[0] = 0
               /\ \A i \in 1 .. n : g[i - 1] \in Nat /\ g[i] = G[i][g[i - 1]]
  <2>1. \E g : Builds(g, n, Nat, 0, G)
    <3>1. PICK zero \in Nat : zero = 0
      OBVIOUS
    <3> QED BY <1>5, <3>1, Accumulates
  <2> QED BY <2>1 DEF Builds
<1>7. Step(g)
  <2>1. ASSUME NEW i \in 0 .. n PROVE g[i] = IF i = 0 THEN 0 ELSE Next_(i, g[i - 1])
    <3>1. CASE i = 0
      BY <1>6, <3>1
    <3>2. CASE i \in 1 .. n
      <4>1. g[i] = Next_(i, g[i - 1])
        BY <1>5, <1>6, <3>2
      <4> QED BY <3>2, <4>1
    <3> QED BY <3>1, <3>2
  <2>2. g = [i \in 0 .. n |-> g[i]]
    BY <1>6
  <2> QED BY <2>1, <2>2
<1> DEFINE k == CHOOSE f : Step(f)
<1>8. Step(k)
  BY <1>7
<1> HIDE DEF k
<1>9. k[0] = 0 /\ \A i \in 1 .. n : k[i] = Next_(i, k[i - 1])
  BY <1>8
<1> DEFINE T == {i \in 0 .. n : k[i] \in Nat}
<1>10. 0 \in T
  BY <1>9
<1>11. ASSUME NEW i \in 1 .. n, i - 1 \in T PROVE i \in T
  <2>1. k[i - 1] \in Nat /\ k[i] = Next_(i, k[i - 1])
    BY <1>9, <1>11
  <2>2. k[i] \in Nat
    BY <1>3, <2>1
  <2> QED BY <2>2
<1> HIDE DEF T
<1>12. 0 .. n \subseteq T
  BY <1>10, <1>11, UpTo
<1>13. Sums(k, s)
  BY <1>1, <1>9, <1>12 DEF Sums, T, Next_
<1> QED BY <1>1, <1>4, <1>13 DEF k

(* Sums compare as their elements do.                                      *)
LEMMA SumsCompare ==
    ASSUME NEW s \in Seq(Nat), NEW t \in Seq(Nat), Len(s) = Len(t), NEW a \in Nat, NEW b \in Nat,
           \A i \in DOMAIN s : a * s[i] <= b * t[i]
    PROVE  SumOf(s) \in Nat /\ SumOf(t) \in Nat /\ a * SumOf(s) <= b * SumOf(t)
<1>1. PICK n \in Nat : n = Len(s) /\ n = Len(t) /\ DOMAIN s = 1 .. n
  OBVIOUS
<1>2. PICK g : Sums(g, s) /\ SumOf(s) = g[n]
  BY <1>1, SumGrows
<1>3. PICK h : Sums(h, t) /\ SumOf(t) = h[n]
  BY <1>1, SumGrows
<1>4. /\ g[0] = 0 /\ h[0] = 0
      /\ \A i \in 0 .. n : g[i] \in Nat /\ h[i] \in Nat
      /\ \A i \in 1 .. n : g[i] = g[i - 1] + s[i] /\ h[i] = h[i - 1] + t[i]
  BY <1>1, <1>2, <1>3 DEF Sums
<1>5. ASSUME NEW i \in 1 .. n PROVE s[i] \in Nat /\ t[i] \in Nat /\ a * s[i] <= b * t[i]
  <2>1. s[i] \in Nat
    BY <1>1
  <2>2. t[i] \in Nat
    BY <1>1
  <2>3. a * s[i] <= b * t[i]
    BY <1>1
  <2> QED BY <2>1, <2>2, <2>3
<1> DEFINE T == {i \in 0 .. n : a * g[i] <= b * h[i]}
<1>6. 0 \in T
  <2>1. a * 0 = 0 /\ b * 0 = 0
    OBVIOUS
  <2> QED BY <1>4, <2>1
<1>7. ASSUME NEW i \in 1 .. n, i - 1 \in T PROVE i \in T
  <2>1. PICK x \in Nat, y \in Nat : x = g[i - 1] /\ y = h[i - 1] /\ a * x <= b * y
    BY <1>4, <1>7
  <2>2. PICK u \in Nat, v \in Nat : u = s[i] /\ v = t[i] /\ a * u <= b * v
    BY <1>5
  <2>3. g[i] = x + u /\ h[i] = y + v
    BY <1>4, <2>1, <2>2
  <2>4. a * (x + u) = a * x + a * u /\ b * (y + v) = b * y + b * v
    OBVIOUS
  <2>5. a * (x + u) <= b * (y + v)
    <3>1. PICK ax \in Nat, au \in Nat, by \in Nat, bv \in Nat :
             ax = a * x /\ au = a * u /\ by = b * y /\ bv = b * v
      OBVIOUS
    <3>2. ax <= by /\ au <= bv
      BY <2>1, <2>2, <3>1
    <3>3. ax + au <= by + bv
      BY <3>2
    <3> QED BY <2>4, <3>1, <3>3
  <2> QED BY <2>3, <2>5
<1> HIDE DEF T
<1>8. 0 .. n \subseteq T
  BY <1>6, <1>7, UpTo
<1>9. a * g[n] <= b * h[n]
  BY <1>8 DEF T
<1> QED BY <1>2, <1>3, <1>4, <1>9

(* The root of a count: the share that each of so many looks is worth.     *)
LEMMA ShareIsNatural ==
    ASSUME NEW n \in Nat, n >= 1
    PROVE  RootShare(n) \in Nat
<1> DEFINE T == {s \in Nat : 10000 < n * (s + 1) * (s + 1)}
<1>1. 100 \in T
  <2>1. 10201 <= n * 10201
    OBVIOUS
  <2>2. n * (100 + 1) * (100 + 1) = n * 10201
    OBVIOUS
  <2> QED BY <2>1, <2>2
<1>2. PICK m \in T : \A k \in T : m <= k
  <2>1. T \in SUBSET Nat
    OBVIOUS
  <2> HIDE DEF T
  <2>2. T # {}
    BY <1>1
  <2> QED BY <2>1, <2>2, Least
<1>3. m \in 0 .. 100
  BY <1>1, <1>2
<1>4. n * m * m <= 10000
  <2>1. CASE m = 0
    BY <2>1
  <2>2. CASE m # 0
    <3>1. m - 1 \in Nat /\ m - 1 \notin T
      BY <1>2, <1>3, <2>2
    <3>2. ~(10000 < n * (m - 1 + 1) * (m - 1 + 1)) /\ m - 1 + 1 = m
      BY <1>3, <3>1
    <3>3. n * m * m \in Nat
      BY <1>3
    <3> QED BY <3>2, <3>3
  <2> QED BY <2>1, <2>2
<1>5. 10000 < n * (m + 1) * (m + 1)
  BY <1>2
<1>6. \E s \in 0 .. 100 : n * s * s <= 10000 /\ 10000 < n * (s + 1) * (s + 1)
  BY <1>3, <1>4, <1>5
<1>7. RootShare(n) \in 0 .. 100
  BY <1>6 DEF RootShare
<1> QED BY <1>7

(* The weights that count in the fusion are numbers.                       *)
LEMMA EffectiveIsNatural ==
    ASSUME NEW R \in Seq(ReadRecord)
    PROVE  Effective(R) \in Seq(Nat) /\ Len(Effective(R)) = Len(R)
<1>1. PICK n \in Nat : n = Len(R) /\ DOMAIN R = 1 .. n
  OBVIOUS
<1> DEFINE head == ClusterHead(R)
           cluster(i) == {j \in DOMAIN R : head[j] = head[i]}
           w == [i \in DOMAIN R |-> R[i].weight * RootShare(Cardinality(cluster(i)))]
<1>2. Effective(R) = w
  BY DEF Effective
<1> HIDE DEF head
<1>3. ASSUME NEW i \in 1 .. n PROVE w[i] \in Nat
  <2>1. cluster(i) \subseteq 1 .. n /\ i \in cluster(i)
    BY <1>1
  <2> HIDE DEF cluster
  <2>2. IsFiniteSet(cluster(i))
    <3>1. IsFiniteSet(1 .. n)
      BY FS_Interval
    <3> QED BY <2>1, <3>1, FS_Subset
  <2>3. Cardinality(cluster(i)) \in Nat /\ Cardinality(cluster(i)) # 0
    BY <2>1, <2>2, FS_CardinalityType, FS_EmptySet
  <2>4. RootShare(Cardinality(cluster(i))) \in Nat
    BY <2>3, ShareIsNatural
  <2>5. R[i] \in ReadRecord
    BY <1>1
  <2>6. R[i].weight \in Nat
    BY <2>5 DEF ReadRecord
  <2> QED BY <1>1, <2>4, <2>6
<1> HIDE DEF cluster
<1>4. DOMAIN w = 1 .. n
  BY <1>1
<1> HIDE DEF w
<1>5. w \in Seq(Nat) /\ Len(w) = n
  <2>1. w = [i \in 1 .. n |-> w[i]]
    BY <1>2, <1>4 DEF w
  <2> QED BY <1>3, <1>4, <2>1
<1> QED BY <1>1, <1>2, <1>5

(* What counts of a sequence when only the positions in S do.              *)
Masked(S, s) == [i \in DOMAIN s |-> IF i \in S THEN s[i] ELSE 0]

(* Masking keeps natural numbers, and how many.                            *)
LEMMA MaskedIsNatural ==
    ASSUME NEW S, NEW s \in Seq(Nat)
    PROVE  Masked(S, s) \in Seq(Nat) /\ Len(Masked(S, s)) = Len(s)
BY DEF Masked

(* Sums over the same positions compare as their elements there do.        *)
LEMMA PartialSumsCompare ==
    ASSUME NEW s \in Seq(Nat), NEW t \in Seq(Nat), Len(s) = Len(t), NEW S,
           NEW a \in Nat, NEW b \in Nat,
           \A i \in S \cap DOMAIN s : a * s[i] <= b * t[i]
    PROVE  /\ SumOver(S, s) \in Nat /\ SumOver(S, t) \in Nat
           /\ a * SumOver(S, s) <= b * SumOver(S, t)
<1>1. PICK x \in Seq(Nat), y \in Seq(Nat) : /\ x = Masked(S, s) /\ y = Masked(S, t)
                                            /\ Len(x) = Len(s) /\ Len(y) = Len(t)
  BY MaskedIsNatural
<1>2. ASSUME NEW i \in DOMAIN x PROVE a * x[i] <= b * y[i]
  <2>1. i \in DOMAIN s /\ i \in DOMAIN t
    BY <1>1
  <2>2. CASE i \in S
    <3>1. x[i] = s[i] /\ y[i] = t[i]
      BY <1>1, <2>1, <2>2 DEF Masked
    <3>2. a * s[i] <= b * t[i]
      BY <2>1, <2>2
    <3> QED BY <3>1, <3>2
  <2>3. CASE i \notin S
    <3>1. x[i] = 0 /\ y[i] = 0
      BY <1>1, <2>1, <2>3 DEF Masked
    <3>2. a * 0 <= b * 0
      OBVIOUS
    <3> QED BY <3>1, <3>2
  <2> QED BY <2>2, <2>3
<1>3. SumOf(x) \in Nat /\ SumOf(y) \in Nat /\ a * SumOf(x) <= b * SumOf(y)
  BY <1>1, <1>2, SumsCompare
<1>4. SumOver(S, s) = SumOf(x) /\ SumOver(S, t) = SumOf(y)
  BY <1>1 DEF SumOver, Masked
<1> QED BY <1>3, <1>4

(* The sum over some positions is a natural number.                        *)
LEMMA SumOverIsNatural ==
    ASSUME NEW s \in Seq(Nat), NEW S
    PROVE  SumOver(S, s) \in Nat
<1>1. PICK one \in Nat : one = 1
  OBVIOUS
<1>2. \A i \in S \cap DOMAIN s : one * s[i] <= one * s[i]
  BY <1>1
<1> QED BY <1>1, <1>2, PartialSumsCompare

(* Of candidates whose weights are bounded one is the heaviest, and the    *)
(* first to be so.                                                         *)
LEMMA HeaviestIsThere ==
    ASSUME NEW C, C # {}, NEW n \in Nat,
           \A b \in C : b.weight \in Nat /\ b.weight <= n /\ b.first \in Nat
    PROVE  Heaviest(C) \in C
<1> DEFINE T == {b.weight : b \in C}
<1>1. T \in SUBSET (0 .. n) /\ T # {}
  OBVIOUS
<1>2. \A b \in C : b.weight \in T
  OBVIOUS
<1>3. PICK m \in T : \A y \in T : m >= y
  <2> HIDE DEF T
  <2> QED BY <1>1, Greatest
<1> DEFINE A == {b \in C : b.weight = m}
           F == {b.first : b \in A}
<1>4. F \in SUBSET Nat
  OBVIOUS
<1>5. F # {}
  BY <1>3
<1>6. PICK f \in F : \A y \in F : f <= y
  <2> HIDE DEF F
  <2> QED BY <1>4, <1>5, Least
<1>7. PICK a \in C : a.weight = m /\ a.first = f
  BY <1>6
<1>8. ASSUME NEW b \in C
      PROVE  a.weight > b.weight \/ (a.weight = b.weight /\ a.first <= b.first)
  <2>1. CASE b.weight = m
    <3>1. b.first \in F
      BY <2>1
    <3> QED BY <1>6, <1>7, <2>1, <3>1
  <2>2. CASE b.weight # m
    <3>1. b.weight \in Nat /\ m \in Nat /\ m >= b.weight
      BY <1>1, <1>2, <1>3
    <3> QED BY <1>7, <2>2, <3>1
  <2> QED BY <2>1, <2>2
<1> QED BY <1>7, <1>8 DEF Heaviest

(* The least of a nonempty set of numbers is one of them.                  *)
LEMMA MinIsThere ==
    ASSUME NEW T \in SUBSET Nat, T # {}
    PROVE  Min(T) \in T
<1>1. PICK m \in T : \A k \in T : m <= k
  BY Least
<1> QED BY <1>1 DEF Min

(* The heaviest candidate is what some read votes for, with the weight of  *)
(* all that do.                                                            *)
Voters(S, value, v) == {i \in S : value[i] = v}

Wins(best, S, value, weight) ==
    /\ \E i \in S : best.value = value[i]
    /\ best.weight = SumOver(Voters(S, value, best.value), weight)

(* What is elected has the weight of its voters and no other.              *)
LEMMA Elected ==
    ASSUME NEW value, NEW weight \in Seq(Nat), NEW S \in SUBSET (DOMAIN weight), S # {},
           NEW best, best = Heaviest(Candidates(S, value, weight))
    PROVE  Wins(best, S, value, weight)
<1> DEFINE C == Candidates(S, value, weight)
           same(v) == {i \in S : value[i] = v}
           candidate(v) == [value |-> v, weight |-> SumOver(same(v), weight), first |-> Min(same(v))]
<1>1. C = {candidate(v) : v \in {value[i] : i \in S}}
  BY DEF Candidates
<1>2. PICK n \in Nat : n = SumOf(weight)
  BY SumsCompare, 1 \in Nat, \A i \in DOMAIN weight : 1 * weight[i] <= 1 * weight[i]
<1>3. ASSUME NEW T
      PROVE  SumOver(T, weight) \in Nat /\ SumOver(T, weight) <= n
  <2>1. PICK x \in Seq(Nat) : x = Masked(T, weight) /\ Len(x) = Len(weight)
    BY MaskedIsNatural
  <2>2. ASSUME NEW i \in DOMAIN x PROVE 1 * x[i] <= 1 * weight[i]
    <3>1. i \in DOMAIN weight /\ weight[i] \in Nat
      BY <2>1
    <3>2. x[i] = weight[i] \/ x[i] = 0
      BY <2>1, <3>1 DEF Masked
    <3> QED BY <3>1, <3>2
  <2>3. PICK one \in Nat : one = 1
    OBVIOUS
  <2>4. SumOf(x) \in Nat /\ SumOf(weight) \in Nat /\ one * SumOf(x) <= one * SumOf(weight)
    BY <2>1, <2>2, <2>3, SumsCompare
  <2>5. SumOver(T, weight) = SumOf(x)
    BY <2>1 DEF SumOver, Masked
  <2> QED BY <1>2, <2>3, <2>4, <2>5
<1>4. C # {}
  <2>1. PICK i \in S : TRUE
    OBVIOUS
  <2>2. candidate(value[i]) \in C
    BY <1>1
  <2> QED BY <2>2
<1>5. ASSUME NEW b \in C
      PROVE  b.weight \in Nat /\ b.weight <= n /\ b.first \in Nat
  <2>1. PICK i \in S : b = candidate(value[i])
    BY <1>1
  <2>2. i \in same(value[i]) /\ same(value[i]) \in SUBSET Nat
    OBVIOUS
  <2>3. Min(same(value[i])) \in Nat
    <3> HIDE DEF same
    <3> QED BY <2>2, MinIsThere
  <2> QED BY <1>3, <2>1, <2>3
<1> HIDE DEF C
<1>6. best \in C
  BY <1>4, <1>5, HeaviestIsThere DEF C
<1>7. PICK i \in S : best = candidate(value[i])
  BY <1>1, <1>6
<1> QED BY <1>7 DEF Wins, Voters

(* The grammar has nothing to say of a place where nothing competed.       *)
LEMMA GrammarKeeps ==
    ASSUME NEW I, NEW P, P = [q \in I |-> P[q]], NEW p \in I,
           NEW c, NEW x, NEW r, NEW a,
           P[p] = [char |-> c, posterior |-> x, runner |-> r, against |-> a],
           NEW F, F = WithGrammar(P), F[p].runner = {}
    PROVE  F[p] = P[p]
<1>1. CASE F = P
  BY <1>1
<1>2. ASSUME NEW kind, F[p] = Corroborated(P[p], kind)
      PROVE  F[p] = P[p]
  <2>1. CASE P[p].runner = {}
    BY <1>2, <2>1 DEF Corroborated
  <2>2. CASE P[p].runner # {}
    <3>1. Corroborated(P[p], kind).runner = P[p].runner
      BY DEF Corroborated
    <3> QED BY <1>2, <2>2, <3>1
  <2> QED BY <2>1, <2>2
<1>3. F = P \/ \E mask : F = [q \in DOMAIN P |-> Corroborated(P[q], mask[q])]
  BY DEF WithGrammar
<1>4. ASSUME NEW mask, F = [q \in DOMAIN P |-> Corroborated(P[q], mask[q])]
      PROVE  F[p] = P[p]
  <2>1. p \in DOMAIN P
    OBVIOUS
  <2>2. F[p] = Corroborated(P[p], mask[p])
    BY <1>4, <2>1
  <2> QED BY <1>2, <2>2
<1> QED BY <1>1, <1>3, <1>4

(* The grammar judges every place there is and adds none.                  *)
LEMMA GrammarKeepsLength ==
    ASSUME NEW I, NEW P, P = [q \in I |-> P[q]]
    PROVE  DOMAIN WithGrammar(P) = I
<1>1. DOMAIN P = I
  OBVIOUS
<1> QED BY <1>1 DEF WithGrammar

(* At a place where nothing competed all the mass is for one character, as *)
(* much of it as the reads were sure of what they saw there.               *)
WholeMass(f, R, w, pool, p) ==
    f.posterior = (100 * SumOver(pool, [i \in DOMAIN R |-> w[i] * CharConfidence(R[i], p)]))
                  \div MassAt(R, w, pool, p)

(* Where nothing competed, the posterior is the mass of the character as a *)
(* share of the whole mass, the withheld part included.                    *)
LEMMA NothingCompeted ==
    ASSUME NEW R, NEW w \in Seq(Nat), DOMAIN R = DOMAIN w,
           NEW pool \in SUBSET (DOMAIN w), pool # {}, NEW p,
           Fused(R, w, pool, p).runner = {}
    PROVE  WholeMass(Fused(R, w, pool, p), R, w, pool, p)
<1> DEFINE value == [i \in pool |-> R[i].text[p]]
           weight == [i \in DOMAIN R |-> w[i] * CharConfidence(R[i], p)]
           C == Candidates(pool, value, weight)
           candidate(v) == LET same == {i \in pool : value[i] = v}
                           IN [value |-> v, weight |-> SumOver(same, weight), first |-> Min(same)]
           best == Heaviest(C)
<1>1. C \ {best} = {}
  BY DEF Fused
<1>2. Fused(R, w, pool, p).posterior = (100 * best.weight) \div MassAt(R, w, pool, p)
  BY DEF Fused
<1>3. C = {candidate(v) : v \in {value[i] : i \in pool}}
  BY DEF Candidates
<1>4. PICK k \in pool : TRUE
  OBVIOUS
<1> HIDE DEF best, weight, C
<1>5. best = candidate(value[k])
  BY <1>1, <1>3, <1>4
<1>6. ASSUME NEW i \in pool PROVE value[i] = value[k]
  <2>1. candidate(value[i]) \in C
    BY <1>3
  <2>2. candidate(value[i]) = candidate(value[k])
    <3> HIDE DEF candidate, value
    <3> QED BY <1>1, <1>5, <2>1
  <2>3. candidate(value[i]).value = value[i] /\ candidate(value[k]).value = value[k]
    OBVIOUS
  <2> QED BY <2>2, <2>3
<1>7. {i \in pool : value[i] = value[k]} = pool
  BY <1>6
<1>8. best.weight = SumOver(pool, weight)
  BY <1>5, <1>7
<1> QED BY <1>2, <1>8 DEF weight, WholeMass

(* Doubts of every read, added up, are no certainty: when none of the      *)
(* reads that voted was sure of the place, its posterior is as low.        *)
LEMMA DoubtStays ==
    ASSUME NEW s \in Seq(Nat), NEW t \in Seq(Nat), Len(s) = Len(t), NEW pool,
           SumOver(pool, t) # 0, NEW limit \in Nat, NEW hundred \in Nat,
           \A i \in pool \cap DOMAIN s : hundred * s[i] <= limit * t[i]
    PROVE  (hundred * SumOver(pool, s)) \div SumOver(pool, t) <= limit
<1>2. /\ SumOver(pool, s) \in Nat /\ SumOver(pool, t) \in Nat
      /\ hundred * SumOver(pool, s) <= limit * SumOver(pool, t)
  BY PartialSumsCompare
<1>3. ASSUME NEW x \in Nat, NEW y \in Nat, y > 0, x <= limit * y
      PROVE  x \div y <= limit
  <2>1. PICK q \in Nat : q = x \div y
    BY <1>3
  <2>2. q * y <= x
    BY <1>3, <2>1
  <2> SUFFICES ASSUME q >= limit + 1 PROVE FALSE
    BY <2>1
  <2>3. (limit + 1) * y <= q * y
    BY <1>3, <2>1, MulMonotone
  <2>4. (limit + 1) * y = limit * y + y
    BY <1>3
  <2>5. PICK a \in Nat, b \in Nat : a = limit * y /\ b = q * y
    BY <1>3, <2>1
  <2> QED BY <1>3, <2>2, <2>3, <2>4, <2>5
<1>4. PICK x \in Nat, y \in Nat : x = hundred * SumOver(pool, s) /\ y = SumOver(pool, t)
  BY <1>2
<1> QED BY <1>2, <1>3, <1>4

(* What a read consists of.                                                *)
LEMMA ReadIsTyped ==
    ASSUME NEW r \in ReadRecord, NEW p
    PROVE  /\ r.text \in Seq(Alphanumeric) /\ Len(r.text) \in Nat
           /\ r.weight \in Nat /\ CharConfidence(r, p) \in Nat
<1>1. r.text \in Seq(Alphanumeric)
  BY DEF ReadRecord, Text
<1>2. r.rec \in Nat /\ r.weight \in Nat
  BY DEF ReadRecord
<1>3. CharConfidence(r, p) \in Nat
  BY <1>2 DEF CharConfidence
<1> QED BY <1>1, <1>2, <1>3

(* The length that carries the most weight is the length of some read, and *)
(* its weight is that of the reads of this length.                         *)
Lengths(R) == [i \in DOMAIN R |-> Len(R[i].text)]

Modal(best, R, w) ==
    /\ \E i \in DOMAIN R : best.value = Len(R[i].text)
    /\ best.weight = SumOver({i \in DOMAIN R : Len(R[i].text) = best.value}, w)

(* The length elected is a modal length.                                   *)
LEMMA ModalLength ==
    ASSUME NEW R, DOMAIN R # {}, NEW w \in Seq(Nat), DOMAIN w = DOMAIN R, NEW best,
           best = Heaviest(Candidates(DOMAIN R, Lengths(R), w))
    PROVE  Modal(best, R, w)
<1>1. PICK value : value = Lengths(R)
  OBVIOUS
<1>2. PICK S \in SUBSET (DOMAIN w) : S = DOMAIN R /\ S # {}
  OBVIOUS
<1>3. best = Heaviest(Candidates(S, value, w))
  BY <1>1, <1>2
<1>4. Wins(best, S, value, w)
  BY <1>2, <1>3, Elected
<1>5. Voters(S, value, best.value) = {i \in DOMAIN R : Len(R[i].text) = best.value}
  BY <1>1, <1>2 DEF Voters, Lengths
<1> QED BY <1>1, <1>2, <1>4, <1>5 DEF Wins, Modal, Lengths

(* What fuse() returns, when it returns something: the reads of one length *)
(* (the pool) with their weights, fused place by place, and at a place     *)
(* where nothing competed also left so by the grammar.                     *)
FusedFrom(F, R, w, m, pool) ==
    /\ m \in Nat /\ pool = {i \in DOMAIN R : Len(R[i].text) = m} /\ pool # {}
    /\ SumOver(pool, w) # 0
    /\ DOMAIN F = 1 .. m /\ Len(F) = m
    /\ \A p \in 1 .. m : F[p].runner = {} => F[p] = Fused(R, w, pool, p)

(* Whatever fuse() returns comes from such a pool.                         *)
LEMMA FusionHasPool ==
    ASSUME NEW R \in Seq(ReadRecord), NEW w, w = Effective(R), NEW F, F = Fuse(R, w),
           DOMAIN F # {}
    PROVE  \E m, pool : FusedFrom(F, R, w, m, pool)
<1>1. PICK n \in Nat : n = Len(R) /\ DOMAIN R = 1 .. n
  OBVIOUS
<1>2. w \in Seq(Nat) /\ Len(w) = n /\ DOMAIN w = 1 .. n
  BY <1>1, EffectiveIsNatural
<1>3. ASSUME NEW i \in 1 .. n PROVE Len(R[i].text) \in Nat
  <2>1. R[i] \in ReadRecord
    BY <1>1
  <2> QED BY <2>1, ReadIsTyped
<1> DEFINE lengths == [i \in DOMAIN R |-> Len(R[i].text)]
           modal == Heaviest(Candidates(DOMAIN R, lengths, w))
           pool == {i \in DOMAIN R : Len(R[i].text) = modal.value}
           P == [q \in 1 .. modal.value |-> Fused(R, w, pool, q)]
<1>4. /\ R # <<>> /\ Cardinality(pool) >= 2 /\ modal.weight # 0
      /\ F = WithGrammar(P)
  <2>1. R # <<>> /\ ~(Cardinality(pool) < 2) /\ modal.weight # 0 /\ F = WithGrammar(P)
    <3>1. F # <<>>
      <4>1. DOMAIN <<>> = {}
        OBVIOUS
      <4> QED BY <4>1
    <3>2. F = IF R = <<>> THEN <<>>
              ELSE IF Cardinality(pool) < 2 \/ modal.weight = 0 THEN <<>> ELSE WithGrammar(P)
      BY DEF Fuse
    <3> HIDE DEF pool, modal, P
    <3> QED BY <3>1, <3>2
  <2>2. Cardinality(pool) \in Nat
    <3>1. IsFiniteSet(1 .. n) /\ pool \subseteq 1 .. n
      BY <1>1, FS_Interval
    <3> HIDE DEF pool
    <3> QED BY <3>1, FS_Subset, FS_CardinalityType
  <2> HIDE DEF pool, modal, P
  <2> QED BY <2>1, <2>2
<1>5. /\ \E i \in 1 .. n : modal.value = Len(R[i].text)
      /\ modal.weight = SumOver(pool, w)
  <2>1. DOMAIN R # {} /\ DOMAIN w = DOMAIN R /\ w \in Seq(Nat)
    BY <1>1, <1>2, <1>4, SMTT(30)
  <2>2. PICK best : best = modal
    OBVIOUS
  <2>3. best = Heaviest(Candidates(DOMAIN R, Lengths(R), w))
    BY <2>2 DEF Lengths
  <2>4. Modal(best, R, w)
    BY <2>1, <2>3, ModalLength
  <2> HIDE DEF modal
  <2> QED BY <1>1, <2>2, <2>4 DEF Modal
<1>6. modal.value \in Nat
  BY <1>3, <1>5
<1>7. pool # {} /\ pool \subseteq 1 .. n
  <2>1. pool # {}
    BY <1>1, <1>5
  <2> QED BY <1>1, <2>1
<1>8. DOMAIN F = 1 .. modal.value /\ Len(F) = modal.value
  <2>1. DOMAIN F = 1 .. modal.value
    <3>1. P = [q \in 1 .. modal.value |-> P[q]]
      OBVIOUS
    <3> HIDE DEF P, modal
    <3> QED BY <1>4, <3>1, GrammarKeepsLength
  <2> QED BY <1>6, <2>1
<1>9. ASSUME NEW p \in 1 .. modal.value, F[p].runner = {}
      PROVE  F[p] = Fused(R, w, pool, p)
  <2>1. P = [q \in 1 .. modal.value |-> P[q]] /\ P[p] = Fused(R, w, pool, p)
    OBVIOUS
  <2> HIDE DEF P, pool, modal
  <2>2. PICK c, x, r, a : P[p] = [char |-> c, posterior |-> x, runner |-> r, against |-> a]
    <3>1. \E c, x, r, a : Fused(R, w, pool, p)
                          = [char |-> c, posterior |-> x, runner |-> r, against |-> a]
      BY ZenonT(60) DEF Fused
    <3> QED BY <2>1, <3>1
  <2>3. PICK I : I = 1 .. modal.value
    OBVIOUS
  <2>4. P = [q \in I |-> P[q]] /\ p \in I
    BY <2>1, <2>3
  <2>5. F = WithGrammar(P) /\ F[p].runner = {}
    BY <1>4, <1>9
  <2>6. F[p] = P[p]
    BY <2>2, <2>4, <2>5, GrammarKeeps
  <2> QED BY <2>1, <2>6
<1>10. SumOver(pool, w) # 0
  BY <1>4, <1>5
<1>11. pool = {i \in DOMAIN R : Len(R[i].text) = modal.value}
  OBVIOUS
<1> HIDE DEF pool, modal, P
<1>12. FusedFrom(F, R, w, modal.value, pool)
  BY <1>6, <1>7, <1>8, <1>9, <1>10, <1>11 DEF FusedFrom
<1> QED BY <1>12

(* What an unsure read gives a place, of the mass it brings.               *)
LEMMA Unsure ==
    ASSUME NEW u \in Nat, NEW c \in Nat, c <= 54
    PROVE  100 * (u * c) <= 54 * (u * 100)
<1>1. PICK x \in Nat, y \in Nat : x = c * u /\ y = 54 * u /\ x <= y
  BY MulMonotone
<1>2. 100 * (u * c) = 100 * x /\ 54 * (u * 100) = 100 * y
  BY <1>1
<1> QED BY <1>1, <1>2

(* A place of the fusion where nothing competed, and that is not unstable, *)
(* was read with certainty by some read of that length.                    *)
LEMMA SureOfPlace ==
    ASSUME NEW R \in Seq(ReadRecord), NEW F, F = Fuse(R, Effective(R)),
           NEW p \in DOMAIN F, F[p].runner = {}, ~(F[p].posterior < MinPosterior)
    PROVE  \E i \in DOMAIN R :
              Len(R[i].text) = Len(F) /\ CharConfidence(R[i], p) >= MinPosterior
<1>1. PICK n \in Nat : n = Len(R) /\ DOMAIN R = 1 .. n
  OBVIOUS
<1>2. PICK w \in Seq(Nat) : w = Effective(R) /\ Len(w) = n /\ DOMAIN w = 1 .. n
  BY <1>1, EffectiveIsNatural
<1>3. ASSUME NEW i \in 1 .. n
      PROVE  CharConfidence(R[i], p) \in Nat /\ w[i] \in Nat
  <2>1. R[i] \in ReadRecord
    BY <1>1
  <2>2. w[i] \in Nat
    BY <1>2
  <2> QED BY <2>1, <2>2, ReadIsTyped
<1>4. PICK m, pool : FusedFrom(F, R, w, m, pool)
  BY <1>2, FusionHasPool
<1> DEFINE f == Fused(R, w, pool, p)
           s == [i \in DOMAIN R |-> w[i] * CharConfidence(R[i], p)]
           t == [i \in DOMAIN R |-> w[i] * 100]
<1>5. /\ pool \subseteq 1 .. n /\ pool # {} /\ SumOver(pool, w) # 0
      /\ \A i \in pool : i \in DOMAIN R /\ Len(R[i].text) = Len(F)
      /\ F[p] = f
  BY <1>1, <1>4 DEF FusedFrom
<1>11. f.posterior = (100 * SumOver(pool, s)) \div SumOver(pool, t)
  <2>1. DOMAIN R = DOMAIN w /\ pool \in SUBSET (DOMAIN w)
    BY <1>1, <1>2, <1>5
  <2>2. Fused(R, w, pool, p).runner = {}
    BY <1>5
  <2> HIDE DEF f
  <2>3. w \in Seq(Nat) /\ pool # {}
    BY <1>2, <1>5
  <2>4. WholeMass(Fused(R, w, pool, p), R, w, pool, p)
    BY <2>1, <2>2, <2>3, NothingCompeted
  <2> QED BY <2>4 DEF MassAt, WholeMass, f
<1>12. /\ s \in Seq(Nat) /\ Len(s) = n /\ DOMAIN s = 1 .. n
       /\ t \in Seq(Nat) /\ Len(t) = n /\ DOMAIN t = 1 .. n
  <2>1. ASSUME NEW i \in 1 .. n
        PROVE  w[i] * CharConfidence(R[i], p) \in Nat /\ w[i] * 100 \in Nat
    <3>1. PICK a \in Nat, b \in Nat : a = w[i] /\ b = CharConfidence(R[i], p)
      BY <1>3
    <3>2. a * b \in Nat /\ a * 100 \in Nat
      OBVIOUS
    <3> QED BY <3>1, <3>2
  <2> QED BY <1>1, <2>1
<1>13. SumOver(pool, t) \in Nat /\ SumOver(pool, t) # 0
  <2>1. ASSUME NEW i \in pool \cap DOMAIN w PROVE 1 * w[i] <= 1 * t[i]
    <3>1. w[i] \in Nat /\ t[i] = w[i] * 100
      BY <1>1, <1>2, <1>3, <2>1
    <3> QED BY <3>1
  <2>2. PICK one \in Nat : one = 1
    OBVIOUS
  <2> HIDE DEF t
  <2>3. /\ SumOver(pool, w) \in Nat /\ SumOver(pool, t) \in Nat
        /\ one * SumOver(pool, w) <= one * SumOver(pool, t)
    BY <1>2, <1>12, <2>1, <2>2, PartialSumsCompare
  <2> QED BY <1>5, <2>2, <2>3
<1> SUFFICES ASSUME \A i \in pool : ~(CharConfidence(R[i], p) >= MinPosterior) PROVE FALSE
  BY <1>5
<1>14. f.posterior <= 54
  <2>1. PICK limit \in Nat, hundred \in Nat : limit = 54 /\ hundred = 100
    OBVIOUS
  <2>2. ASSUME NEW i \in pool \cap DOMAIN s PROVE hundred * s[i] <= limit * t[i]
    <3>1. PICK u \in Nat, c \in Nat : /\ u = w[i] /\ c = CharConfidence(R[i], p) /\ c <= 54
                                     /\ s[i] = u * c /\ t[i] = u * 100
      <4>1. i \in pool /\ i \in 1 .. n
        BY <1>5, <2>2
      <4>2. CharConfidence(R[i], p) <= 54
        <5> HIDE DEF s, t, f
        <5> QED BY <1>3, <4>1 DEF MinPosterior
      <4> QED BY <1>1, <1>3, <4>1, <4>2
    <3>2. 100 * (u * c) <= 54 * (u * 100)
      BY <3>1, Unsure, ZenonT(60)
    <3> QED BY <2>1, <3>1, <3>2
  <2> HIDE DEF s, t, f
  <2>3. (hundred * SumOver(pool, s)) \div SumOver(pool, t) <= limit
    BY <1>12, <1>13, <2>1, <2>2, DoubtStays, ZenonT(60)
  <2> QED BY <1>11, <2>1, <2>3
<1>15. f.posterior \in Nat
  <2> HIDE DEF s, t, f
  <2>1. SumOver(pool, s) \in Nat
    BY <1>12, SumOverIsNatural
  <2>2. PICK a \in Nat, d \in Nat \ {0} : a = 100 * SumOver(pool, s) /\ d = SumOver(pool, t)
    BY <1>13, <2>1
  <2>3. a \div d \in Nat
    BY Quotient
  <2> QED BY <1>11, <2>2, <2>3
<1> QED BY <1>5, <1>14, <1>15 DEF MinPosterior

(* A verdict is the verdict on the reads the track still has, and it is    *)
(* final: it confirms no plate that has an unstable place.                 *)
Confirmed(v) == \E x \in v.plates : x.state = "confirmed"

Judged ==
    /\ ~verdict.final => verdict = NoVerdict
    /\ verdict.fused # <<>> /\ Confirmed(verdict)
       => /\ verdict.fused = Fuse(Ballot(reads), Effective(Ballot(reads)))
          /\ Unstable(verdict.fused) = {}

(* What is on the ballot are reads.                                        *)
LEMMA BallotOfReads ==
    ASSUME NEW all \in Seq(ReadRecord)
    PROVE  /\ Ballot(all) \in Seq(ReadRecord)
           /\ \A i \in DOMAIN Ballot(all) : \E j \in DOMAIN all : Ballot(all)[i] = all[j]
<1> DEFINE S == {i \in DOMAIN all : all[i].weight >= MinReadWeight /\ ~IsFragment(all[i].text)}
<1>1. Ballot(all) = Kept(all, S)
  BY DEF Ballot
<1> HIDE DEF S
<1> QED BY <1>1, KeptReadsAreReads

(* Only a stable fusion is confirmed.                                      *)
LEMMA ConfirmedIsStable ==
    ASSUME NEW all, NEW R \in Seq(ReadRecord), NEW w, w = Effective(R), NEW F, F = Fuse(R, w),
           NEW c, NEW x \in Validate(all, R, F, c), x.state = "confirmed"
    PROVE  Unstable(F) = {}
<1>1. Classify(AnprConfidence(R, F, c.text, c.support), c.text, Cardinality(Unstable(F))) = "confirmed"
  BY DEF Validate, Unresolved
<1>2. Cardinality(Unstable(F)) = 0
  BY <1>1 DEF Classify
<1>3. Unstable(F) \subseteq DOMAIN F
  BY DEF Unstable
<1>4. IsFiniteSet(Unstable(F))
  <2>1. CASE DOMAIN F = {}
    <3>1. IsFiniteSet({})
      BY FS_EmptySet
    <3> QED BY <1>3, <2>1, <3>1, FS_Subset
  <2>2. CASE DOMAIN F # {}
    <3>1. PICK m, pool : FusedFrom(F, R, w, m, pool)
      BY <2>2, FusionHasPool
    <3>2. m \in Nat /\ DOMAIN F = 1 .. m
      BY <3>1 DEF FusedFrom
    <3>3. IsFiniteSet(1 .. m)
      BY <3>2, FS_Interval
    <3> QED BY <1>3, <3>2, <3>3, FS_Subset
  <2> QED BY <2>1, <2>2
<1> QED BY <1>2, <1>4, FS_EmptySet

(* Every verdict that a track ends with is judged on its own ballot.       *)
LEMMA VerdictIsJudged == Spec => []Judged
<1>1. Init => Judged
  BY DEF Init, EvidenceInit, NoVerdict, Judged
<1>2. ASSUME ReadsTyped, Judged, [Next]_vars PROVE Judged'
  <2>1. CASE Finish
    <3>1. PICK R, w, F, c : /\ R = Ballot(reads) /\ w = Effective(R) /\ F = Fuse(R, w)
                            /\ verdict' = [fused |-> F, plates |-> Validate(reads, R, F, c),
                                           final |-> TRUE]
                            /\ reads' = reads
      BY <2>1 DEF Finish, Finalize
    <3>2. R \in Seq(ReadRecord)
      BY <1>2, <3>1, BallotOfReads DEF ReadsTyped
    <3>3. verdict'.fused = F /\ verdict'.plates = Validate(reads, R, F, c) /\ verdict'.final
      BY <3>1
    <3>4. Confirmed(verdict') => Unstable(F) = {}
      BY <3>1, <3>2, <3>3, ConfirmedIsStable DEF Confirmed
    <3> QED BY <3>1, <3>3, <3>4 DEF Judged
  <2>2. CASE Read
    BY <1>2, <2>2 DEF Read, AddRead, Judged, NoVerdict
  <2>3. CASE Observe \/ Glimpse \/ PlateMissed
    <3>1. UNCHANGED <<reads, verdict>>
      BY <2>3 DEF Observe, Glimpse, PlateMissed, See, NoteObservation, NoteVehicle
    <3> QED BY <1>2, <3>1 DEF Judged
  <2>4. CASE Call
    BY <1>2, <2>4 DEF Call, evidenceVars, Judged
  <2>5. CASE UNCHANGED vars
    BY <1>2, <2>5 DEF vars, evidenceVars, Judged
  <2> QED BY <1>2, <2>1, <2>2, <2>3, <2>4, <2>5 DEF Next
<1> QED BY <1>1, <1>2, ReadsAreKept, PTL DEF Spec

(* Guesses that agree are never an event of class A.                       *)
THEOREM DoubtIsNotConfirmedCorrect == Spec => []DoubtIsNotConfirmed
<1>1. ReadsTyped /\ Judged => DoubtIsNotConfirmed
  <2> SUFFICES ASSUME ReadsTyped, Judged, verdict.fused # <<>>,
                      NEW d \in Drafts, d.class = "A",
                      NEW p \in DOMAIN verdict.fused, verdict.fused[p].runner = {}
               PROVE  \E i \in DOMAIN reads :
                        /\ Len(reads[i].text) = Len(verdict.fused)
                        /\ CharConfidence(reads[i], p) >= MinPosterior
    BY DEF DoubtIsNotConfirmed
  <2>1. Confirmed(verdict)
    <3>1. verdict.plates # {}
      BY DEF Drafts
    <3>2. PICK v \in verdict.plates :
            d.class = IF v.state = "confirmed" THEN "A" ELSE "B"
      BY <3>1 DEF Drafts
    <3>3. v.state = "confirmed"
      BY <3>2
    <3> QED BY <3>3 DEF Confirmed
  <2> DEFINE R == Ballot(reads)
             F == verdict.fused
  <2>2. F = Fuse(R, Effective(R)) /\ Unstable(F) = {}
    BY <2>1 DEF Judged
  <2>3. /\ R \in Seq(ReadRecord)
        /\ \A i \in DOMAIN R : \E j \in DOMAIN reads : R[i] = reads[j]
    BY BallotOfReads DEF ReadsTyped
  <2>4. ~(F[p].posterior < MinPosterior)
    BY <2>2 DEF Unstable
  <2> HIDE DEF R, F
  <2>5. \E i \in DOMAIN R : Len(R[i].text) = Len(F) /\ CharConfidence(R[i], p) >= MinPosterior
    <3>1. p \in DOMAIN F /\ F[p].runner = {}
      BY DEF F
    <3> QED BY <2>2, <2>3, <2>4, <3>1, SureOfPlace
  <2> QED BY <2>3, <2>5 DEF F
<1> QED BY <1>1, ReadsAreKept, VerdictIsJudged, PTL

-----------------------------------------------------------------------------
(* An observation of a plate, in the bank.                                 *)
Observation == [quality : 0 .. 100, look : Nat, frame : Nat, chain : Nat, car : Nat]

(* Of some observations one is the best.                                   *)
LEMMA BestIsThere ==
    ASSUME NEW B, NEW S \in SUBSET Nat, S # {}, \A j \in S : B[j] \in Observation
    PROVE  /\ BestOf(B, S) \in S
           /\ \A j \in S : B[BestOf(B, S)].quality >= B[j].quality
<1> DEFINE T == {B[j].quality : j \in S}
<1>1. ASSUME NEW j \in S PROVE B[j].quality \in 0 .. 100
  BY DEF Observation
<1>2. PICK n \in Nat : n = 100
  OBVIOUS
<1>3. T \in SUBSET (0 .. n) /\ T # {} /\ \A j \in S : B[j].quality \in T
  BY <1>1, <1>2
<1>4. PICK m \in T : \A y \in T : m >= y
  <2> HIDE DEF T
  <2> QED BY <1>3, Greatest
<1> DEFINE U == {j \in S : B[j].quality = m}
<1>5. U \in SUBSET Nat /\ U # {}
  BY <1>4
<1>6. PICK f \in U : \A y \in U : f <= y
  <2> HIDE DEF U
  <2> QED BY <1>5, Least
<1>7. f \in S /\ B[f].quality = m
  BY <1>6
<1>8. ASSUME NEW j \in S
      PROVE  B[f].quality > B[j].quality \/ (B[f].quality = B[j].quality /\ f <= j)
  <2>1. CASE B[j].quality = m
    <3>1. f <= j
      BY <1>6, <2>1
    <3> QED BY <1>7, <2>1, <3>1
  <2>2. CASE B[j].quality # m
    <3>1. B[j].quality \in Nat /\ m \in Nat /\ m >= B[j].quality
      BY <1>1, <1>3, <1>4
    <3> QED BY <1>7, <2>2, <3>1
  <2> QED BY <2>1, <2>2
<1> DEFINE best == BestOf(B, S)
<1>9. best \in S /\ \A j \in S : \/ B[best].quality > B[j].quality
                                 \/ B[best].quality = B[j].quality /\ best <= j
  BY <1>7, <1>8 DEF BestOf
<1> HIDE DEF best
<1>10. ASSUME NEW j \in S PROVE B[best].quality >= B[j].quality
  <2>1. \A x, y \in 0 .. 100 : x > y \/ x = y => x >= y
    OBVIOUS
  <2>2. B[best].quality \in 0 .. 100
    BY <1>1, <1>9
  <2>3. B[j].quality \in 0 .. 100
    BY <1>1
  <2>4. B[best].quality > B[j].quality \/ B[best].quality = B[j].quality
    BY <1>9
  <2> HIDE DEF T, U
  <2> QED BY <2>1, <2>2, <2>3, <2>4, Zenon
<1> QED BY <1>9, <1>10 DEF best

(* Taking the best of what is left, again and again.                       *)
Drains(r, B, n) ==
    /\ r[0] = 1 .. n
    /\ \A k \in 1 .. n : r[k] = r[k - 1] \ {BestOf(B, r[k - 1])}
    /\ \A k \in 0 .. n : r[k] \subseteq 1 .. n

(* Ranking the bank is draining it.                                        *)
LEMMA BestFirstDrains ==
    ASSUME NEW B \in Seq(Observation), NEW n \in Nat, n = Len(B)
    PROVE  \E r : /\ Drains(r, B, n)
                  /\ BestFirst(B) = [k \in 1 .. n |-> B[BestOf(B, r[k - 1])]]
<1>1. DOMAIN B = 1 .. n
  OBVIOUS
<1>2. PICK V : V = SUBSET (1 .. n)
  OBVIOUS
<1> DEFINE Next_(v) == v \ {BestOf(B, v)}
           Step_(f) == f = [k \in 0 .. n |-> IF k = 0 THEN DOMAIN B ELSE Next_(f[k - 1])]
           G == [i \in 1 .. n |-> [v \in V |-> Next_(v)]]
<1>3. ASSUME NEW v \in V PROVE Next_(v) \in V
  BY <1>2
<1>4. BestFirst(B) = [k \in 1 .. n |-> B[BestOf(B, (CHOOSE f : Step_(f))[k - 1])]]
  BY <1>1 DEF BestFirst
<1> HIDE DEF Next_
<1>5. G \in [1 .. n -> [V -> V]] /\ \A i \in 1 .. n, v \in V : G[i][v] = Next_(v)
  BY <1>3
<1> HIDE DEF G
<1>6. PICK base \in V : base = 1 .. n
  BY <1>2
<1>7. PICK g : g \in [0 .. n -> V] /\ g[0] = base
               /\ \A i \in 1 .. n : g[i - 1] \in V /\ g[i] = G[i][g[i - 1]]
  <2>1. \E g : Builds(g, n, V, base, G)
    BY <1>5, Accumulates
  <2> QED BY <2>1 DEF Builds
<1>8. Step_(g)
  <2>1. ASSUME NEW k \in 0 .. n PROVE g[k] = IF k = 0 THEN DOMAIN B ELSE Next_(g[k - 1])
    <3>1. CASE k = 0
      BY <1>1, <1>6, <1>7, <3>1
    <3>2. CASE k \in 1 .. n
      <4>1. g[k] = Next_(g[k - 1])
        BY <1>5, <1>7, <3>2
      <4> QED BY <3>2, <4>1
    <3> QED BY <3>1, <3>2
  <2>2. g = [k \in 0 .. n |-> g[k]]
    BY <1>7
  <2> QED BY <2>1, <2>2
<1> DEFINE r == CHOOSE f : Step_(f)
<1>9. Step_(r)
  BY <1>8
<1> HIDE DEF r
<1>10. r[0] = 1 .. n /\ \A k \in 1 .. n : r[k] = Next_(r[k - 1])
  BY <1>1, <1>9
<1> DEFINE T == {k \in 0 .. n : r[k] \subseteq 1 .. n}
<1>11. 0 \in T
  BY <1>10
<1>12. ASSUME NEW k \in 1 .. n, k - 1 \in T PROVE k \in T
  BY <1>10, <1>12 DEF Next_
<1> HIDE DEF T
<1>13. 0 .. n \subseteq T
  BY <1>11, <1>12, UpTo
<1>14. Drains(r, B, n)
  BY <1>10, <1>13 DEF Drains, T, Next_
<1>15. BestFirst(B) = [k \in 1 .. n |-> B[BestOf(B, r[k - 1])]]
  BY <1>4 DEF r
<1> QED BY <1>14, <1>15

(* A sequence of observations, best first.                                 *)
Sorted(s) == \A k, l \in DOMAIN s : k <= l => s[k].quality >= s[l].quality

SameElements(a, s) ==
    /\ a \in Seq(Range(s))
    /\ \A i \in DOMAIN s : \E k \in DOMAIN a : a[k] = s[i]

(* When the best is taken n times of n, nothing is left, and what is left  *)
(* only shrinks.                                                           *)
Ranks(r, B, n) ==
    /\ r[n] = {}
    /\ \A k \in 1 .. n : BestOf(B, r[k - 1]) \in r[k - 1]
    /\ \A k \in 1 .. n : \A j \in r[k - 1] : B[BestOf(B, r[k - 1])].quality >= B[j].quality
    /\ \A k, l \in 0 .. n : k <= l => r[l] \subseteq r[k]

(* Each draw takes the best that is left and the last leaves nothing.      *)
LEMMA DrainsEmpty ==
    ASSUME NEW B \in Seq(Observation), NEW n \in Nat, n = Len(B), NEW r, Drains(r, B, n)
    PROVE  Ranks(r, B, n)
<1>1. /\ r[0] = 1 .. n
      /\ \A k \in 1 .. n : r[k] = r[k - 1] \ {BestOf(B, r[k - 1])}
      /\ \A k \in 0 .. n : r[k] \subseteq 1 .. n
  BY DEF Drains
<1>2. \A j \in 1 .. n : B[j] \in Observation
  OBVIOUS
<1>3. ASSUME NEW k \in 1 .. n, r[k - 1] # {}
      PROVE  /\ BestOf(B, r[k - 1]) \in r[k - 1]
             /\ \A j \in r[k - 1] : B[BestOf(B, r[k - 1])].quality >= B[j].quality
  <2>1. r[k - 1] \subseteq 1 .. n
    BY <1>1
  <2>2. r[k - 1] \in SUBSET Nat /\ \A j \in r[k - 1] : B[j] \in Observation
    BY <1>2, <2>1
  <2> QED BY <1>3, <2>2, BestIsThere
<1> DEFINE T == {k \in 0 .. n : IsFiniteSet(r[k]) /\ Cardinality(r[k]) = n - k}
<1>4. 0 \in T
  <2>1. IsFiniteSet(1 .. n) /\ Cardinality(1 .. n) = n
    <3>1. PICK one \in Int, m \in Int : one = 1 /\ m = n
      OBVIOUS
    <3>2. IsFiniteSet(one .. m) /\ Cardinality(one .. m) = IF one > m THEN 0 ELSE m - one + 1
      BY <3>1, FS_Interval, Zenon
    <3> QED BY <3>1, <3>2
  <2> QED BY <1>1, <2>1
<1>5. ASSUME NEW k \in 1 .. n, k - 1 \in T PROVE k \in T
  <2>1. IsFiniteSet(r[k - 1]) /\ Cardinality(r[k - 1]) = n - (k - 1)
    BY <1>5
  <2>2. r[k - 1] # {}
    BY <2>1, FS_EmptySet
  <2>3. BestOf(B, r[k - 1]) \in r[k - 1]
    BY <1>3, <2>2
  <2>4. PICK S, x : S = r[k - 1] /\ x = BestOf(B, r[k - 1]) /\ x \in S /\ r[k] = S \ {x}
    BY <1>1, <2>3
  <2>5. IsFiniteSet(S \ {x}) /\ Cardinality(S \ {x}) = Cardinality(S) - 1
    <3>1. IsFiniteSet(S) /\ x \in S
      BY <2>1, <2>4
    <3>2. /\ IsFiniteSet(S \ {x})
          /\ Cardinality(S \ {x}) = IF x \in S THEN Cardinality(S) - 1 ELSE Cardinality(S)
      BY <3>1, FS_RemoveElement, Zenon
    <3> QED BY <3>1, <3>2
  <2>6. IsFiniteSet(r[k]) /\ Cardinality(r[k]) = Cardinality(S) - 1
    BY <2>4, <2>5
  <2>7. Cardinality(S) = n - (k - 1)
    BY <2>1, <2>4
  <2>8. Cardinality(r[k]) = n - k
    BY <2>6, <2>7
  <2> QED BY <2>6, <2>8
<1> HIDE DEF T
<1>6. 0 .. n \subseteq T
  BY <1>4, <1>5, UpTo
<1>7. ASSUME NEW k \in 0 .. n PROVE IsFiniteSet(r[k]) /\ Cardinality(r[k]) = n - k
  BY <1>6 DEF T
<1>8. r[n] = {}
  <2>1. IsFiniteSet(r[n]) /\ Cardinality(r[n]) = 0
    BY <1>7
  <2> QED BY <2>1, FS_EmptySet
<1>9. ASSUME NEW k \in 1 .. n PROVE r[k - 1] # {}
  <2>1. Cardinality(r[k - 1]) = n - (k - 1)
    BY <1>7
  <2>2. n - (k - 1) # 0
    OBVIOUS
  <2> QED BY <2>1, <2>2, FS_EmptySet
<1>10. ASSUME NEW k \in 0 .. n, NEW l \in 0 .. n, k <= l PROVE r[l] \subseteq r[k]
  <2> DEFINE U == {i \in 0 .. n : k <= i => r[i] \subseteq r[k]}
  <2>1. 0 \in U
    OBVIOUS
  <2>2. ASSUME NEW i \in 1 .. n, i - 1 \in U PROVE i \in U
    <3>1. r[i] \subseteq r[i - 1]
      BY <1>1
    <3>2. CASE k <= i - 1
      BY <2>2, <3>1, <3>2
    <3>3. CASE ~(k <= i - 1)
      <4>1. k <= i => k = i
        BY <3>3
      <4> QED BY <4>1
    <3> QED BY <3>2, <3>3
  <2> HIDE DEF U
  <2>3. 0 .. n \subseteq U
    BY <2>1, <2>2, UpTo
  <2> QED BY <1>10, <2>3 DEF U
<1> QED BY <1>3, <1>8, <1>9, <1>10 DEF Ranks

(* The bank, best first, is the same bank.                                 *)
LEMMA BestFirstSorts ==
    ASSUME NEW B \in Seq(Observation)
    PROVE  SameElements(BestFirst(B), B) /\ Sorted(BestFirst(B))
<1>1. PICK n \in Nat : n = Len(B) /\ DOMAIN B = 1 .. n
  OBVIOUS
<1>2. PICK r : /\ Drains(r, B, n)
               /\ BestFirst(B) = [k \in 1 .. n |-> B[BestOf(B, r[k - 1])]]
  BY <1>1, BestFirstDrains
<1>3. /\ r[n] = {}
      /\ \A k \in 1 .. n : BestOf(B, r[k - 1]) \in r[k - 1]
      /\ \A k \in 1 .. n : \A j \in r[k - 1] : B[BestOf(B, r[k - 1])].quality >= B[j].quality
      /\ \A k, l \in 0 .. n : k <= l => r[l] \subseteq r[k]
  <2>1. Ranks(r, B, n)
    BY <1>1, <1>2, DrainsEmpty
  <2> QED BY <2>1 DEF Ranks
<1>4. /\ r[0] = 1 .. n
      /\ \A k \in 1 .. n : r[k] = r[k - 1] \ {BestOf(B, r[k - 1])}
      /\ \A k \in 0 .. n : r[k] \subseteq 1 .. n
  BY <1>2 DEF Drains
<1>5. \A k \in 1 .. n : BestOf(B, r[k - 1]) \in 1 .. n
  BY <1>3, <1>4
<1> DEFINE b(k) == BestOf(B, r[k - 1])
<1> HIDE DEF b
<1>6. BestFirst(B) = [k \in 1 .. n |-> B[b(k)]] /\ \A k \in 1 .. n : b(k) \in 1 .. n
  BY <1>2, <1>5 DEF b
<1>7. BestFirst(B) \in Seq(Range(B))
  <2>1. \A k \in 1 .. n : B[b(k)] \in Range(B)
    BY <1>1, <1>6 DEF Range
  <2> QED BY <1>6, <2>1
<1>8. ASSUME NEW i \in 1 .. n PROVE \E k \in 1 .. n : b(k) = i
  <2> DEFINE T == {k \in 0 .. n : i \notin r[k]}
  <2>1. n \in T /\ T \in SUBSET Nat
    BY <1>3
  <2>2. PICK m \in T : \A k \in T : m <= k
    <3> HIDE DEF T
    <3> QED BY <2>1, Least
  <2>3. m # 0
    BY <1>4, <2>2
  <2>4. m \in 1 .. n /\ m - 1 \in 0 .. n /\ m - 1 \notin T
    BY <2>2, <2>3
  <2>5. i \in r[m - 1] /\ i \notin r[m]
    BY <2>2, <2>4
  <2> QED BY <1>4, <2>4, <2>5 DEF b
<1>9. ASSUME NEW k \in 1 .. n, NEW l \in 1 .. n, k <= l
      PROVE  B[b(k)].quality >= B[b(l)].quality
  <2>1. b(l) \in r[l - 1]
    BY <1>3 DEF b
  <2>2. r[l - 1] \subseteq r[k - 1]
    <3>1. k - 1 \in 0 .. n /\ l - 1 \in 0 .. n /\ k - 1 <= l - 1
      BY <1>9
    <3> QED BY <1>3, <3>1
  <2>3. b(l) \in r[k - 1]
    BY <2>1, <2>2
  <2>4. B[BestOf(B, r[k - 1])].quality >= B[b(l)].quality
    BY <1>3, <2>3
  <2>5. b(k) = BestOf(B, r[k - 1])
    BY DEF b
  <2> QED BY <2>4, <2>5
<1>10. PICK s : s = BestFirst(B) /\ DOMAIN s = 1 .. n /\ \A k \in 1 .. n : s[k] = B[b(k)]
  BY <1>6
<1>11. SameElements(s, B)
  BY <1>1, <1>7, <1>8, <1>10 DEF SameElements
<1>12. Sorted(s)
  BY <1>9, <1>10 DEF Sorted
<1> QED BY <1>10, <1>11, <1>12

(* What is kept of a sequence, up to position i of it: nothing else,       *)
(* nothing less, and in order if it was.                                   *)
KeptUpTo(a, s, S, i) ==
    /\ a \in Seq(Range(s))
    /\ \A k \in DOMAIN a : \E j \in S \cap (1 .. i) : a[k] = s[j]
    /\ \A j \in S \cap (1 .. i) : \E k \in DOMAIN a : a[k] = s[j]
    /\ Sorted(s) => Sorted(a)

(* One more element is kept, at the end.                                   *)
LEMMA KeepsOneMore ==
    ASSUME NEW E, NEW s \in Seq(E), NEW S, NEW a, NEW i \in DOMAIN s, i \in S,
           KeptUpTo(a, s, S, i - 1), NEW b, b = Append(a, s[i])
    PROVE  KeptUpTo(b, s, S, i)
<1>1. PICK n \in Nat : n = Len(a) /\ DOMAIN a = 1 .. n /\ a \in Seq(Range(s))
  BY DEF KeptUpTo
<1>2. PICK x : x = s[i] /\ x \in Range(s)
  BY DEF Range
<1>3. /\ b \in Seq(Range(s)) /\ DOMAIN b = 1 .. n + 1 /\ b[n + 1] = x
      /\ \A k \in 1 .. n : b[k] = a[k]
  <2> PICK X : X = Range(s)
    OBVIOUS
  <2>1. a \in Seq(X) /\ x \in X /\ b = Append(a, x)
    BY <1>1, <1>2
  <2>2. b \in Seq(X) /\ Len(b) = n + 1 /\ b[n + 1] = x /\ \A k \in 1 .. n : b[k] = a[k]
    BY <1>1, <2>1
  <2> QED BY <2>2
<1>4. /\ \A k \in 1 .. n : \E j \in S \cap (1 .. i - 1) : a[k] = s[j]
      /\ \A j \in S \cap (1 .. i - 1) : \E k \in 1 .. n : a[k] = s[j]
      /\ Sorted(s) => Sorted(a)
  BY <1>1 DEF KeptUpTo
<1>5. i \in Nat /\ 1 .. i = (1 .. i - 1) \cup {i} /\ DOMAIN s = 1 .. Len(s) /\ Len(s) \in Nat
  OBVIOUS
<1>6. 1 .. n + 1 = (1 .. n) \cup {n + 1}
  BY <1>1
<1>7. ASSUME NEW k \in 1 .. n + 1 PROVE \E j \in S \cap (1 .. i) : b[k] = s[j]
  <2>1. CASE k = n + 1
    BY <1>2, <1>3, <1>5, <2>1
  <2>2. CASE k \in 1 .. n
    <3>1. PICK j \in S \cap (1 .. i - 1) : a[k] = s[j]
      BY <1>4, <2>2
    <3> QED BY <1>3, <1>5, <2>2, <3>1
  <2> QED BY <1>6, <2>1, <2>2
<1>8. ASSUME NEW j \in S \cap (1 .. i) PROVE \E k \in 1 .. n + 1 : b[k] = s[j]
  <2>1. CASE j = i
    BY <1>2, <1>3, <1>6, <2>1
  <2>2. CASE j # i
    <3>1. j \in S \cap (1 .. i - 1)
      BY <1>5, <2>2
    <3>2. PICK k \in 1 .. n : a[k] = s[j]
      BY <1>4, <3>1
    <3> QED BY <1>3, <1>6, <3>2
  <2> QED BY <2>1, <2>2
<1>9. ASSUME Sorted(s), NEW k \in 1 .. n + 1, NEW l \in 1 .. n + 1, k <= l
      PROVE  b[k].quality >= b[l].quality
  <2>1. CASE l = n + 1
    <3>1. PICK j \in S \cap (1 .. i) : b[k] = s[j]
      BY <1>7
    <3>2. j \in DOMAIN s /\ j <= i
      BY <1>5, <3>1
    <3>3. s[j].quality >= s[i].quality
      BY <1>9, <3>2 DEF Sorted
    <3> QED BY <1>2, <1>3, <2>1, <3>1, <3>3
  <2>2. CASE l \in 1 .. n
    <3>1. k \in 1 .. n
      BY <1>9, <2>2
    <3>2. a[k].quality >= a[l].quality
      BY <1>1, <1>4, <1>9, <2>2, <3>1 DEF Sorted
    <3> QED BY <1>3, <2>2, <3>1, <3>2
  <2> QED BY <1>6, <2>1, <2>2
<1>10. Sorted(s) => Sorted(b)
  BY <1>3, <1>9 DEF Sorted
<1> QED BY <1>3, <1>7, <1>8, <1>10 DEF KeptUpTo

(* A filtered sequence holds what passes the filter, all of it and nothing *)
(* else, in the order it had.                                              *)
LEMMA KeptKeeps ==
    ASSUME NEW E, NEW s \in Seq(E), NEW S
    PROVE  KeptUpTo(Kept(s, S), s, S, Len(s))
<1>1. PICK n \in Nat : n = Len(s) /\ DOMAIN s = 1 .. n
  OBVIOUS
<1>2. PICK g : /\ Kept(s, S) = g[n]
               /\ g[0] = <<>>
               /\ \A i \in (1 .. n) \cap S : g[i] = Append(g[i - 1], s[i])
               /\ \A i \in (1 .. n) \ S : g[i] = g[i - 1]
  <2>1. \E g : Grows(g, s, S) /\ Kept(s, S) = g[Len(s)]
    BY KeptGrows
  <2> QED BY <1>1, <2>1 DEF Grows
<1> DEFINE T == {i \in 0 .. n : KeptUpTo(g[i], s, S, i)}
<1>3. 0 \in T
  <2>1. <<>> \in Seq(Range(s)) /\ DOMAIN <<>> = {} /\ 1 .. 0 = {}
    OBVIOUS
  <2>2. KeptUpTo(<<>>, s, S, 0)
    BY <2>1 DEF KeptUpTo, Sorted
  <2> QED BY <1>2, <2>2
<1>4. ASSUME NEW i \in 1 .. n, i - 1 \in T PROVE i \in T
  <2>1. KeptUpTo(g[i - 1], s, S, i - 1) /\ i \in 0 .. n
    BY <1>4
  <2>2. CASE i \in S
    <3>1. g[i] = Append(g[i - 1], s[i]) /\ i \in DOMAIN s
      BY <1>1, <1>2, <2>2
    <3>2. KeptUpTo(g[i], s, S, i)
      BY <2>1, <2>2, <3>1, KeepsOneMore
    <3> QED BY <2>1, <3>2
  <2>3. CASE i \notin S
    <3>1. g[i] = g[i - 1] /\ S \cap (1 .. i) = S \cap (1 .. i - 1)
      BY <1>2, <2>3
    <3>2. KeptUpTo(g[i], s, S, i)
      BY <2>1, <3>1 DEF KeptUpTo
    <3> QED BY <2>1, <3>2
  <2> QED BY <2>2, <2>3
<1> HIDE DEF T
<1>5. 0 .. n \subseteq T
  BY <1>3, <1>4, UpTo
<1>6. KeptUpTo(g[n], s, S, n)
  BY <1>5 DEF T
<1> QED BY <1>1, <1>2, <1>6

(* One of finitely many numbers is the greatest.                           *)
LEMMA Foremost ==
    ASSUME NEW n \in Nat, NEW f, \A i \in 1 .. n : f[i] \in Nat, n # 0
    PROVE  \E i \in 1 .. n : \A j \in 1 .. n : f[i] >= f[j]
<1> DEFINE T == {k \in 0 .. n : k = 0 \/ \E i \in 1 .. k : \A j \in 1 .. k : f[i] >= f[j]}
<1>1. 0 \in T
  OBVIOUS
<1>2. ASSUME NEW k \in 1 .. n, k - 1 \in T PROVE k \in T
  <2>1. CASE k = 1
    <3>1. f[1] >= f[1]
      BY <2>1
    <3>2. \A j \in 1 .. 1 : f[1] >= f[j]
      BY <3>1
    <3> QED BY <2>1, <3>2
  <2>2. CASE k # 1
    <3>1. PICK i \in 1 .. k - 1 : \A j \in 1 .. k - 1 : f[i] >= f[j]
      BY <1>2, <2>2
    <3>2. f[i] \in Nat /\ f[k] \in Nat /\ i \in 1 .. k /\ k \in 1 .. k
      BY <1>2
    <3>3. CASE f[i] >= f[k]
      <4>1. \A j \in 1 .. k : f[i] >= f[j]
        BY <3>1, <3>3
      <4> QED BY <3>2, <4>1
    <3>4. CASE ~(f[i] >= f[k])
      <4>1. ASSUME NEW j \in 1 .. k PROVE f[k] >= f[j]
        <5>1. f[j] \in Nat
          OBVIOUS
        <5>2. CASE j = k
          BY <5>1, <5>2
        <5>3. CASE j # k
          <6>1. f[i] >= f[j]
            BY <3>1, <5>3
          <6> QED BY <3>2, <3>4, <5>1, <6>1
        <5> QED BY <5>2, <5>3
      <4> QED BY <3>2, <4>1
    <3> QED BY <3>3, <3>4
  <2> QED BY <2>1, <2>2
<1> HIDE DEF T
<1>3. 0 .. n \subseteq T
  BY <1>1, <1>2, UpTo
<1>4. n \in T
  BY <1>3
<1> QED BY <1>4 DEF T

(* A sum of natural numbers is one.                                        *)
LEMMA SumIsNatural ==
    ASSUME NEW s \in Seq(Nat)
    PROVE  SumOf(s) \in Nat
<1>1. PICK g : Sums(g, s) /\ SumOf(s) = g[Len(s)]
  BY SumGrows
<1>2. Len(s) \in 0 .. Len(s)
  OBVIOUS
<1> QED BY <1>1, <1>2 DEF Sums

(* The evidence for a chain is a number.                                   *)
LEMMA EvidenceIsNatural ==
    ASSUME NEW B \in Seq(Observation), NEW c
    PROVE  ChainEvidence(B, c) \in Nat
<1> DEFINE S == {i \in DOMAIN B : B[i].chain = c}
           best == ChainOf(B, c)
           most == Min({BestK, Len(best)})
           s == [k \in 1 .. most |-> best[k].quality]
<1>1. best \in Seq(Observation)
  <2>1. best = Kept(B, S)
    BY DEF ChainOf
  <2> HIDE DEF S, best
  <2>2. best \in Seq(Range(B))
    BY <2>1, KeptKeeps DEF KeptUpTo
  <2>3. Range(B) \subseteq Observation
    BY DEF Range
  <2> QED BY <2>2, <2>3
<1> HIDE DEF best
<1>2. most \in Nat /\ most <= Len(best)
  <2>1. PICK a \in Int, b \in Int : a = BestK /\ b = Len(best) /\ a >= 0 /\ b >= 0
    BY <1>1, ReadsAssumption
  <2>2. Min({a, b}) = IF a <= b THEN a ELSE b
    BY MinOfTwo
  <2> QED BY <2>1, <2>2
<1> HIDE DEF most
<1>3. ASSUME NEW k \in 1 .. most PROVE best[k].quality \in Nat
  <2>1. best[k] \in Observation
    BY <1>1, <1>2
  <2>2. best[k].quality \in 0 .. 100
    BY <2>1 DEF Observation
  <2>3. \A x \in 0 .. 100 : x \in Nat
    OBVIOUS
  <2> QED BY <2>2, <2>3, Zenon
<1>4. s \in Seq(Nat)
  BY <1>2, <1>3
<1>5. ChainEvidence(B, c) = SumOf(s)
  BY DEF ChainEvidence, best, most
<1> HIDE DEF s
<1> QED BY <1>4, <1>5, SumIsNatural

(* There is a chain with the most evidence.                                *)
LEMMA DominantIsThere ==
    ASSUME NEW B \in Seq(Observation), B # <<>>
    PROVE  \E c \in Chains(B) : DominantChain(B) = ChainOf(B, c)
<1>1. PICK n \in Nat : n = Len(B) /\ DOMAIN B = 1 .. n /\ n # 0
  OBVIOUS
<1> DEFINE e == [i \in 1 .. n |-> ChainEvidence(B, B[i].chain)]
<1>2. \A i \in 1 .. n : e[i] \in Nat
  BY EvidenceIsNatural
<1>3. PICK m \in 1 .. n : \A j \in 1 .. n : e[m] >= e[j]
  <2> HIDE DEF e
  <2> QED BY <1>1, <1>2, Foremost
<1>4. Chains(B) = {B[i].chain : i \in 1 .. n}
  BY <1>1 DEF Chains
<1> DEFINE most == ChainEvidence(B, B[m].chain)
           M == {c \in Chains(B) : ChainEvidence(B, c) = most}
           U == {FirstOf(B, c) : c \in M}
<1>5. \A c \in Chains(B) : /\ ChainEvidence(B, c) \in Nat /\ most \in Nat
                           /\ most >= ChainEvidence(B, c)
  BY <1>2, <1>3, <1>4
<1>6. ASSUME NEW c \in Chains(B) PROVE FirstOf(B, c) \in Nat
  <2>1. {i \in DOMAIN B : B[i].chain = c} \in SUBSET Nat /\ {i \in DOMAIN B : B[i].chain = c} # {}
    BY <1>1, <1>4
  <2> QED BY <2>1, MinIsThere DEF FirstOf
<1>7. B[m].chain \in M
  BY <1>4
<1>8. U \in SUBSET Nat /\ U # {}
  BY <1>6, <1>7
<1>9. PICK f \in U : \A y \in U : f <= y
  <2> HIDE DEF U
  <2> QED BY <1>8, Least
<1>10. PICK c \in M : FirstOf(B, c) = f
  BY <1>9
<1> HIDE DEF most
<1>11. ASSUME NEW d \in Chains(B)
       PROVE  \/ ChainEvidence(B, c) > ChainEvidence(B, d)
              \/ /\ ChainEvidence(B, c) = ChainEvidence(B, d)
                 /\ FirstOf(B, c) <= FirstOf(B, d)
  <2>1. CASE ChainEvidence(B, d) = most
    <3>1. FirstOf(B, d) \in U
      BY <2>1
    <3> QED BY <1>9, <1>10, <2>1, <3>1
  <2>2. CASE ChainEvidence(B, d) # most
    BY <1>5, <1>10, <2>2
  <2> QED BY <2>1, <2>2
<1>12. c \in Chains(B)
  BY <1>10
<1> DEFINE chosen == CHOOSE x \in Chains(B) :
                \A d \in Chains(B) : \/ ChainEvidence(B, x) > ChainEvidence(B, d)
                                     \/ /\ ChainEvidence(B, x) = ChainEvidence(B, d)
                                        /\ FirstOf(B, x) <= FirstOf(B, d)
<1>13. chosen \in Chains(B)
  BY <1>11, <1>12
<1>14. DominantChain(B) = ChainOf(B, chosen)
  BY DEF DominantChain
<1> QED BY <1>13, <1>14

(* Two observations are the same view whichever comes first.               *)
LEMMA SameEitherWay ==
    ASSUME NEW a \in Observation, NEW b \in Observation
    PROVE  SameView(a, b) <=> SameView(b, a)
<1>1. PICK f \in Int, g \in Int, x \in Int, y \in Int, m \in Int, d \in Int :
         /\ f = a.frame /\ g = b.frame /\ x = a.look /\ y = b.look
         /\ m = MinFrameGap /\ d = MinHamming
  <2>1. a.frame \in Int /\ b.frame \in Int /\ a.look \in Int /\ b.look \in Int
    BY DEF Observation
  <2>2. MinFrameGap \in Int /\ MinHamming \in Int
    BY ReadsAssumption
  <2> QED BY <2>1, <2>2
<1>2. f - g \in -(m - 1) .. m - 1 <=> g - f \in -(m - 1) .. m - 1
  OBVIOUS
<1>3. Distinct(x, y, d) <=> Distinct(y, x, d)
  BY DEF Distinct
<1> QED BY <1>1, <1>2, <1>3 DEF SameView

(* What may be sent of a pool: no view twice, and the first of it.         *)
Diversified(a, pool, k) ==
    /\ a \in Seq(Range(pool))
    /\ \A i, j \in DOMAIN a : i # j => ~SameView(a[i], a[j])
    /\ k = 0 => a = <<>>
    /\ k # 0 => a # <<>> /\ a[1] = pool[1]

(* One more view is sent only if it is new and there is room.              *)
LEMMA DiversifiedMore ==
    ASSUME NEW pool \in Seq(Observation), NEW k \in DOMAIN pool,
           NEW a, Diversified(a, pool, k - 1), NEW b,
           b = IF Redundant(a, pool[k]) THEN a ELSE Append(a, pool[k])
    PROVE  Diversified(b, pool, k)
<1>1. PICK n \in Nat : n = Len(a) /\ DOMAIN a = 1 .. n /\ a \in Seq(Range(pool))
  BY DEF Diversified
<1>2. PICK x : x = pool[k] /\ x \in Range(pool) /\ x \in Observation
  BY DEF Range
<1>3. ASSUME NEW i \in 1 .. n PROVE a[i] \in Observation
  <2>1. a[i] \in Range(pool)
    BY <1>1
  <2> QED BY <2>1 DEF Range
<1>4. k \in Nat /\ k # 0
  OBVIOUS
<1>5. CASE Redundant(a, x)
  <2>1. b = a
    BY <1>2, <1>5
  <2>2. a # <<>>
    <3>1. CASE Len(a) >= BestK
      <4>1. n >= BestK /\ BestK \in Nat /\ BestK # 0
        BY <1>1, <3>1, ReadsAssumption
      <4>2. n # 0
        BY <1>1, <4>1
      <4> QED BY <1>1, <4>2
    <3>2. CASE \E i \in DOMAIN a : SameView(x, a[i])
      BY <1>1, <3>2
    <3> QED BY <1>5, <3>1, <3>2 DEF Redundant
  <2>3. a[1] = pool[1]
    BY <2>2 DEF Diversified
  <2> QED BY <1>4, <2>1, <2>2, <2>3 DEF Diversified
<1>6. CASE ~Redundant(a, x)
  <2>1. PICK X : X = Range(pool)
    OBVIOUS
  <2>2. b = Append(a, x) /\ a \in Seq(X) /\ x \in X
    BY <1>1, <1>2, <1>6, <2>1
  <2>3. /\ b \in Seq(X) /\ Len(b) = n + 1 /\ DOMAIN b = 1 .. n + 1 /\ b[n + 1] = x
        /\ \A i \in 1 .. n : b[i] = a[i]
    BY <1>1, <2>2
  <2>4. \A i \in 1 .. n : ~SameView(x, a[i])
    BY <1>1, <1>6 DEF Redundant
  <2>5. 1 .. n + 1 = (1 .. n) \cup {n + 1}
    BY <1>1
  <2>6. ASSUME NEW i \in DOMAIN b, NEW j \in DOMAIN b, i # j
        PROVE  ~SameView(b[i], b[j])
    <3>1. CASE i = n + 1
      <4>1. j \in 1 .. n
        BY <2>3, <2>5, <2>6, <3>1
      <4> QED BY <2>3, <2>4, <3>1, <4>1
    <3>2. CASE j = n + 1
      <4>1. i \in 1 .. n
        BY <2>3, <2>5, <2>6, <3>2
      <4>2. ~SameView(x, a[i]) /\ a[i] \in Observation
        BY <1>3, <2>4, <4>1
      <4>3. ~SameView(a[i], x)
        BY <1>2, <4>2, SameEitherWay
      <4> QED BY <2>3, <3>2, <4>1, <4>3
    <3>3. CASE i \in 1 .. n /\ j \in 1 .. n
      BY <1>1, <2>3, <2>6, <3>3 DEF Diversified
    <3> QED BY <2>3, <2>5, <3>1, <3>2, <3>3
  <2>7. b # <<>> /\ b[1] = pool[1]
    <3>1. CASE k = 1
      <4>1. k - 1 = 0
        BY <3>1
      <4>2. a = <<>>
        BY <4>1 DEF Diversified
      <4>3. n = 0
        BY <1>1, <4>2
      <4>4. b[1] = x
        BY <2>3, <4>3
      <4> QED BY <1>2, <2>3, <3>1, <4>3, <4>4
    <3>2. CASE k # 1
      <4>1. k - 1 # 0
        BY <1>4, <3>2
      <4>2. a # <<>> /\ a[1] = pool[1]
        BY <4>1 DEF Diversified
      <4>3. n # 0 /\ 1 \in 1 .. n
        BY <1>1, <4>2
      <4> QED BY <1>1, <2>3, <4>2, <4>3
    <3> QED BY <3>1, <3>2
  <2> QED BY <1>4, <2>1, <2>3, <2>6, <2>7 DEF Diversified
<1> QED BY <1>5, <1>6

(* What is sent of a pool is diversified.                                  *)
LEMMA DiverseDiversifies ==
    ASSUME NEW pool \in Seq(Observation)
    PROVE  Diversified(Diverse(pool), pool, Len(pool))
<1>1. PICK n \in Nat : n = Len(pool) /\ DOMAIN pool = 1 .. n
  OBVIOUS
<1>2. PICK V : V = Seq(Range(pool))
  OBVIOUS
<1>3. <<>> \in V /\ \A v \in V, k \in 1 .. n : Append(v, pool[k]) \in V
  <2>1. PICK X : X = Range(pool)
    OBVIOUS
  <2>2. \A k \in 1 .. n : pool[k] \in X
    BY <1>1, <2>1 DEF Range
  <2> QED BY <1>2, <2>1, <2>2
<1> DEFINE Next_(k, v) == IF Redundant(v, pool[k]) THEN v ELSE Append(v, pool[k])
           Step_(f) == f = [k \in 0 .. n |-> IF k = 0 THEN <<>> ELSE Next_(k, f[k - 1])]
           G == [k \in 1 .. n |-> [v \in V |-> Next_(k, v)]]
<1>4. ASSUME NEW k \in 1 .. n, NEW v \in V PROVE Next_(k, v) \in V
  BY <1>3
<1>5. ASSUME NEW k, NEW v
      PROVE  Next_(k, v) = IF Redundant(v, pool[k]) THEN v ELSE Append(v, pool[k])
  OBVIOUS
<1>6. Diverse(pool) = (CHOOSE f : Step_(f))[n]
  BY <1>1 DEF Diverse
<1> HIDE DEF Next_
<1>7. G \in [1 .. n -> [V -> V]] /\ \A k \in 1 .. n, v \in V : G[k][v] = Next_(k, v)
  BY <1>4
<1> HIDE DEF G
<1>8. PICK g : g \in [0 .. n -> V] /\ g[0] = <<>>
               /\ \A k \in 1 .. n : g[k - 1] \in V /\ g[k] = G[k][g[k - 1]]
  <2>1. PICK base \in V : base = <<>>
    BY <1>3
  <2>2. \E g : Builds(g, n, V, base, G)
    BY <1>7, Accumulates
  <2> QED BY <2>1, <2>2 DEF Builds
<1>9. Step_(g)
  <2>1. ASSUME NEW k \in 0 .. n PROVE g[k] = IF k = 0 THEN <<>> ELSE Next_(k, g[k - 1])
    <3>1. CASE k = 0
      BY <1>8, <3>1
    <3>2. CASE k \in 1 .. n
      <4>1. g[k] = Next_(k, g[k - 1])
        BY <1>7, <1>8, <3>2
      <4> QED BY <3>2, <4>1
    <3> QED BY <3>1, <3>2
  <2>2. g = [k \in 0 .. n |-> g[k]]
    BY <1>8
  <2> QED BY <2>1, <2>2
<1> DEFINE h == CHOOSE f : Step_(f)
<1>10. Step_(h)
  BY <1>9
<1> HIDE DEF h
<1>11. h[0] = <<>> /\ \A k \in 1 .. n : h[k] = Next_(k, h[k - 1])
  BY <1>10
<1> DEFINE T == {k \in 0 .. n : Diversified(h[k], pool, k)}
<1>12. 0 \in T
  <2>1. <<>> \in Seq(Range(pool)) /\ DOMAIN <<>> = {}
    OBVIOUS
  <2>2. Diversified(<<>>, pool, 0)
    BY <2>1 DEF Diversified
  <2> QED BY <1>11, <2>2
<1>13. ASSUME NEW k \in 1 .. n, k - 1 \in T PROVE k \in T
  <2>1. Diversified(h[k - 1], pool, k - 1) /\ k \in 0 .. n /\ k \in DOMAIN pool
    BY <1>1, <1>13
  <2>2. h[k] = IF Redundant(h[k - 1], pool[k]) THEN h[k - 1] ELSE Append(h[k - 1], pool[k])
    BY <1>5, <1>11
  <2>3. Diversified(h[k], pool, k)
    BY <2>1, <2>2, DiversifiedMore
  <2> QED BY <2>1, <2>3
<1> HIDE DEF T
<1>14. 0 .. n \subseteq T
  BY <1>12, <1>13, UpTo
<1>15. Diversified(h[n], pool, n)
  BY <1>14 DEF T
<1> QED BY <1>1, <1>6, <1>15 DEF h

(* What is sent of a bank: views of one chain, all different, the best of  *)
(* the chain first.                                                        *)
Selected(sent, B) ==
    /\ \A i, j \in DOMAIN sent : i # j => ~SameView(sent[i], sent[j])
    /\ \E c : \A i \in DOMAIN sent : \E j \in DOMAIN B : sent[i] = B[j] /\ B[j].chain = c
    /\ \A i \in DOMAIN B :
         B[i].quality >= MinQuality
         => /\ sent # <<>>
            /\ B[i].chain = sent[1].chain => B[i].quality <= sent[1].quality

(* select_best() keeps to that, for every bank.                            *)
LEMMA WhatIsSelected ==
    ASSUME NEW B \in Seq(Observation)
    PROVE  Selected(SelectBest(B), B)
<1> DEFINE S == {i \in DOMAIN B : B[i].quality >= MinQuality}
           usable == Usable(B)
           ranked == BestFirst(usable)
           pool == DominantChain(ranked)
           sent == Diverse(pool)
<1>1. KeptUpTo(usable, B, S, Len(B)) /\ DOMAIN B = 1 .. Len(B) /\ Len(B) \in Nat
  <2>1. usable = Kept(B, S)
    BY DEF Usable
  <2> HIDE DEF S, usable
  <2> QED BY <2>1, KeptKeeps
<1> HIDE DEF usable
<1>2. /\ usable \in Seq(Observation)
      /\ \A k \in DOMAIN usable : \E j \in DOMAIN B : usable[k] = B[j]
      /\ \A j \in S : \E k \in DOMAIN usable : usable[k] = B[j]
  <2>1. usable \in Seq(Range(B)) /\ Range(B) \subseteq Observation
    BY <1>1 DEF KeptUpTo, Range
  <2>2. usable \in Seq(Observation)
    BY <2>1
  <2>3. S \cap (1 .. Len(B)) = S
    BY <1>1
  <2> HIDE DEF S
  <2> QED BY <1>1, <2>2, <2>3 DEF KeptUpTo
<1>3. SameElements(ranked, usable) /\ Sorted(ranked)
  BY <1>2, BestFirstSorts
<1> HIDE DEF ranked
<1>4. /\ ranked \in Seq(Observation)
      /\ \A k \in DOMAIN ranked : \E j \in DOMAIN B : ranked[k] = B[j]
      /\ \A j \in S : \E k \in DOMAIN ranked : ranked[k] = B[j]
  <2>1. ranked \in Seq(Range(usable)) /\ Range(usable) \subseteq Observation
    BY <1>2, <1>3 DEF SameElements, Range
  <2>2. ranked \in Seq(Observation)
    BY <2>1
  <2>3. \A k \in DOMAIN ranked : ranked[k] \in Range(usable)
    BY <2>1
  <2>4. \A k \in DOMAIN ranked : \E j \in DOMAIN usable : ranked[k] = usable[j]
    BY <2>3 DEF Range
  <2> HIDE DEF S
  <2> QED BY <1>2, <1>3, <2>2, <2>4 DEF SameElements
<1>5. CASE ranked = <<>>
  <2>1. pool = <<>>
    BY <1>5 DEF DominantChain
  <2>2. Diversified(sent, pool, Len(pool)) /\ Len(pool) = 0
    <3>1. pool \in Seq(Observation) /\ Len(pool) = 0
      BY <2>1
    <3> HIDE DEF pool
    <3> QED BY <3>1, DiverseDiversifies
  <2> HIDE DEF pool, sent
  <2>3. sent = <<>> /\ DOMAIN sent = {}
    BY <2>2 DEF Diversified
  <2>4. S = {}
    BY <1>4, <1>5
  <2>5. Selected(sent, B)
    BY <2>3, <2>4 DEF Selected
  <2> QED BY <2>5 DEF SelectBest, usable, ranked, pool, sent
<1>6. CASE ranked # <<>>
  <2>1. PICK c \in Chains(ranked) : pool = ChainOf(ranked, c)
    BY <1>4, <1>6, DominantIsThere
  <2> DEFINE U == {i \in DOMAIN ranked : ranked[i].chain = c}
  <2>2. KeptUpTo(pool, ranked, U, Len(ranked)) /\ DOMAIN ranked = 1 .. Len(ranked)
    <3>1. pool = Kept(ranked, U)
      BY <2>1 DEF ChainOf
    <3> HIDE DEF pool, U
    <3> QED BY <1>4, <3>1, KeptKeeps
  <2> HIDE DEF pool, sent
  <2>3. U \cap (1 .. Len(ranked)) = U /\ U # {}
    BY <2>1, <2>2 DEF Chains
  <2>4. /\ pool \in Seq(Range(ranked))
        /\ \A k \in DOMAIN pool : \E j \in U : pool[k] = ranked[j]
        /\ \A j \in U : \E k \in DOMAIN pool : pool[k] = ranked[j]
        /\ Sorted(pool)
    <3> HIDE DEF U
    <3> QED BY <1>3, <2>2, <2>3 DEF KeptUpTo
  <2>5. pool \in Seq(Observation) /\ pool # <<>>
    <3>1. Range(ranked) \subseteq Observation
      BY <1>4 DEF Range
    <3>2. pool \in Seq(Observation)
      BY <2>4, <3>1
    <3>3. DOMAIN pool # {}
      BY <2>3, <2>4
    <3> QED BY <3>2, <3>3
  <2>6. PICK n \in Nat : n = Len(pool) /\ DOMAIN pool = 1 .. n /\ n # 0
    BY <2>5
  <2>7. /\ sent \in Seq(Range(pool))
        /\ \A i, j \in DOMAIN sent : i # j => ~SameView(sent[i], sent[j])
        /\ sent # <<>> /\ sent[1] = pool[1]
    <3>1. Diversified(sent, pool, n)
      BY <2>5, <2>6, DiverseDiversifies DEF sent
    <3> QED BY <2>6, <3>1 DEF Diversified
  <2>8. ASSUME NEW i \in DOMAIN sent PROVE \E j \in DOMAIN B : sent[i] = B[j] /\ B[j].chain = c
    <3>1. sent[i] \in Range(pool)
      BY <2>7
    <3>2. PICK k \in DOMAIN pool : sent[i] = pool[k]
      BY <3>1 DEF Range
    <3>3. PICK l \in U : pool[k] = ranked[l]
      BY <2>4
    <3> QED BY <1>4, <3>2, <3>3
  <2>9. ASSUME NEW i \in DOMAIN B, B[i].quality >= MinQuality, B[i].chain = sent[1].chain
        PROVE  B[i].quality <= sent[1].quality
    <3>1. PICK k \in DOMAIN ranked : ranked[k] = B[i]
      BY <1>4, <2>9
    <3>2. 1 \in DOMAIN sent
      BY <2>7
    <3>3. B[i].chain = c
      BY <2>8, <2>9, <3>2
    <3>4. k \in U
      BY <3>1, <3>3
    <3>5. PICK l \in DOMAIN pool : pool[l] = B[i]
      BY <2>4, <3>1, <3>4
    <3>6. pool[1].quality >= pool[l].quality
      <4>1. 1 \in DOMAIN pool /\ 1 <= l
        BY <2>6
      <4> QED BY <2>4, <4>1 DEF Sorted
    <3> QED BY <2>7, <3>5, <3>6
  <2>10. Selected(sent, B)
    <3> HIDE DEF U
    <3> QED BY <2>7, <2>8, <2>9 DEF Selected
  <2> QED BY <2>10 DEF SelectBest, usable, ranked, pool, sent
<1> QED BY <1>5, <1>6

-----------------------------------------------------------------------------
(* Of the observations of a bank one is the worst.                         *)
LEMMA WorstIsThere ==
    ASSUME NEW B \in Seq(Observation), B # <<>>
    PROVE  Worst(B) \in DOMAIN B
<1>1. PICK n \in Nat : n = Len(B) /\ DOMAIN B = 1 .. n /\ n # 0
  OBVIOUS
<1>2. ASSUME NEW i \in 1 .. n PROVE B[i].quality \in Nat
  <2>1. B[i].quality \in 0 .. 100
    <3>1. B[i] \in Observation
      BY <1>1
    <3> QED BY <3>1 DEF Observation
  <2>2. \A x \in 0 .. 100 : x \in Nat
    OBVIOUS
  <2> QED BY <2>1, <2>2, Zenon
<1> DEFINE T == {B[i].quality : i \in 1 .. n}
<1>3. T \in SUBSET Nat /\ T # {}
  <2>1. B[1].quality \in T
    BY <1>1
  <2> QED BY <1>2, <2>1
<1>4. PICK m \in T : \A y \in T : m <= y
  <2> HIDE DEF T
  <2> QED BY <1>3, Least
<1> DEFINE U == {i \in 1 .. n : B[i].quality = m}
<1>5. U \in SUBSET Nat /\ U # {}
  BY <1>4
<1>6. PICK f \in U : \A y \in U : f <= y
  <2> HIDE DEF U
  <2> QED BY <1>5, Least
<1>7. f \in 1 .. n /\ B[f].quality = m
  BY <1>6
<1>8. \A j \in 1 .. n : B[f].quality <= B[j].quality
  BY <1>4, <1>7
<1>9. ASSUME NEW j \in 1 .. f - 1 PROVE B[f].quality < B[j].quality
  <2>1. j \in 1 .. n /\ ~(f <= j)
    BY <1>7
  <2>2. B[j].quality # m
    BY <1>6, <2>1
  <2>3. m <= B[j].quality /\ m \in Nat /\ B[j].quality \in Nat
    BY <1>2, <1>4, <1>3, <2>1
  <2> QED BY <1>7, <2>2, <2>3
<1> HIDE DEF T, U
<1> QED BY <1>1, <1>7, <1>8, <1>9 DEF Worst

(* A bank that holds nothing but what B holds and o.                       *)
Among(C, B, o) ==
    /\ C \in Seq(Observation)
    /\ \A i \in DOMAIN C : C[i] = o \/ \E j \in DOMAIN B : C[i] = B[j]

(* Banking an observation brings in nothing else.                          *)
LEMMA BankedIsAmong ==
    ASSUME NEW B \in Seq(Observation), NEW o \in Observation
    PROVE  Among(Banked(B, o), B, o)
<1>1. PICK n \in Nat : n = Len(B) /\ DOMAIN B = 1 .. n
  OBVIOUS
<1> DEFINE similar == {i \in DOMAIN B : ~Distinct(o.look, B[i].look, MinHamming)}
           longer == Append(B, o)
<1>2. CASE Banked(B, o) = B
  BY <1>2 DEF Among
<1>3. CASE similar # {} /\ Banked(B, o) = ReplaceAt(B, Min(similar), o)
  <2>1. Min(similar) \in 1 .. n
    <3>1. similar \in SUBSET Nat /\ similar \subseteq 1 .. n
      BY <1>1
    <3> HIDE DEF similar
    <3> QED BY <1>3, <3>1, MinIsThere
  <2> HIDE DEF similar
  <2> QED BY <1>1, <1>3, <2>1 DEF Among, ReplaceAt
<1>4. longer \in Seq(Observation) /\ longer # <<>> /\ Among(longer, B, o)
  BY <1>1 DEF Among
<1>5. CASE Banked(B, o) = longer
  BY <1>4, <1>5
<1>6. CASE Banked(B, o) = RemoveAt(longer, Worst(longer))
  <2>1. PICK w : w = Worst(longer) /\ w \in DOMAIN longer
    BY <1>4, WorstIsThere
  <2>2. PICK m \in Nat : m = Len(longer) /\ DOMAIN longer = 1 .. m
    BY <1>4
  <2> HIDE DEF longer
  <2>3. PICK C : C = SubSeq(longer, 1, w - 1) \o SubSeq(longer, w + 1, m)
    OBVIOUS
  <2>4. /\ C \in Seq(Observation)
        /\ \A i \in DOMAIN C : \E j \in 1 .. m : C[i] = longer[j]
    <3>1. PICK P, Q : P = SubSeq(longer, 1, w - 1) /\ Q = SubSeq(longer, w + 1, m)
      OBVIOUS
    <3>2. w \in 1 .. m /\ longer \in Seq(Observation)
      BY <1>4, <2>1, <2>2
    <3>3. /\ P \in Seq(Observation) /\ Len(P) = w - 1
          /\ \A i \in 1 .. w - 1 : P[i] = longer[i]
      BY <2>2, <3>1, <3>2
    <3>4. /\ Q \in Seq(Observation) /\ Len(Q) = m - w
          /\ \A i \in 1 .. m - w : Q[i] = longer[i + w]
      BY <2>2, <3>1, <3>2
    <3>5. C = P \o Q /\ C \in Seq(Observation) /\ DOMAIN C = 1 .. (w - 1) + (m - w)
      BY <2>3, <3>1, <3>3, <3>4
    <3>6. ASSUME NEW i \in DOMAIN C PROVE \E j \in 1 .. m : C[i] = longer[j]
      <4>1. i \in 1 .. m - 1
        BY <2>2, <3>2, <3>5
      <4>2. CASE i <= w - 1
        <5>1. C[i] = P[i]
          BY <3>2, <3>3, <3>4, <3>5, <4>1, <4>2
        <5> QED BY <3>2, <3>3, <4>1, <4>2, <5>1
      <4>3. CASE ~(i <= w - 1)
        <5>1. C[i] = Q[i - (w - 1)]
          BY <3>2, <3>3, <3>4, <3>5, <4>1, <4>3, SMTT(30)
        <5>2. i - (w - 1) \in 1 .. m - w /\ i + 1 \in 1 .. m /\ i - (w - 1) + w = i + 1
          BY <3>2, <4>1, <4>3
        <5>3. Q[i - (w - 1)] = longer[i + 1]
          BY <3>4, <5>2
        <5> QED BY <5>1, <5>2, <5>3
      <4> QED BY <4>2, <4>3
    <3> QED BY <3>5, <3>6
  <2>5. Among(C, B, o)
    BY <1>4, <2>2, <2>4, SMTT(30) DEF Among
  <2> QED BY <1>6, <2>1, <2>2, <2>3, <2>5 DEF RemoveAt
<1> QED BY <1>2, <1>3, <1>5, <1>6 DEF Banked

(* A plate in view.                                                        *)
Plate == [car : Nat, x : Int]

(* Every plate of every view is one.                                       *)
LEMMA PlateInView ==
    ASSUME NEW view \in Views, NEW i \in DOMAIN view
    PROVE  view[i] \in Plate
<1>1. \A v \in Views : v # <<>> /\ v \in Seq(Plate)
  BY ViewsAssumption, Zenon DEF Plate
<1>2. view \in Seq(Plate)
  BY <1>1
<1> QED BY <1>2

(* What a frame continues: the plate of the vehicle followed, unless it is *)
(* misled, or a new chain.                                                 *)
Continues(pick, view, f) ==
    \E i \in DOMAIN view :
        /\ pick.shown = view[i]
        /\ \/ pick.group = follow.group + 1
           \/ /\ pick.group = follow.group /\ follow.group > 0
              /\ view[i].car = follow.car \/ Misled(view, f)

(* The plate nearest to the one followed, when it is in reach, is of the    *)
(* same car, unless the frame misleads.                                    *)
LEMMA NearestIsTheSame ==
    ASSUME NEW view \in Views, NEW f, follow.x \in Int, follow.group \in Nat
    PROVE  Continues(Picked(view, f), view, f)
<1> DEFINE away(i) == IF view[i].x > follow.x THEN view[i].x - follow.x
                      ELSE follow.x - view[i].x
           near == {i \in DOMAIN view : /\ follow.group > 0
                                        /\ f - follow.frame <= ContinuityFrames
                                        /\ away(i) <= Reach}
           nearest == CHOOSE i \in near :
                          \A j \in near : away(i) < away(j) \/ (away(i) = away(j) /\ i <= j)
<1>1. PICK n \in Nat : n = Len(view) /\ DOMAIN view = 1 .. n /\ n # 0
  BY ViewsAssumption
<1>2. ASSUME NEW i \in DOMAIN view PROVE view[i].x \in Int
  <2> QED BY PlateInView DEF Plate
<1>3. ASSUME NEW i \in DOMAIN view PROVE away(i) \in Nat
  <2>1. PICK a \in Int, b \in Int : a = view[i].x /\ b = follow.x
    BY <1>2
  <2>2. away(i) = IF a > b THEN a - b ELSE b - a
    BY <2>1
  <2> QED BY <2>2
<1>4. Picked(view, f) = IF near = {} THEN [shown |-> view[1], group |-> follow.group + 1]
                        ELSE [shown |-> view[nearest], group |-> follow.group]
  BY DEF Picked
<1>5. CASE near = {}
  <2>1. 1 \in DOMAIN view
    BY <1>1
  <2>2. Picked(view, f).shown = view[1] /\ Picked(view, f).group = follow.group + 1
    <3> HIDE DEF near, nearest
    <3> QED BY <1>4, <1>5
  <2> QED BY <2>1, <2>2 DEF Continues
<1>6. CASE near # {}
  <2>1. near \subseteq DOMAIN view /\ follow.group > 0
    BY <1>6
  <2> DEFINE T == {away(i) : i \in near}
  <2>2. T \in SUBSET Nat /\ T # {}
    <3> HIDE DEF away, near
    <3> QED BY <1>3, <1>6, <2>1
  <2>3. PICK m \in T : \A y \in T : m <= y
    <3> HIDE DEF T
    <3> QED BY <2>2, Least
  <2> DEFINE U == {i \in near : away(i) = m}
  <2>4. U \in SUBSET Nat /\ U # {}
    <3> HIDE DEF away, near
    <3> QED BY <1>1, <2>1, <2>3
  <2>5. PICK c \in U : \A y \in U : c <= y
    <3> HIDE DEF U
    <3> QED BY <2>4, Least
  <2>6. ASSUME NEW j \in near PROVE away(c) < away(j) \/ (away(c) = away(j) /\ c <= j)
    <3> HIDE DEF away, near
    <3>1. away(c) = m /\ away(j) \in T
      BY <2>5
    <3>2. m <= away(j) /\ m \in Nat /\ away(j) \in Nat
      BY <1>3, <2>1, <2>2, <2>3, <3>1
    <3>3. CASE away(j) = m
      BY <2>5, <3>1, <3>3
    <3>4. CASE away(j) # m
      BY <3>1, <3>2, <3>4
    <3> QED BY <3>3, <3>4
  <2>7. c \in near
    BY <2>5
  <2>8. nearest \in near /\ \A j \in near : away(nearest) < away(j)
                                            \/ (away(nearest) = away(j) /\ nearest <= j)
    <3> HIDE DEF away, near
    <3> QED BY <2>6, <2>7
  <2> HIDE DEF T, U, nearest
  <2>11. /\ nearest \in DOMAIN view /\ away(nearest) <= Reach
         /\ f - follow.frame <= ContinuityFrames
    BY <2>8
  <2>12. view[nearest].car = follow.car \/ Misled(view, f)
    <3> SUFFICES ASSUME view[nearest].car # follow.car, ~Misled(view, f) PROVE FALSE
      OBVIOUS
    <3>1. \A i \in DOMAIN view : FarFrom(view[i].x, follow.x) = away(i)
      BY DEF FarFrom
    <3> HIDE DEF away, near
    <3>2. PICK l \in DOMAIN view :
             ~(FarFrom(view[l].x, follow.x) >= FarFrom(view[nearest].x, follow.x))
      BY <2>1, <2>11, <3>1 DEF Misled
    <3>3. away(l) \in Nat /\ away(nearest) \in Nat /\ Reach \in Nat
      BY <1>3, <2>11, ViewsAssumption
    <3>4. away(l) < away(nearest)
      BY <2>11, <3>1, <3>2, <3>3
    <3>5. away(l) <= Reach
      BY <2>11, <3>3, <3>4
    <3>6. l \in near
      BY <2>1, <2>11, <3>5 DEF near
    <3>7. away(nearest) < away(l) \/ away(nearest) = away(l)
      BY <2>8, <3>6
    <3> QED BY <3>3, <3>4, <3>7
  <2>13. Picked(view, f).shown = view[nearest] /\ Picked(view, f).group = follow.group
    <3> HIDE DEF near, away
    <3> QED BY <1>4, <1>6
  <2> HIDE DEF near, away
  <2> QED BY <2>1, <2>11, <2>12, <2>13 DEF Continues
<1> QED BY <1>5, <1>6

(* A bank is followed: what it holds of one chain that never strayed is of *)
(* one car, no chain in it is yet to come, and the plate followed is of the *)
(* car of its chain.                                                       *)
Followed ==
    /\ bank \in Seq(Observation)
    /\ follow \in [x : Int, frame : Nat, group : Nat, car : Nat]
    /\ \A i, j \in DOMAIN bank :
         bank[i].chain = bank[j].chain /\ bank[i].chain \notin astray
         => bank[i].car = bank[j].car
    /\ \A i \in DOMAIN bank : bank[i].chain <= follow.group
    /\ \A i \in DOMAIN bank :
         bank[i].chain = follow.group /\ follow.group \notin astray
         => bank[i].car = follow.car

(* An observation keeps the bank followed.                                 *)
LEMMA ObservationFollows ==
    ASSUME Followed, NEW view \in Views, NEW crop \in Crops, frame' \in Nat, See(view, crop)
    PROVE  Followed'
<1>0. PICK a : a = astray
  OBVIOUS
<1>1. PICK g \in Nat, b \in Seq(Observation), n \in Nat :
         g = follow.group /\ b = bank /\ n = frame'
  BY DEF Followed
<1>2. follow.x \in Int /\ follow.group \in Nat /\ follow.car \in Nat
  BY DEF Followed
<1>3. PICK pick : pick = Picked(view, n)
  OBVIOUS
<1>4. PICK o : o = [quality |-> crop.quality, look |-> crop.look, frame |-> n,
                    chain |-> pick.group, car |-> pick.shown.car]
  OBVIOUS
<1>5. /\ follow' = [x |-> pick.shown.x, frame |-> n, group |-> pick.group,
                    car |-> pick.shown.car]
      /\ bank' = Banked(b, o)
      /\ astray' = a \cup IF Misled(view, n) THEN {g} ELSE {}
  BY <1>0, <1>1, <1>3, <1>4 DEF See, NoteObservation
<1>6. Continues(pick, view, n)
  BY <1>2, <1>3, NearestIsTheSame
<1>7. PICK i \in DOMAIN view :
         /\ pick.shown = view[i]
         /\ \/ pick.group = g + 1
            \/ pick.group = g /\ g > 0 /\ (view[i].car = follow.car \/ Misled(view, n))
  BY <1>1, <1>6 DEF Continues
<1>8. view[i].x \in Int /\ view[i].car \in Nat
  BY PlateInView DEF Plate
<1>9. PICK h \in Nat, e \in Nat :
         /\ h = pick.group /\ e = pick.shown.car
         /\ h = g + 1 \/ (h = g /\ (e = follow.car \/ g \in astray'))
  BY <1>5, <1>7, <1>8
<1>10. o \in Observation /\ o.chain = h /\ o.car = e
  <2>1. crop.quality \in 0 .. 100 /\ crop.look \in Nat
    BY ReadsAssumption
  <2> QED BY <1>1, <1>4, <1>9, <2>1 DEF Observation
<1>11. /\ bank' \in Seq(Observation)
       /\ \A k \in DOMAIN bank' : bank'[k] = o \/ \E j \in DOMAIN b : bank'[k] = b[j]
  BY <1>1, <1>5, <1>10, BankedIsAmong DEF Among
<1>12. /\ follow' \in [x : Int, frame : Nat, group : Nat, car : Nat]
       /\ follow'.group = h /\ follow'.car = e
  BY <1>1, <1>5, <1>7, <1>8, <1>9
<1>13. a \subseteq astray'
  BY <1>5
<1>14. ASSUME NEW j \in DOMAIN b PROVE b[j].chain \in Nat /\ b[j].chain <= g
  <2>1. b[j] \in Observation
    BY <1>1
  <2> QED BY <1>1, <2>1 DEF Observation, Followed
<1>15. ASSUME NEW j \in DOMAIN b, b[j].chain = h, h \notin astray' PROVE b[j].car = e
  <2>1. h = g /\ e = follow.car
    BY <1>9, <1>14, <1>15
  <2>2. g \notin astray
    BY <1>0, <1>13, <1>15, <2>1
  <2> QED BY <1>1, <1>15, <2>1, <2>2 DEF Followed
<1>16. ASSUME NEW k \in DOMAIN bank'
       PROVE  /\ bank'[k].chain <= h
              /\ bank'[k].chain = h /\ h \notin astray' => bank'[k].car = e
  <2>1. CASE bank'[k] = o
    BY <1>10, <2>1
  <2>2. CASE \E j \in DOMAIN b : bank'[k] = b[j]
    <3>1. PICK j \in DOMAIN b : bank'[k] = b[j]
      BY <2>2
    <3>2. b[j].chain <= h
      BY <1>9, <1>14
    <3> QED BY <1>15, <3>1, <3>2
  <2> QED BY <1>11, <2>1, <2>2
<1>17. ASSUME NEW k \in DOMAIN bank', NEW l \in DOMAIN bank',
              bank'[k].chain = bank'[l].chain, bank'[k].chain \notin astray'
       PROVE  bank'[k].car = bank'[l].car
  <2>1. CASE bank'[k].chain = h
    BY <1>16, <1>17, <2>1
  <2>2. CASE bank'[k].chain # h
    <3>1. bank'[k] # o /\ bank'[l] # o
      BY <1>10, <1>17, <2>2
    <3>2. PICK i1 \in DOMAIN b, j1 \in DOMAIN b : bank'[k] = b[i1] /\ bank'[l] = b[j1]
      BY <1>11, <3>1
    <3>3. bank[i1].chain = bank[j1].chain /\ bank[i1].chain \notin astray
      BY <1>0, <1>1, <1>13, <1>17, <3>2
    <3> QED BY <1>1, <3>2, <3>3 DEF Followed
  <2> QED BY <2>1, <2>2
<1> QED BY <1>11, <1>12, <1>16, <1>17 DEF Followed

(* In every behaviour the bank stays followed.                             *)
LEMMA BankIsFollowed == Spec => []Followed
<1>1. Init => Followed
  <2> SUFFICES ASSUME Init PROVE Followed
    OBVIOUS
  <2>1. bank = <<>> /\ follow = [x |-> 0, frame |-> 0, group |-> 0, car |-> 0]
    BY DEF Init, EvidenceInit
  <2>2. bank \in Seq(Observation) /\ DOMAIN bank = {}
    BY <2>1
  <2>3. follow \in [x : Int, frame : Nat, group : Nat, car : Nat]
    BY <2>1
  <2> QED BY <2>2, <2>3 DEF Followed
<1>2. ASSUME ReadsTyped, Followed, [Next]_vars PROVE Followed'
  <2>1. CASE Observe
    <3>1. PICK view \in Views, crop \in Crops : See(view, crop)
      BY <2>1 DEF Observe
    <3>2. frame' \in Nat
      BY <1>2, <2>1, ReadsAssumption DEF Observe, ReadsTyped
    <3> QED BY <1>2, <3>1, <3>2, ObservationFollows
  <2>2. CASE Glimpse
    <3>1. PICK q \in Glimpses : See(q.view, q.crop)
      BY <2>2 DEF Glimpse
    <3>2. frame' \in Nat
      BY <1>2, <2>2 DEF Glimpse, ReadsTyped
    <3>3. q.view \in Views /\ q.crop \in Crops
      BY ReadsAssumption
    <3> QED BY <1>2, <3>1, <3>2, <3>3, ObservationFollows
  <2>3. CASE UNCHANGED <<follow, bank, astray>>
    BY <1>2, <2>3 DEF Followed
  <2>4. Read \/ PlateMissed \/ Finish \/ Call \/ UNCHANGED vars => UNCHANGED <<follow, bank, astray>>
    BY DEF Read, AddRead, PlateMissed, NoteVehicle, Finish, Finalize, Call, vars, evidenceVars
  <2> QED BY <1>2, <2>1, <2>2, <2>3, <2>4 DEF Next
<1> QED BY <1>1, <1>2, ReadsAreKept, PTL DEF Spec

(* What the VLM is sent is of one chain and shows one physical plate, no    *)
(* view of it twice, and the best usable view of it is among them, whatever *)
(* came into view in whatever order; only of a chain during which another   *)
(* car's plate was in reach while its own was missed or no nearer may two   *)
(* cars be sent (_pick_candidate, the bank and best_frames).               *)
THEOREM SelectionIsOneVehicleCorrect == Spec => []SelectionIsOneVehicle
<1>1. Followed => SelectionIsOneVehicle
  <2> SUFFICES ASSUME Followed PROVE SelectionIsOneVehicle
    OBVIOUS
  <2> DEFINE sent == SelectBest(bank)
  <2>1. Selected(sent, bank)
    BY WhatIsSelected DEF Followed
  <2> HIDE DEF sent
  <2>2. \A i, j \in DOMAIN sent : i # j => ~SameView(sent[i], sent[j])
    BY <2>1 DEF Selected
  <2>3. \A i \in DOMAIN bank :
           bank[i].quality >= MinQuality
           => /\ sent # <<>>
              /\ bank[i].chain = sent[1].chain => bank[i].quality <= sent[1].quality
    BY <2>1 DEF Selected
  <2>4. PICK c : \A i \in DOMAIN sent : \E j \in DOMAIN bank :
                    sent[i] = bank[j] /\ bank[j].chain = c
    BY <2>1 DEF Selected
  <2>5. \A i, j \in DOMAIN sent :
           /\ sent[i].chain = sent[j].chain
           /\ sent[i].car = sent[j].car \/ sent[i].chain \in astray
    BY <2>4 DEF Followed
  <2> QED BY <2>2, <2>3, <2>5 DEF SelectionIsOneVehicle, sent
<1> QED BY <1>1, BankIsFollowed, PTL
=============================================================================
