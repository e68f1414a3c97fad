----------------------------- MODULE PlateReading -----------------------------
(***************************************************************************)
(* The evidence of one track, gathered step by step, together with single  *)
(* calls of the pure functions it rests on.  A behaviour is either a track *)
(* being observed, a track being read, or one call ("input") of a function *)
(* of PlateText or GateGeometry; they do not meet.                         *)
(***************************************************************************)
EXTENDS TrackEvidence, GateGeometry

CONSTANTS
    Views,             \* plates in view, surest first, as [car, x]
    Crops,             \* what the chosen crop may be: [quality, look]
    Intervals,         \* frames that may pass between two observations
    Glimpses,          \* what is seen of a vehicle being read, but not read
    Recognized,        \* what the recognizer may emit for the vehicle
    LastFrame, MaxReads,                \* bounds on one track
    CallInputs         \* the function calls tried

(* What the callers pass: normalized texts, paths and boxes in pixels.     *)
ASSUME CallsAssumption ==
    \A c \in CallInputs :
        /\ c.function \in {"resolve", "match"} => c.text \in Seq(Alphanumeric)
        /\ c.function = "decode" =>
             /\ c.text \in Seq(Alphanumeric)
             /\ c.alts \in Seq(Seq([char : Alphanumeric \cup Foreign, prob : Nat]))
             /\ c.conf \in Seq(Nat)
             /\ Len(c.alts) = Len(c.text) /\ Len(c.conf) = Len(c.text)
        /\ c.function = "match" => c.registered \in Seq(Seq(Alphanumeric))
        /\ c.function = "finalize" => c.text \in Seq(Range(c.text))
        /\ c.function = "cross" => c.path \in Seq(Int \X Int)
        /\ c.function = "associate" => {c.plate, c.first, c.second} \subseteq Boxes

ASSUME ReadsAssumption ==
    /\ \A s \in Recognized :
         /\ s.raw \in Seq(Alphanumeric) \ {<<>>}
         /\ s.alts \in Seq(Seq([char : Alphanumeric \cup Foreign, prob : Nat]))
         /\ Len(s.alts) = Len(s.raw)
         /\ s.rec \in 0 .. 100 /\ s.weak \in Nat
         /\ s.quality \in 0 .. 100 /\ s.look \in Nat /\ s.whole \in BOOLEAN
    /\ Intervals \subseteq Nat
    /\ \A crop \in Crops : crop.quality \in 0 .. 100 /\ crop.look \in Nat
    /\ \A g \in Glimpses : g.view \in Views /\ g.crop \in Crops
    /\ BestK \in Nat \ {0} /\ Keep \in Nat /\ MinHamming \in Nat
    /\ MinQuality \in Nat /\ MinFrameGap \in Nat /\ MaxHypotheses \in Nat

ASSUME ViewsAssumption ==
    /\ Reach \in Nat
    /\ \A v \in Views : v # <<>> /\ v \in Seq([car : Nat, x : Int])

VARIABLES role,        \* "observed", "read" or "called"
          frame,       \* frames so far
          astray,      \* to check by: the chains that may have changed cars
          input        \* the call, once made

vars == <<evidenceVars, role, frame, astray, input>>

NoCall == [function |-> "none"]

Init ==
    /\ EvidenceInit
    /\ role \in {"observed", "read", "called"}
    /\ frame = 0
    /\ astray = {}
    /\ input = NoCall

FarFrom(a, b) == IF a > b THEN a - b ELSE b - a

(* The plate followed so far is missed or hidden, or not the nearest,      *)
(* while that of another car is in reach: no rule on distances can tell    *)
(* the two apart.                                                          *)
Misled(view, now) ==
    /\ follow.group > 0
    /\ now - follow.frame <= ContinuityFrames
    /\ \E i \in DOMAIN view :
         /\ view[i].car # follow.car
         /\ FarFrom(view[i].x, follow.x) <= Reach
         /\ \A k \in DOMAIN view :
              view[k].car = follow.car
              => FarFrom(view[k].x, follow.x) >= FarFrom(view[i].x, follow.x)

See(view, crop) ==
    /\ NoteObservation(view, crop.quality, crop.look, frame')
    /\ astray' = astray \cup IF Misled(view, frame') THEN {follow.group} ELSE {}

Observe ==
    /\ role = "observed"
    /\ \E gap \in Intervals : frame' = frame + gap /\ frame' <= LastFrame
    /\ \E view \in Views, crop \in Crops : See(view, crop)
    /\ UNCHANGED <<role, input>>

(* A vehicle being read is also seen in frames that nobody reads, with its *)
(* plate in view or without.                                               *)
Glimpse ==
    /\ role = "read"
    /\ ~verdict.final
    /\ frame < MaxReads
    /\ frame' = frame + 1
    /\ \E g \in Glimpses : See(g.view, g.crop)
    /\ UNCHANGED <<role, input>>

PlateMissed ==
    /\ role = "read"
    /\ ~verdict.final
    /\ NoteVehicle
    /\ UNCHANGED <<role, frame, astray, input>>

Read ==
    /\ role = "read"
    /\ ~verdict.final
    /\ frame < MaxReads
    /\ frame' = frame + 1
    /\ \E s \in Recognized :
        AddRead(s.raw, s.alts, s.rec, s.weak, s.quality, s.look, s.whole, frame')
    /\ UNCHANGED <<role, astray, input>>

Finish ==
    /\ role = "read"
    /\ Finalize
    /\ UNCHANGED <<role, frame, astray, input>>

Call ==
    /\ role = "called"
    /\ input = NoCall
    /\ \E c \in CallInputs : input' = c
    /\ UNCHANGED <<evidenceVars, role, frame, astray>>

Next == Observe \/ Glimpse \/ PlateMissed \/ Read \/ Finish \/ Call

Spec == Init /\ [][Next]_vars

-----------------------------------------------------------------------------
(* What the VLM is sent is of one chain and shows one physical plate,      *)
(* whichever of several in view was the surest and however the track       *)
(* jumped between them; a second car can be among it only if, while its    *)
(* chain was followed, the plate of another car was in reach and its own   *)
(* was missed or no nearer.  No view is sent twice, and the best usable    *)
(* one of the plate is sent (best_frames, and _pick_candidate: "doubt      *)
(* resolves toward a new chain").                                          *)
SelectionIsOneVehicle ==
    LET sent == SelectBest(bank) IN
    /\ \A i, j \in DOMAIN sent :
         /\ sent[i].chain = sent[j].chain
         /\ sent[i].car = sent[j].car \/ sent[i].chain \in astray
         /\ i # j => ~SameView(sent[i], sent[j])
    /\ \A i \in DOMAIN bank :
         bank[i].quality >= MinQuality
         => /\ sent # <<>>
            /\ bank[i].chain = sent[1].chain => bank[i].quality <= sent[1].quality

(* Unanimous guessing is not agreement: when the reads fuse, an event one  *)
(* of whose characters no read was sure of is not of class A, unless the   *)
(* format excludes what competed for that place (the header of             *)
(* char_fusion: three reads at 10% once scored 1.0).                       *)
DoubtIsNotConfirmed ==
    LET F == verdict.fused IN
    (F # <<>> /\ \E d \in Drafts : d.class = "A")
    => \A p \in DOMAIN F :
         \/ F[p].runner # {}
         \/ \E i \in DOMAIN reads :
              Len(reads[i].text) = Len(F) /\ CharConfidence(reads[i], p) >= MinPosterior

(* The pictures of an event come from reads of its plate, or of a text     *)
(* that plausibly is the same vehicle's when no read said the plate; the   *)
(* crop of the vehicle may be another one's only if it is said to be       *)
(* filled in.  Only when no text read on the track is like the plate does  *)
(* the event show the track's best crops, whatever they show.  The last    *)
(* two hold as long as the track was not read as more texts than           *)
(* MAX_HYPOTHESES (_media_fields: a plate was stored with the photo of     *)
(* another car).                                                           *)
ImagesBelongToPlate ==
    \A d \in Drafts : \A plate \in d.plate :
        LET p == d.shows
            like == {t \in said : SameVehicle(t, plate)}
        IN /\ p.source # "fallback_global"
              => \E t \in like : /\ p.crop = {t}
                                 /\ p.vehicle = {t} \/ p.filled
                                 /\ p.source = "hypothesis" => t = plate
           /\ Cardinality(said) <= MaxHypotheses
              => /\ p.source = "fallback_global" => like = {}
                 /\ p.source = "derived" => plate \notin said

-----------------------------------------------------------------------------
(* The valid plates that repair may turn a text into, said without formats *)
(* and masks: one likely confusion per differing place.                    *)
RepairTargets(text) ==
    {q \in {[i \in DOMAIN text |-> IF i \in S
                THEN CHOOSE c \in Candidate(text[i], "A") \cup Candidate(text[i], "N") : TRUE
                ELSE text[i]] :
              S \in {T \in SUBSET DOMAIN text :
                       /\ Cardinality(T) <= MaxFixes
                       /\ \A i \in T : Candidate(text[i], "A") \cup Candidate(text[i], "N") # {}}} :
       IsValid(q)}

(* A valid text is left alone; a repaired one is the only valid plate so   *)
(* few confusions away, and trimming is tried only when nothing else is    *)
(* left (resolve, repair and trim_noise: "inventing one is worse than      *)
(* reporting the misread").                                                *)
RepairIsUnique ==
    input.function = "resolve" =>
        LET text == input.text
            result == Resolve(text).text
            targets == RepairTargets(text)
            nearest == {q \in targets : \A r \in targets :
                          Cardinality(Differences(text, q)) <= Cardinality(Differences(text, r))}
        IN IF IsValid(text) THEN result = text
           ELSE IF Cardinality(nearest) = 1 THEN result \in nearest
           ELSE result = text \/ (Len(result) < Len(text) /\ IsValid(result))

(* What the decoder changes, the recognizer had seen: the result is valid, *)
(* each changed character was a probable enough runner-up at its place,    *)
(* and a text that is already a plate is not touched (grammar_decode).     *)
DecodeIsBacked ==
    input.function = "decode" =>
        LET result == Decode(input.text, input.alts, input.conf).text IN
        \/ result = input.text
        \/ /\ ~IsValid(input.text)
           /\ IsValid(result)
           /\ Cardinality(Differences(input.text, result)) <= MaxSubstitutions
           /\ \A i \in Differences(input.text, result) :
                \E a \in Range(input.alts[i]) :
                    /\ a.char = result[i]
                    /\ a.prob >= MinProb
                    /\ 100 * a.prob >= MinRatio * input.conf[i]

(* The registry answers with one resident or none, and the order in which  *)
(* it lists them does not matter: no other plate in reach costs less than  *)
(* the margin more (best_registry_match; an empty entry is no plate).      *)
OneResident ==
    input.function = "match" =>
        \A q \in BestRegistryMatch(input.text, input.registered) :
            \/ q = input.text
            \/ \A r \in Range(input.registered) \ {q, <<>>} :
                 \/ Len(r) - Len(input.text) \notin -MaxLengthDelta .. MaxLengthDelta
                 \/ RegistryCost(input.text, r) >= RegistryCost(input.text, q) + MinMargin

(* Every character of a read keeps its own confidence and runners-up       *)
(* through normalization (PlateRecognizer.finalize: "worse than absent").  *)
EvidenceStaysAligned ==
    input.function = "finalize" /\ Range(input.text) \cap Foreign = {} =>
        \A r \in FinalizeRead(input.text) :
            \A i \in DOMAIN r.text : input.text[r.evidence[i]] = r.text[i]

(* How far along the line a point lies, times the line's length.           *)
Along(p) == (LineB[1] - LineA[1]) * (p[1] - LineA[1])
            + (LineB[2] - LineA[2]) * (p[2] - LineA[2])

(* A path that starts on one side and ends on the other, and on its way    *)
(* stays between the ends of the gate, is never missed, also when it       *)
(* lands on the line itself; one that stays beyond an end never counts     *)
(* (VirtualLine.check and crosses_segment), whichever way the gate runs.   *)
NoCrossingMissed ==
    input.function = "cross" =>
        LET path == input.path
            across == /\ {1, Len(path)} \subseteq Significant(path)
                      /\ (Side(path[1]) > 0) # (Side(Last(path)) > 0)
            between == \A i \in DOMAIN path : Along(path[i]) \in 1 .. Along(LineB) - 1
            beyond == \/ \A i \in DOMAIN path : Along(path[i]) < 0
                      \/ \A i \in DOMAIN path : Along(path[i]) > Along(LineB)
        IN /\ across /\ between
              => Crossing(path) = IF Side(Last(path)) > 0 THEN "in" ELSE "out"
           /\ beyond => Crossing(path) = "none"

(* Two vehicles side by side or one behind the other cannot both be given  *)
(* the same plate (validate: "the plate of the vehicle BEHIND this one").  *)
OnePlateOneVehicle ==
    input.function = "associate" =>
        ~(/\ MayBeFollowed(input.plate, input.first)
          /\ MayBeFollowed(input.plate, input.second)
          /\ InsideArea(input.first, input.second) = 0)
===============================================================================
