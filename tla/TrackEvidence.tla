---------------------------- MODULE TrackEvidence ----------------------------
(***************************************************************************)
(* What a track gathers about its plate and what is concluded from it: the *)
(* bank of observations of TrackState and the crops chosen from it for the *)
(* VLM (events/track_state.py, video/best_frames.py), the reads, their     *)
(* fusion character by character (events/char_fusion.py), the verdict of   *)
(* MultiFrameValidator, and the pictures that go with it.  Probabilities,  *)
(* qualities and weights are in hundredths and rounded down.  A look of 0  *)
(* is a crop without appearance hash; the Hamming distance of two hashes   *)
(* is the distance of two numbers.                                         *)
(***************************************************************************)
EXTENDS PlateText

CONSTANTS
    Keep, BestK, MinQuality, MinHamming, MinFrameGap,   \* bank and selection
    Reach, ContinuityFrames,      \* plate_continuity_*, in units of position
    MaxHypotheses,                                      \* MAX_HYPOTHESES
    MaxHeld, KeptReads,           \* add_read(): from 60 reads to the 40 heaviest
    MinReads, DropLowConfidence,                        \* ValidationConfig
    Registry                                            \* plate -> status

VARIABLES follow,     \* last_plate_bbox, last_plate_frame and plate_group
          bank,       \* TrackState.plate_observations
          overall,    \* the best crops of the track, whatever they show
          reads,      \* TrackState.reads
          evidence,   \* TrackState.hypothesis_evidence: text -> its best crops
          said,       \* to check by: every text read so far
          verdict     \* once final: the fused characters, the FinalPlate if any

evidenceVars == <<follow, bank, overall, reads, evidence, said, verdict>>

(* ValidationConfig and char_fusion, as shipped.                           *)
MinReadWeight == 5
StrongSupport == 60
SupportMargin == 15
MinFinal == 55
Confirm == 80
SnapBelow == 85
SnapProtect == 80
CapIncomplete == 35
CapNoFormat == 50
CapUnknownState == 75
MinPosterior == 55
MinCharMargin == 20
GrammarFloor == 85
CharMinWeight == 70
MaxUnstable == 34
ClusterDistance == 6
ClusterFrameGap == 4

Distinct(a, b, distance) == a = 0 \/ b = 0 \/ a - b >= distance \/ b - a >= distance

-----------------------------------------------------------------------------
(* The bank.  An observation is [quality, look, frame, chain], and, to     *)
(* check it by, the car that wears the plate, as "follow" has it too.      *)
(* Mutant: without a plate nearby the chain goes on with the surest one.   *)
PickedAnyway(view, frame) ==
    [shown |-> view[1], group |-> IF follow.group = 0 THEN 1 ELSE follow.group]

(* _pick_candidate(): of the plates in view that may belong to the vehicle *)
(* (the surest first) the one nearest the plate followed so far, if it is  *)
(* in reach of it; else the surest starts a new chain.                     *)
Picked(view, frame) ==
    LET away(i) == IF view[i].x > follow.x THEN view[i].x - follow.x ELSE follow.x - view[i].x
        near == {i \in DOMAIN view : /\ follow.group > 0
                                     /\ frame - follow.frame <= ContinuityFrames
                                     /\ away(i) <= Reach}
        nearest == CHOOSE i \in near :
                      \A j \in near : away(i) < away(j) \/ (away(i) = away(j) /\ i <= j)
    IN IF near = {} THEN [shown |-> view[1], group |-> follow.group + 1]
       ELSE [shown |-> view[nearest], group |-> follow.group]

Worst(B) == CHOOSE i \in DOMAIN B :
                /\ \A j \in DOMAIN B : B[i].quality <= B[j].quality
                /\ \A j \in 1 .. i - 1 : B[i].quality < B[j].quality

(* note_observation(): collapse with the first near-identical view held,   *)
(* else take a slot and let the worst go.                                  *)
Banked(B, o) ==
    LET similar == {i \in DOMAIN B : ~Distinct(o.look, B[i].look, MinHamming)}
        longer == Append(B, o)
    IN IF similar # {}
       THEN IF o.quality > B[Min(similar)].quality
            THEN ReplaceAt(B, Min(similar), o) ELSE B
       ELSE IF Len(longer) > Keep THEN RemoveAt(longer, Worst(longer)) ELSE longer

Usable(B) == Kept(B, {i \in DOMAIN B : B[i].quality >= MinQuality})

Chains(B) == {B[i].chain : i \in DOMAIN B}

SumOf(s) ==
    LET upTo[i \in 0 .. Len(s)] == IF i = 0 THEN 0 ELSE upTo[i - 1] + s[i]
    IN upTo[Len(s)]

(* The best of the observations at the positions in S.                     *)
BestOf(B, S) ==
    CHOOSE i \in S : \A j \in S :
        B[i].quality > B[j].quality \/ (B[i].quality = B[j].quality /\ i <= j)

BestFirst(B) ==
    LET left[k \in 0 .. Len(B)] ==
            IF k = 0 THEN DOMAIN B ELSE left[k - 1] \ {BestOf(B, left[k - 1])}
    IN [k \in DOMAIN B |-> B[BestOf(B, left[k - 1])]]

ChainOf(B, c) == Kept(B, {i \in DOMAIN B : B[i].chain = c})

ChainEvidence(B, c) ==
    LET best == ChainOf(B, c)
    IN SumOf([k \in 1 .. Min({BestK, Len(best)}) |-> best[k].quality])

FirstOf(B, c) == Min({i \in DOMAIN B : B[i].chain = c})

(* The pool (best first) of the one plate with the most evidence.          *)
DominantChain(B) ==
    IF B = <<>> THEN B
    ELSE ChainOf(B, CHOOSE c \in Chains(B) :
            \A d \in Chains(B) : \/ ChainEvidence(B, c) > ChainEvidence(B, d)
                                 \/ /\ ChainEvidence(B, c) = ChainEvidence(B, d)
                                    /\ FirstOf(B, c) <= FirstOf(B, d))

SameView(a, b) ==
    \/ a.frame - b.frame \in -(MinFrameGap - 1) .. MinFrameGap - 1
    \/ ~Distinct(a.look, b.look, MinHamming)

Redundant(chosen, o) ==
    Len(chosen) >= BestK \/ \E i \in DOMAIN chosen : SameView(o, chosen[i])

(* The selection from a pool, best first.                                  *)
Diverse(pool) ==
    LET chosen[k \in 0 .. Len(pool)] ==
            IF k = 0 THEN <<>>
            ELSE IF Redundant(chosen[k - 1], pool[k]) THEN chosen[k - 1]
            ELSE Append(chosen[k - 1], pool[k])
    IN chosen[Len(pool)]

(* select_best()                                                           *)
SelectBest(B) == Diverse(DominantChain(BestFirst(Usable(B))))

(* A crop is what was read from its frame, and <<>> when nobody read it.   *)
Unread == <<>>

(* The best crop of the plate, unless the bank has let it go (release()),  *)
(* and, where the frame has one ("whole"), of the vehicle: _refresh_best() *)
(* and note_vehicle_crop().                                                *)
BestWith(crop, quality, held, whole) ==
    LET plate == held /\ quality >= overall.plateQuality
        vehicle == whole /\ (overall.vehicle = {} \/ quality >= overall.vehicleQuality)
    IN [plate          |-> IF plate THEN {crop} ELSE overall.plate,
        plateQuality   |-> IF plate THEN quality ELSE overall.plateQuality,
        vehicle        |-> IF vehicle THEN {crop} ELSE overall.vehicle,
        vehicleQuality |-> IF vehicle THEN quality ELSE overall.vehicleQuality]

(* _observe_plate(), for a frame in which no plate is found: the first     *)
(* crop of the vehicle is kept.                                            *)
NoteVehicle ==
    /\ overall.vehicle = {}
    /\ overall' = [overall EXCEPT !.vehicle = {Unread}]
    /\ UNCHANGED <<follow, bank, reads, evidence, said, verdict>>

(* _observe_plate(), for a frame whose crop has this quality and look.     *)
NoteObservation(view, quality, look, frame) ==
    LET pick == Picked(view, frame)
        seen == [quality |-> quality, look |-> look, frame |-> frame,
                 chain |-> pick.group, car |-> pick.shown.car] IN
    /\ follow' = [x |-> pick.shown.x, frame |-> frame, group |-> pick.group,
                  car |-> pick.shown.car]
    /\ bank' = Banked(bank, seen)
    /\ overall' = BestWith(Unread, quality, seen \in Range(bank'), TRUE)
    /\ UNCHANGED <<reads, evidence, said, verdict>>

-----------------------------------------------------------------------------
(* The reads.  A read is [text, rec, weak, quality, weight, look, frame]:  *)
(* the recognizer gave every character the probability rec, but 40 to the  *)
(* one at position "weak" (0: none).                                       *)
CharConfidence(r, i) == IF i = r.weak THEN 40 ELSE r.rec

(* WeightedRead.weight, for a detector sure of its box: the confidence to *)
(* the power of 1.5, the quality and the grammar factor.                   *)
WeightOf(text, rec, quality) ==
    LET sharp == CHOOSE s \in 0 .. 100 :
            /\ 100 * s * s <= rec * rec * rec
            /\ rec * rec * rec < 100 * (s + 1) * (s + 1)
    IN (sharp * quality * GrammarFactor(text)) \div 10000

(* The first read of each cluster of near-identical views.                 *)
ClusterHead(R) ==
    LET head[i \in DOMAIN R] ==
            LET near == {j \in 1 .. i - 1 :
                            /\ head[j] = j
                            /\ R[j].look # 0
                            /\ ~Distinct(R[i].look, R[j].look, ClusterDistance)
                            /\ R[i].frame - R[j].frame \in -ClusterFrameGap .. ClusterFrameGap}
            IN IF R[i].look = 0 \/ near = {} THEN i ELSE Min(near)
    IN head

(* 1 / sqrt(n)                                                             *)
RootShare(n) ==
    CHOOSE s \in 0 .. 100 : n * s * s <= 10000 /\ 10000 < n * (s + 1) * (s + 1)

(* _independence_scale(): n looks at one view weigh as the root of n.      *)
Effective(R) ==
    LET head == ClusterHead(R) IN
    [i \in DOMAIN R |->
        R[i].weight * RootShare(Cardinality({j \in DOMAIN R : head[j] = head[i]}))]

SumOver(S, s) == SumOf([i \in DOMAIN s |-> IF i \in S THEN s[i] ELSE 0])

(* What the reads in S vote for, value[i] with weight[i]: the candidates,  *)
(* as [value, weight, first] with the first read that says so.             *)
Candidates(S, value, weight) ==
    {LET same == {i \in S : value[i] = v}
     IN [value |-> v, weight |-> SumOver(same, weight), first |-> Min(same)] :
        v \in {value[i] : i \in S}}

(* The one with the most weight; of several, the one seen first.           *)
Heaviest(C) ==
    CHOOSE a \in C : \A b \in C :
        a.weight > b.weight \/ (a.weight = b.weight /\ a.first <= b.first)

(* Mutant: the mass the recognizer withheld is left out.                   *)
WithheldIgnored(R, w, pool, p) ==
    SumOver(pool, [i \in DOMAIN R |-> w[i] * CharConfidence(R[i], p)])

(* All the mass at one position, the unknown bucket included.              *)
MassAt(R, w, pool, p) == SumOver(pool, [i \in DOMAIN R |-> w[i] * 100])

(* One position: its character, the best competitor and both posteriors.   *)
Fused(R, w, pool, p) ==
    LET total == MassAt(R, w, pool, p)
        chars == Candidates(pool, [i \in pool |-> R[i].text[p]],
                            [i \in DOMAIN R |-> w[i] * CharConfidence(R[i], p)])
        best == Heaviest(chars)
        others == chars \ {best}
        second == Heaviest(others)
    IN [char |-> best.value, posterior |-> (100 * best.weight) \div total,
        runner |-> IF others = {} THEN {} ELSE {second.value},
        against |-> IF others = {} THEN 0 ELSE (100 * second.weight) \div total]

(* _apply_grammar(): a runner-up that the format excludes does not count.  *)
Corroborated(f, kind) ==
    IF f.char \in Allowed(kind) /\ f.runner # {} /\ f.runner \cap Allowed(kind) = {}
    THEN [f EXCEPT !.posterior = Max({@, GrammarFloor})] ELSE f

WithGrammar(positions) ==
    LET text == [p \in DOMAIN positions |-> positions[p].char]
        fmt == MatchFormat(text)
    IN IF fmt = {} THEN positions
       ELSE LET mask == (CHOOSE f \in fmt : TRUE).mask
            IN [p \in DOMAIN positions |-> Corroborated(positions[p], mask[p])]

(* fuse(): one verdict per position of the modal length, or nothing.       *)
Fuse(R, w) ==
    LET modal == Heaviest(Candidates(DOMAIN R, [i \in DOMAIN R |-> Len(R[i].text)], w))
        pool == {i \in DOMAIN R : Len(R[i].text) = modal.value}
    IN IF R = <<>> THEN <<>>
       ELSE IF Cardinality(pool) < 2 \/ modal.weight = 0 THEN <<>>
       ELSE WithGrammar([p \in 1 .. modal.value |-> Fused(R, w, pool, p)])

FusedText(F) == [p \in DOMAIN F |-> F[p].char]

Unstable(F) ==
    {p \in DOMAIN F : \/ F[p].posterior < MinPosterior
                      \/ F[p].runner # {} /\ F[p].posterior - F[p].against < MinCharMargin}

CharSupport(F) ==
    LET posts == [p \in DOMAIN F |-> F[p].posterior]
    IN (CharMinWeight * Min(Range(posts))
        + (100 - CharMinWeight) * (SumOf(posts) \div Len(posts))) \div 100

-----------------------------------------------------------------------------
Weights(R) == [i \in DOMAIN R |-> R[i].weight]

TextVotes(R) == Candidates(DOMAIN R, [i \in DOMAIN R |-> R[i].text], Weights(R))

(* _vote(): the text and its support.                                      *)
Vote(R, F) ==
    LET votes == TextVotes(R)
        total == SumOf(Weights(R))
        best == Heaviest(votes)
        support == (100 * best.weight) \div total
        second == (100 * Max({v.weight : v \in votes \ {best}} \cup {0})) \div total
    IN IF F = <<>> \/ (support >= StrongSupport /\ support - second >= SupportMargin)
       THEN [text |-> best.value, support |-> support]
       ELSE [text |-> FusedText(F), support |-> CharSupport(F)]

Neighbours(plate) == {q \in DOMAIN Registry : Confusable(plate, q)}

(* _snap_to_registry(), with its three refusals.                           *)
Snapped(plate, F) ==
    LET hit == CHOOSE q \in Neighbours(plate) : TRUE
    IN IF \/ plate \in DOMAIN Registry
          \/ Cardinality(Neighbours(plate)) # 1
          \/ Registry[hit] = "blacklist"
          \/ \E p \in Differences(plate, hit) \cap DOMAIN F : F[p].posterior >= SnapProtect
       THEN plate ELSE hit

Cap(plate) ==
    IF IsFragment(plate) THEN CapIncomplete
    ELSE IF MatchFormat(plate) = {} THEN CapNoFormat
    ELSE IF ~IsValid(plate) THEN CapUnknownState ELSE 100

(* The read's own confidence, averaged by weight.                          *)
OcrConfidence(R) ==
    SumOf([i \in DOMAIN R |-> R[i].rec * R[i].weight]) \div Max({1, SumOf(Weights(R))})

(* Mean character confidence of the reads that agree, when nothing fused.  *)
AgreedSupport(R, plate) ==
    LET same == {i \in DOMAIN R : R[i].text = plate}
        pool == IF same = {} THEN DOMAIN R ELSE same
    IN SumOver(pool, [i \in DOMAIN R |->
                        SumOf([p \in DOMAIN R[i].text |-> CharConfidence(R[i], p)])])
       \div SumOver(pool, [i \in DOMAIN R |-> Len(R[i].text)])

AnprConfidence(R, F, plate, support) ==
    Min({Cap(plate),
         (35 * support
          + 35 * (IF F = <<>> THEN AgreedSupport(R, plate) ELSE CharSupport(F))
          + 15 * OcrConfidence(R)
          + 15 * Max({R[i].quality : i \in DOMAIN R})) \div 100})

(* _classify()                                                             *)
Classify(confidence, plate, unstable) ==
    IF \/ IsFragment(plate)
       \/ confidence < MinFinal
       \/ 100 * unstable > MaxUnstable * Len(plate)
    THEN "unresolved"
    ELSE IF confidence >= Confirm /\ IsValid(plate) /\ unstable = 0 THEN "confirmed"
    ELSE "probable"

Ballot(R) ==
    Kept(R, {i \in DOMAIN R : R[i].weight >= MinReadWeight /\ ~IsFragment(R[i].text)})

(* The plate that fusion, vote, repair and registry arrive at.             *)
Concluded(R, F) ==
    LET vote == Vote(R, F)
        repaired == Repair(vote.text).text
    IN [text |-> IF vote.support < SnapBelow THEN Snapped(repaired, F) ELSE repaired,
        support |-> vote.support]

(* _unresolved(): the heaviest read, and that it is not believed.          *)
Unresolved(all) ==
    [text |-> all[CHOOSE i \in DOMAIN all : \A j \in DOMAIN all :
                    \/ all[i].weight > all[j].weight
                    \/ all[i].weight = all[j].weight /\ i <= j].text,
     state |-> "unresolved"]

(* validate(): a FinalPlate, or nothing.  R is the ballot of all the       *)
(* reads, F its fusion and c what was concluded from them.                 *)
Validate(all, R, F, c) ==
    LET state == Classify(AnprConfidence(R, F, c.text, c.support), c.text,
                          Cardinality(Unstable(F)))
    IN IF Len(R) < MinReads
       THEN IF all = <<>> \/ DropLowConfidence THEN {} ELSE {Unresolved(all)}
       ELSE IF state = "unresolved" /\ DropLowConfidence THEN {}
       ELSE {[text |-> c.text, state |-> state]}

-----------------------------------------------------------------------------
(* PlateHypothesisEvidence.consider(): a text keeps the best crops of its  *)
(* own reads.  A retry or a deferred read has no crop of the vehicle.      *)
BestCrops(E, r, whole) ==
    LET old == IF r.text \in DOMAIN E THEN E[r.text]
               ELSE [plate |-> {}, plateQuality |-> -1, vehicle |-> {}, vehicleQuality |-> -1]
        plate == r.quality > old.plateQuality
        vehicle == whole /\ r.quality > old.vehicleQuality
        new == [plate          |-> IF plate THEN {r.text} ELSE old.plate,
                plateQuality   |-> IF plate THEN r.quality ELSE old.plateQuality,
                vehicle        |-> IF vehicle THEN {r.text} ELSE old.vehicle,
                vehicleQuality |-> IF vehicle THEN r.quality ELSE old.vehicleQuality]
    IN [t \in DOMAIN E \cup {r.text} |-> IF t = r.text THEN new ELSE E[t]]

Strength(e) == Max({e.plateQuality, e.vehicleQuality})

(* _note_hypothesis(): when there are too many texts the weakest goes,     *)
(* unless it is the one just read.                                         *)
Hypotheses(E, r, whole) ==
    LET better == BestCrops(E, r, whole)
        weakest == {t \in DOMAIN better :
                       \A u \in DOMAIN better : Strength(better[t]) <= Strength(better[u])}
    IN IF Cardinality(DOMAIN better) <= MaxHypotheses THEN {better}
       ELSE {[u \in (DOMAIN better \ {t}) \cup {r.text} |-> better[u]] : t \in weakest}

(* Mutant: the best crop of the track, whatever was read from it.          *)
BestOverall(E, plate) ==
    {t \in DOMAIN E : \A u \in DOMAIN E : Strength(E[u]) <= Strength(E[t])}

Compatible(E, plate) == {t \in DOMAIN E : SameVehicle(t, plate)}

(* evidence_for(): the text whose crops show the plate.                    *)
EvidenceFor(E, plate) ==
    LET likeness(t) == (100 * (Max({Len(t), Len(plate)}) - EditDistance(t, plate)))
                       \div Max({Len(t), Len(plate)})
    IN IF plate \in DOMAIN E THEN {plate}
       ELSE {t \in Compatible(E, plate) :
               \A u \in Compatible(E, plate) :
                  \/ likeness(t) > likeness(u)
                  \/ likeness(t) = likeness(u) /\ Strength(E[t]) >= Strength(E[u])}

(* Of two reads of one weight the earlier stays.                           *)
Outweighs(R, j, i) ==
    R[j].weight > R[i].weight \/ (R[j].weight = R[i].weight /\ j < i)

(* The cap on the reads of a long dwell; they come in order of their       *)
(* frames, and stay in it.                                                 *)
Capped(R) ==
    IF Len(R) <= MaxHeld THEN R
    ELSE Kept(R, {i \in DOMAIN R :
                    Cardinality({j \in DOMAIN R : Outweighs(R, j, i)}) < KeptReads})

(* add_read(): what the recognizer saw is decoded or cleaned up before it  *)
(* votes.  "alts" are its runners-up at each position.                     *)
AddRead(raw, alts, rec, weak, quality, look, whole, frame) ==
    LET conf == [i \in DOMAIN raw |-> IF i = weak THEN 40 ELSE rec]
        text == Voted(raw, alts, conf)
        r == [text |-> text, rec |-> rec, weak |-> weak, quality |-> quality,
              weight |-> WeightOf(text, rec, quality), look |-> look, frame |-> frame] IN
    /\ reads' = Capped(Append(reads, r))
    /\ evidence' \in Hypotheses(evidence, r, whole)
    /\ overall' = BestWith(text, quality, TRUE, whole)
    /\ said' = said \cup {text}
    /\ UNCHANGED <<follow, bank, verdict>>

(* _media_fields(): whose crops the event of a plate shows, as the crop of *)
(* the plate, that of the vehicle, and whether the latter was only filled  *)
(* in ("+global_vehicle").                                                 *)
Pictures(plate) ==
    IF Compatible(evidence, plate) = {}
    THEN {[source |-> "fallback_global", crop |-> overall.plate, vehicle |-> overall.vehicle,
           filled |-> FALSE]}
    ELSE {LET e == evidence[t] IN
          [source  |-> IF t = plate THEN "hypothesis" ELSE "derived",
           crop    |-> e.plate,
           vehicle |-> IF e.vehicle = {} THEN overall.vehicle ELSE e.vehicle,
           filled  |-> e.vehicle = {}] : t \in EvidenceFor(evidence, plate)}

(* EventBuilder.build(): the event of a final track, of class A when its   *)
(* plate is confirmed, and without a plate number when it has none.        *)
Drafts ==
    IF verdict.plates = {}
    THEN {[plate |-> {}, class |-> "B",
           shows |-> [source |-> "best_observation", crop |-> overall.plate,
                      vehicle |-> overall.vehicle, filled |-> FALSE]]}
    ELSE UNION {{[plate |-> {v.text}, class |-> IF v.state = "confirmed" THEN "A" ELSE "B",
                  shows |-> p] : p \in Pictures(v.text)} : v \in verdict.plates}

NoVerdict == [fused |-> <<>>, plates |-> {}, final |-> FALSE]

(* The track is final: its reads are validated (fragments and reads that   *)
(* weigh nothing are not on the ballot).                                   *)
Finalize ==
    /\ ~verdict.final
    /\ \E R \in {Ballot(reads)} : \E w \in {Effective(R)} : \E F \in {Fuse(R, w)} :
       \E c \in IF Len(R) < MinReads THEN {NoVerdict} ELSE {Concluded(R, F)} :
        verdict' = [fused |-> F, plates |-> Validate(reads, R, F, c), final |-> TRUE]
    /\ UNCHANGED <<follow, bank, overall, reads, evidence, said>>

EvidenceInit ==
    /\ follow = [x |-> 0, frame |-> 0, group |-> 0, car |-> 0]
    /\ bank = <<>>
    /\ overall = [plate |-> {}, plateQuality |-> 0, vehicle |-> {}, vehicleQuality |-> 0]
    /\ reads = <<>>
    /\ evidence = <<>>
    /\ said = {}
    /\ verdict = NoVerdict
==============================================================================
