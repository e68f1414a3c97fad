------------------------------- MODULE PlateText -------------------------------
(***************************************************************************)
(* The text of a plate: the grammar, the repair of a misread and the match *)
(* with the registry (ai/plate_recognizer/postprocess.py), the re-decoding *)
(* from the recognizer's own runners-up (grammar_decode.py), and the       *)
(* alignment of a read with its evidence (base.py).  A plate is a sequence *)
(* of characters; the alphabet, the confusions and the sizes of the        *)
(* formats are parameters, so that every short string can be tried.        *)
(***************************************************************************)
EXTENDS Integers, FiniteSets, Sequences, FiniteSetsExt, SequencesExt

CONSTANTS
    Letter, Digit,             \* the characters of each type
    Foreign,                   \* other characters str.isalnum() accepts
    ToAlpha, ToDigit,          \* DIGIT_TO_ALPHA, ALPHA_TO_DIGIT: char -> Seq
    SameType,                  \* SAME_TYPE_CONFUSIONS, as sets of two
    StateCodes,                \* STATE_CODES, as pairs of letters
    Districts, Series, Numbers, MinGenerated,  \* what _standard_formats spans
    Marked,                    \* bh_series and the like: [mask, literal]
    Hologram,                  \* the leading tokens of _LEADING_NOISE
    MinLen, MaxLen, MinComplete,   \* MIN_LEN, MAX_LEN, MIN_COMPLETE_LEN
    MaxFixes, MaxLead, MaxTail,
    MinProb, MinRatio, MaxSubstitutions, StateRatio,
    CostConfusable, CostSub, CostIndel, MaxCost, MinMargin, MaxLengthDelta

Alphanumeric == Letter \cup Digit

(* The confusions go from each type to the other (DIGIT_TO_ALPHA and       *)
(* ALPHA_TO_DIGIT); a shape with a state code spells out none of it.       *)
ASSUME AlphabetAssumption ==
    /\ Letter \cap Digit = {}
    /\ DOMAIN ToAlpha \subseteq Digit
    /\ \A c \in DOMAIN ToAlpha : ToAlpha[c] \in Seq(Letter) \ {<<>>}
    /\ DOMAIN ToDigit \subseteq Letter
    /\ \A c \in DOMAIN ToDigit : ToDigit[c] \in Seq(Digit) \ {<<>>}

ASSUME FormatsAssumption ==
    /\ Districts \subseteq Nat /\ Series \subseteq Nat /\ Numbers \subseteq Nat
    /\ \A f \in Marked :
         /\ f.mask \in Seq({"A", "N"}) /\ Len(f.mask) >= 2
         /\ DOMAIN f.literal \subseteq DOMAIN f.mask
         /\ 1 \in DOMAIN f.literal \/ 2 \in DOMAIN f.literal
            => ~(f.mask[1] = "A" /\ f.mask[2] = "A")
    /\ MinLen \in Nat \ {0}
    /\ MaxFixes \in Nat /\ MaxLead \in Nat /\ MaxTail \in Nat
    /\ MinProb \in Nat /\ MinRatio \in Nat /\ MaxSubstitutions \in Nat
    /\ {CostConfusable, CostSub, CostIndel, MaxCost, MinMargin} \subseteq Nat
    /\ Hologram \subseteq Seq(Alphanumeric)

(* The elements of s at the positions in S, in the order they have in s.   *)
Kept(s, S) ==
    LET upTo[i \in 0 .. Len(s)] ==
            IF i = 0 THEN <<>>
            ELSE IF i \in S THEN Append(upTo[i - 1], s[i]) ELSE upTo[i - 1]
    IN upTo[Len(s)]

Repeat(kind, n) == [i \in 1 .. n |-> kind]

(* STATE + DISTRICT + SERIES + NUMBER, in every combination long enough.   *)
StandardFormats ==
    {[mask |-> Repeat("A", 2) \o Repeat("N", q[1]) \o Repeat("A", q[2]) \o Repeat("N", q[3]),
      literal |-> <<>>] :
        q \in {r \in Districts \X Series \X Numbers :
                  2 + r[1] + r[2] + r[3] >= MinGenerated}}

Formats == Marked \cup StandardFormats

Allowed(kind) == IF kind = "A" THEN Letter ELSE Digit

Fits(plate, mask) ==
    /\ Len(plate) = Len(mask)
    /\ \A i \in DOMAIN mask : plate[i] \in Allowed(mask[i])

Matches(plate, fmt) ==
    /\ Fits(plate, fmt.mask)
    /\ \A i \in DOMAIN fmt.literal : plate[i] = fmt.literal[i]

(* Masks of one length differ, so at most one format matches.              *)
MatchFormat(plate) == {f \in Formats : Matches(plate, f)}

HasStateCode(fmt) == fmt.mask[1] = "A" /\ fmt.mask[2] = "A"

IsValid(plate) ==
    \E f \in MatchFormat(plate) :
        HasStateCode(f) => SubSeq(plate, 1, 2) \in StateCodes

IsFragment(plate) == Len(plate) < MinComplete /\ ~IsValid(plate)

LooksPlateIsh(plate) ==
    /\ Len(plate) >= 2
    /\ plate[1] \in Letter
    /\ plate[2] \in Letter
    /\ Cardinality({i \in DOMAIN plate : plate[i] \in Digit}) >= 3

(* The "g" of a read's weight, in hundredths.                              *)
GrammarFactor(plate) ==
    CASE plate = <<>>                                  -> 0
      [] plate # <<>> /\ IsValid(plate)                -> 100
      [] plate # <<>> /\ IsFragment(plate)             -> 25
      [] OTHER -> IF MatchFormat(plate) # {} THEN 75
                  ELSE IF Len(plate) \in MinLen .. MaxLen /\ LooksPlateIsh(plate)
                       THEN 60 ELSE 35

-----------------------------------------------------------------------------
(* The most likely character of the wanted type, if there is one.          *)
Candidate(char, kind) ==
    IF kind = "A" THEN IF char \in DOMAIN ToAlpha THEN {Head(ToAlpha[char])} ELSE {}
    ELSE IF char \in DOMAIN ToDigit THEN {Head(ToDigit[char])} ELSE {}

Misfits(plate, mask) == {i \in DOMAIN mask : plate[i] \notin Allowed(mask[i])}

(* What repair() makes of a plate under one format, with its cost.         *)
RepairsUnder(plate, fmt) ==
    LET wrong == Misfits(plate, fmt.mask)
        fixed == [i \in DOMAIN plate |->
                    IF i \in wrong THEN CHOOSE c \in Candidate(plate[i], fmt.mask[i]) : TRUE
                    ELSE plate[i]]
    IN IF \/ Len(plate) # Len(fmt.mask)
          \/ Cardinality(wrong) > MaxFixes
          \/ \E i \in wrong : Candidate(plate[i], fmt.mask[i]) = {}
       THEN {}
       ELSE IF IsValid(fixed) THEN {[text |-> fixed, fixes |-> Cardinality(wrong)]} ELSE {}

Cheapest(solutions) ==
    {s \in solutions : \A t \in solutions : s.fixes <= t.fixes}

Unchanged(plate) == [text |-> plate, repaired |-> FALSE]

(* The one text among the solutions, or the plate as it was.               *)
Decided(plate, solutions) ==
    LET texts == {s.text : s \in solutions}
    IN IF Cardinality(texts) = 1
       THEN [text |-> CHOOSE t \in texts : TRUE, repaired |-> TRUE]
       ELSE Unchanged(plate)

(* Mutant: the first solution wins, ambiguous or not.                      *)
RepairGuessing(plate) ==
    LET solutions == Cheapest(UNION {RepairsUnder(plate, f) : f \in Formats})
    IN IF plate = <<>> \/ IsValid(plate) \/ solutions = {} THEN Unchanged(plate)
       ELSE [text |-> (CHOOSE s \in solutions : TRUE).text, repaired |-> TRUE]

(* repair()                                                                *)
Repair(plate) ==
    IF plate = <<>> \/ IsValid(plate) THEN Unchanged(plate)
    ELSE Decided(plate, Cheapest(UNION {RepairsUnder(plate, f) : f \in Formats}))

Trimmed(plate, lead, tail) == SubSeq(plate, lead + 1, Len(plate) - tail)

(* What one trim leaves, when that is or repairs to a valid plate.         *)
TrimSolutions(plate, lead, tail) ==
    LET rest == Trimmed(plate, lead, tail)
    IN IF Len(rest) < MinLen THEN {}
       ELSE IF IsValid(rest) THEN {[text |-> rest, fixes |-> lead + tail, lead |-> lead]}
       ELSE IF Repair(rest).repaired
            THEN {[text |-> Repair(rest).text, fixes |-> lead + tail, lead |-> lead]}
       ELSE {}

TrimNoise(plate) ==
    LET trims == {q \in (0 .. MaxLead) \X (0 .. MaxTail) : q[1] + q[2] > 0}
    IN IF plate = <<>> \/ IsValid(plate) THEN Unchanged(plate)
       ELSE Decided(plate, Cheapest(UNION {TrimSolutions(plate, q[1], q[2]) : q \in trims}))

(* resolve()                                                               *)
Resolve(plate) ==
    IF Repair(plate).repaired THEN Repair(plate) ELSE TrimNoise(plate)

-----------------------------------------------------------------------------
(* Re-decoding.  alts[i] lists what else the recognizer saw at position i, *)
(* most probable first, as [char, prob]; conf[i] is what it gave to its    *)
(* choice.                                                                 *)
(* Mutant: any runner-up may replace a character, however unlikely.        *)
AcceptAny(prob, displaced) == TRUE

Acceptable(prob, displaced) ==
    /\ prob >= MinProb
    /\ displaced > 0 => 100 * prob >= MinRatio * displaced

BestAllowed(alts, i, kind) ==
    LET fits == {j \in DOMAIN alts[i] : alts[i][j].char \in Allowed(kind)}
    IN IF fits = {} THEN {} ELSE {alts[i][Min(fits)]}

(* The strings of a known shape that the evidence leads to.                *)
ShapeCandidates(text, alts, conf) ==
    {[text |-> text, fixes |-> 0] : f \in MatchFormat(text)} \cup
    UNION {LET wrong == Misfits(text, f.mask)
               pick(i) == BestAllowed(alts, i, f.mask[i])
           IN IF \/ wrong = {}
                 \/ Cardinality(wrong) > MaxSubstitutions
                 \/ \E i \in wrong : \A a \in pick(i) : ~Acceptable(a.prob, conf[i])
              THEN {}
              ELSE {[text |-> [i \in DOMAIN text |->
                                 IF i \in wrong THEN (CHOOSE a \in pick(i) : TRUE).char
                                 ELSE text[i]],
                     fixes |-> Cardinality(wrong)]} :
           f \in {g \in Formats : Len(g.mask) = Len(text)}}

LetterOptions(text, alts, conf, i) ==
    {[char |-> text[i], prob |-> conf[i], used |-> 0]} \cup
    {[char |-> a.char, prob |-> a.prob, used |-> 1] :
        a \in {b \in Range(alts[i]) : b.char \in Letter /\ Acceptable(b.prob, conf[i])}}

(* _fix_state_code(): a real state code for a shape that has an unknown    *)
(* one, unless two are about as probable.                                  *)
StateSolutions(shape, alts, conf) ==
    {[text  |-> <<q[1].char, q[2].char>> \o SubSeq(shape.text, 3, Len(shape.text)),
      fixes |-> shape.fixes + q[1].used + q[2].used,
      joint |-> q[1].prob * q[2].prob] :
        q \in {r \in LetterOptions(shape.text, alts, conf, 1)
                     \X LetterOptions(shape.text, alts, conf, 2) :
                 /\ r[1].used + r[2].used \in 1 .. MaxSubstitutions - shape.fixes
                 /\ <<r[1].char, r[2].char>> \in StateCodes}}

FixStateCode(shape, alts, conf) ==
    LET solutions == StateSolutions(shape, alts, conf)
        likeliest == {s \in solutions : \A t \in solutions : t.joint <= s.joint}
    IN {s \in likeliest : \A t \in solutions \ {s} : 10 * s.joint >= StateRatio * t.joint}

DecodeSolutions(text, alts, conf) ==
    UNION {IF IsValid(s.text) THEN {s}
           ELSE IF \E f \in MatchFormat(s.text) : HasStateCode(f)
                THEN {[text |-> t.text, fixes |-> t.fixes] : t \in FixStateCode(s, alts, conf)}
           ELSE {} : s \in ShapeCandidates(text, alts, conf)}

(* decode()                                                                *)
Decode(text, alts, conf) ==
    IF text = <<>> \/ IsValid(text) \/ (\A i \in DOMAIN alts : alts[i] = <<>>)
    THEN Unchanged(text)
    ELSE Decided(text, Cheapest(DecodeSolutions(text, alts, conf)))

(* What votes for a read: the evidence first, the confusion map second     *)
(* (TrackState.add_read).                                                  *)
Voted(text, alts, conf) ==
    IF Decode(text, alts, conf).repaired THEN Decode(text, alts, conf).text
    ELSE Resolve(text).text

-----------------------------------------------------------------------------
(* confusable(): one differing position, and it is a known confusion.      *)
KnownConfusion(x, y) ==
    \/ x \in DOMAIN ToAlpha /\ y \in Range(ToAlpha[x])
    \/ y \in DOMAIN ToAlpha /\ x \in Range(ToAlpha[y])
    \/ x \in DOMAIN ToDigit /\ y \in Range(ToDigit[x])
    \/ y \in DOMAIN ToDigit /\ x \in Range(ToDigit[y])
    \/ {x, y} \in SameType

Differences(a, b) == {i \in DOMAIN a : a[i] # b[i]}

Confusable(a, b) ==
    /\ Len(a) = Len(b)
    /\ \E i \in DOMAIN a : Differences(a, b) = {i} /\ KnownConfusion(a[i], b[i])

(* The weighted edit distance, row by row; price[j] is what it costs to    *)
(* take the row's character for the j-th of the other text.                *)
NextRow(previous, indel, price) ==
    LET upTo[j \in 0 .. Len(price)] ==
            IF j = 0 THEN <<previous[1] + indel>>
            ELSE LET current == upTo[j - 1] IN
                 Append(current, Min({previous[j + 1] + indel, Last(current) + indel,
                                      previous[j] + price[j]}))
    IN upTo[Len(price)]

Distance(indel, columns, prices) ==
    LET row[i \in 0 .. Len(prices)] ==
            IF i = 0 THEN [j \in 1 .. columns + 1 |-> (j - 1) * indel]
            ELSE NextRow(row[i - 1], indel, prices[i])
    IN row[Len(prices)][columns + 1]

SubCost(x, y) ==
    IF x = y THEN 0 ELSE IF KnownConfusion(x, y) THEN CostConfusable ELSE CostSub

RegistryCost(read, registered) ==
    Distance(CostIndel, Len(registered),
             [i \in DOMAIN read |-> [j \in DOMAIN registered |-> SubCost(read[i], registered[j])]])

EditDistance(a, b) ==
    Distance(1, Len(b), [i \in DOMAIN a |-> [j \in DOMAIN b |-> IF a[i] = b[j] THEN 0 ELSE 1]])

Infinite == 1000000

NoMatch == [plate |-> <<>>, cost |-> Infinite, runnerUp |-> Infinite]

(* Mutant: the runner-up is only what a better plate displaced.            *)
ConsideredBestOnly(best, read, plate) ==
    IF plate = <<>> \/ RegistryCost(read, plate) >= best.cost THEN best
    ELSE [plate |-> plate, cost |-> RegistryCost(read, plate), runnerUp |-> best.cost]

(* One turn of the loop of best_registry_match().                          *)
Considered(best, read, plate) ==
    LET cost == RegistryCost(read, plate) IN
    IF plate = <<>> \/ Len(plate) - Len(read) \notin -MaxLengthDelta .. MaxLengthDelta
    THEN best
    ELSE IF best.plate = <<>> \/ cost < best.cost
         THEN [plate |-> plate, cost |-> cost, runnerUp |-> best.cost]
    ELSE [best EXCEPT !.runnerUp = IF cost < @ THEN cost ELSE @]

BestRegistryMatch(read, registered) ==
    LET upTo[i \in 0 .. Len(registered)] ==
            IF i = 0 THEN NoMatch ELSE Considered(upTo[i - 1], read, registered[i])
        best == upTo[Len(registered)]
    IN IF read = <<>> THEN {}
       ELSE IF Contains(registered, read) THEN {read}
       ELSE IF best.cost > MaxCost \/ best.runnerUp - best.cost < MinMargin THEN {}
       ELSE {best.plate}

SameVehicle(a, b) ==
    /\ a # <<>> /\ b # <<>>
    /\ \/ a = b
       \/ Len(a) >= 5 /\ Len(b) >= 5
          /\ \/ SubSeq(a, 1, 5) = SubSeq(b, 1, 5)
             \/ SubSeq(a, Len(a) - 4, Len(a)) = SubSeq(b, Len(b) - 4, Len(b))
       \/ 100 * (Max({Len(a), Len(b)}) - EditDistance(a, b)) >= 65 * Max({Len(a), Len(b)})

-----------------------------------------------------------------------------
(* normalize(): separators go, and so does a hologram token that stands    *)
(* before a state code and a digit.                                        *)
Stripped(raw) == Kept(raw, {i \in DOMAIN raw : raw[i] \in Alphanumeric})

NoiseLength(text) ==
    LET tokens == {t \in Hologram :
                     /\ Len(text) >= Len(t) + 3
                     /\ SubSeq(text, 1, Len(t)) = t
                     /\ text[Len(t) + 1] \in Letter
                     /\ text[Len(t) + 2] \in Letter
                     /\ text[Len(t) + 3] \in Digit}
    IN Max({Len(t) : t \in tokens} \cup {0})

Normalize(raw) ==
    SubSeq(Stripped(raw), NoiseLength(Stripped(raw)) + 1, Len(Stripped(raw)))

(* The positions that the filter of the lists keeps: str.isalnum() lets   *)
(* more pass than the pattern that strips the text.                        *)
ListPositions(raw) ==
    Kept([i \in DOMAIN raw |-> i],
         {i \in DOMAIN raw : raw[i] \in Alphanumeric \cup Foreign})

(* Mutant: the lists are realigned from the left.                          *)
FinalizeFromLeft(raw) ==
    LET kept == ListPositions(raw)
    IN IF Len(Normalize(raw)) < MinLen THEN {}
       ELSE {[text |-> Normalize(raw), evidence |-> SubSeq(kept, 1, Len(Normalize(raw)))]}

(* PlateRecognizer.finalize(): the text, and for each of its characters    *)
(* the position of raw whose confidence and runners-up it is given.  The   *)
(* lists are filtered like the text and realigned from the right.          *)
FinalizeRead(raw) ==
    LET kept == ListPositions(raw)
        text == Normalize(raw)
    IN IF Len(text) < MinLen THEN {}
       ELSE {[text |-> text,
              evidence |-> SubSeq(kept, Len(kept) - Len(text) + 1, Len(kept))]}
================================================================================
