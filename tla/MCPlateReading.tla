--------------------------- MODULE MCPlateReading ---------------------------
(* Small alphabets, formats and boxes for PlateReading.                     *)
EXTENDS PlateReading

MCToAlpha == [c \in {"0", "8"} |-> IF c = "0" THEN <<"O", "D">> ELSE <<"B">>]
MCToDigit == [c \in {"O", "D", "B"} |-> IF c = "B" THEN <<"8">> ELSE <<"0">>]
MCSameType == {{"D", "O"}, {"B", "D"}, {"D", "0"}, {"O", "0"}, {"B", "8"}}
MCStateCodes == {<<"O", "D">>, <<"D", "D">>}
MCMarked == {[mask |-> <<"N", "A", "N", "A", "A">>, literal |-> [i \in {2} |-> "D"]]}
MCHologram == {<<"B", "D">>}
MCLineA == <<2, 4>>
MCLineB == <<8, 4>>

P6 == <<"O", "D", "8", "B", "8", "0">>
Q6 == <<"O", "D", "8", "B", "0", "0">>
P5 == <<"O", "D", "8", "B", "8">>
Q5 == <<"O", "D", "8", "8", "0">>
R5 == <<"D", "D", "8", "B", "8">>
B5 == <<"8", "D", "0", "B", "D">>
X6 == <<"B", "B", "0", "D", "0", "0">>
Garbled == <<"B", "B", "D", "8", "B", "8", "0">>

MCRegistry == [q \in {<<"O", "D", "8", "D", "8", "0">>, Q5} |-> "resident"]

(* A recognizer that is sure or not, of all characters or all but one; a    *)
(* read that its runners-up make a plate; retry reads, with worse crops.    *)
Seen(raw, rec, weak, quality, look, whole) ==
    [raw |-> raw, alts |-> [i \in DOMAIN raw |-> <<>>], rec |-> rec, weak |-> weak,
     quality |-> quality, look |-> look, whole |-> whole]
MCRecognized ==
    {Seen(raw, rec, weak, 90, 9, TRUE) : raw \in {P6, Garbled}, rec \in {95, 50}, weak \in {0, 4}}
    \cup {Seen(P5, 95, 0, 90, 1, TRUE), Seen(P6, 95, 4, 90, 1, TRUE)}
    \cup {Seen(raw, 95, 0, 80, 5, FALSE) : raw \in {P6, Q6, X6}}
    \cup {[Seen([P5 EXCEPT ![1] = "8"], 95, 1, 90, 1, TRUE) EXCEPT
             !.alts[1] = <<[char |-> "O", prob |-> 40]>>]}

(* Two cars side by side, each seen alone and with the other, in reach of   *)
(* each other's plate and out of it, nearer and farther than their own.     *)
Left(x) == [car |-> 1, x |-> x]
Right(x) == [car |-> 2, x |-> x]
MCViews == {<<Left(0)>>, <<Left(1)>>, <<Right(7)>>, <<Left(2), Right(5)>>,
            <<Right(5), Left(2)>>, <<Right(4)>>, <<Right(3), Left(0)>>}
MCCrops == [quality : {20, 50, 95}, look : {0, 1, 5}]
MCGlimpses == {[view |-> <<Left(0)>>, crop |-> [quality |-> 95, look |-> 0]]}

Texts(chars, lengths) == UNION {[1 .. n -> chars] : n \in lengths}

ResolveCalls ==
    [function : {"resolve"},
     text : Texts({"O", "D", "B", "0", "8"}, 4 .. 5)
            \cup Texts({"O", "D", "B", "8"}, {6})
            \cup {<<a, b>> \o p \o <<c>> : a, b, c \in {"D", "8"}, p \in {P5, Q5, R5, P6}}]

Alternatives == [char : {"O", "D", "B", "0", "8"}, prob : {15, 40}]

DecodeCalls ==
    {[function |-> "decode",
      text |-> [p EXCEPT ![q[1]] = x, ![q[2]] = y],
      alts |-> [i \in 1 .. 5 |-> IF i = q[1] THEN <<a>> ELSE IF i = q[2] THEN <<b>> ELSE <<>>],
      conf |-> [i \in 1 .. 5 |-> conf]] :
        p \in {P5, B5}, q \in {<<1, 2>>, <<1, 3>>, <<3, 4>>},
        x, y \in {"O", "B", "8"}, a, b \in Alternatives, conf \in {30, 80}}
    \cup
    {[function |-> "decode",
      text |-> [P5 EXCEPT ![i] = x],
      alts |-> [j \in 1 .. 5 |-> IF i = j THEN <<a, b>> ELSE <<>>],
      conf |-> [j \in 1 .. 5 |-> conf]] :
        i \in 1 .. 4, x \in {"B", "8"}, a, b \in Alternatives, conf \in {30, 80}}

MatchCalls ==
    [function : {"match"}, text : Texts({"O", "D", "8"}, {5}),
     registered : {s \in [1 .. 3 -> {P5, Q5, R5, P6}] : s[1] # s[2] /\ s[2] # s[3] /\ s[1] # s[3]}]

FinalizeCalls ==
    [function : {"finalize"}, text : Texts({"D", "B", "8", "-", "e"}, 5 .. 6)]

CrossCalls ==
    [function : {"cross"}, path : Texts({1, 3, 5, 9} \X {2, 4, 6}, 2 .. 3)]

Box(x, y, w, h) == [x1 |-> x, y1 |-> y, x2 |-> x + w, y2 |-> y + h]
Vehicles == {Box(x, y, 8, 8) : x \in {1, 5, 9, 13}, y \in {1, 5, 9, 15}}

AssociateCalls ==
    [function : {"associate"}, first : Vehicles, second : Vehicles,
     plate : {Box(x, y, 4, 2) : x \in {3, 6, 8, 11, 13}, y \in {3, 7, 8, 11, 13}}]

MCCallInputs ==
    ResolveCalls \cup DecodeCalls \cup MatchCalls \cup FinalizeCalls
    \cup CrossCalls \cup AssociateCalls
=============================================================================
