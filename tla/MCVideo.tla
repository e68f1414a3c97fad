-------------------------------- MODULE MCVideo --------------------------------
(* The tracks of a camera and the reading of one vehicle, explored beside  *)
(* each other: a behaviour is of the one or of the other, so that one run  *)
(* checks both without the product of their states.                        *)
EXTENDS FrameProcessor, OcrScheduler

VARIABLE part

VideoInit ==
    /\ part \in {"tracks", "reading"}
    /\ Init
    /\ OcrInit

VideoNext ==
    \/ part = "tracks" /\ Next /\ UNCHANGED <<part, ocrVars>>
    \/ part = "reading" /\ OcrNext /\ UNCHANGED <<part, vars>>

VideoSpec ==
    /\ VideoInit
    /\ [][VideoNext]_<<part, vars, ocrVars>>
    /\ SF_vars(part = "tracks" /\ Frame)
==============================================================================
