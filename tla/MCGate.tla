-------------------------------- MODULE MCGate --------------------------------
(* The way of a vehicle from the stream to its alerts, for TLC: the reader *)
(* of a camera, the worker's loop with its de-duplication, and the events  *)
(* in the database; and beside it the workers of the web application.  A   *)
(* behaviour is of one of the four.                                        *)
EXTENDS RtspReader, CameraLoop, EventService, LegacyCameras

VARIABLE part

MCVehicles == [p \in {"R", "B"} |-> IF p = "R" THEN "registered" ELSE "blacklist"]
MCInferred == [t \in {"n"} |-> "R"]
MCRules ==
    {[code |-> "blacklisted_vehicle", cooldown |-> 1, cameras |-> {}],
     [code |-> "unknown_vehicle", cooldown |-> 1, cameras |-> {}],
     [code |-> "low_confidence", cooldown |-> 1, cameras |-> {"gate"}],
     [code |-> "repeated_unknown", cooldown |-> 0, cameras |-> {}],
     [code |-> "broken", cooldown |-> 0, cameras |-> {}]}
MCDrafts ==
    {[read |-> text, direction |-> "in", confidence |-> 9, disputed |-> text \in {"k", "none"},
      camera |-> IF text = "n" THEN "yard" ELSE "gate"] : text \in {"m", "k", "n", "B", "none"}}

rest == <<readerVars, loopVars, serviceVars, legacyVars>>

NoReader == source = "clip" /\ up = FALSE /\ ReaderInit
NoLoop == camera = [mode |-> "inline", direction |-> "out"] /\ LoopInit
NoLegacy == lastRow = 0 /\ LegacyInit

GateInit ==
    \/ part = "reader" /\ ReaderInit /\ NoLoop /\ ServiceInit /\ NoLegacy
    \/ part = "loop" /\ NoReader /\ LoopInit /\ ServiceInit /\ NoLegacy
    \/ part = "service" /\ NoReader /\ NoLoop /\ ServiceInit /\ NoLegacy
    \/ part = "legacy" /\ NoReader /\ NoLoop /\ ServiceInit /\ LegacyInit

GateNext ==
    \/ part = "reader" /\ ReaderNext /\ UNCHANGED <<part, loopVars, serviceVars, legacyVars>>
    \/ part = "loop" /\ LoopNext /\ UNCHANGED <<part, readerVars, serviceVars, legacyVars>>
    \/ part = "service" /\ ServiceNext /\ UNCHANGED <<part, readerVars, loopVars, legacyVars>>
    \/ part = "legacy" /\ LegacyNext /\ UNCHANGED <<part, readerVars, loopVars, serviceVars>>

GateSpec ==
    /\ GateInit
    /\ [][GateNext]_<<part, rest>>
    /\ part = "reader" => ReaderFairness
===============================================================================
