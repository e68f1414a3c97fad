------------------------------ MODULE RtspReader ------------------------------
(***************************************************************************)
(* The reader thread of one camera and the slot of one frame that it       *)
(* shares with the worker's loop (video/rtsp_reader.py).  Time is counted  *)
(* in ticks; the stream is an environment that may go away and come back,  *)
(* and the number of its frames and outages is bounded.                    *)
(***************************************************************************)
EXTENDS Integers

CONSTANTS ReconnectMin, ReconnectMax, ReadTimeout, MaxFrames, MaxOutages

VARIABLES source,     \* "camera", "looped" (a file, again and again), "clip"
          up,         \* the source can be opened and read
          outages,    \* outages so far
          reader,     \* the thread: [phase, backoff, wait, quiet]
          slot,       \* [seq, lastTaken, dropped]
          taken,      \* history: frames handed to the worker
          stop        \* RtspReader._stop

readerVars == <<source, up, outages, reader, slot, taken, stop>>

ReaderInit ==
    /\ source \in {"camera", "looped", "clip"}
    /\ up \in BOOLEAN
    /\ outages = 0
    /\ reader = [phase |-> "open", backoff |-> ReconnectMin, wait |-> 0, quiet |-> 0]
    /\ slot = [seq |-> 0, lastTaken |-> 0, dropped |-> 0]
    /\ taken = 0
    /\ stop = FALSE

IsFile == source # "camera"
Fresh == slot.seq # slot.lastTaken

Opened ==
    /\ up
    /\ reader' = [phase |-> "reading", backoff |-> ReconnectMin, wait |-> 0, quiet |-> 0]

(* Mutant: the first failure to open ends the thread.                      *)
GivesUp ==
    /\ ~up
    /\ reader' = [reader EXCEPT !.phase = "stopped"]

NotOpened ==
    /\ ~up
    /\ reader' = [reader EXCEPT !.phase = "waiting", !.wait = @ + reader.backoff,
                                !.backoff = IF 2 * @ < ReconnectMax THEN 2 * @ ELSE ReconnectMax]

Open ==
    /\ reader.phase = "open"
    /\ ~stop
    /\ Opened \/ NotOpened
    /\ UNCHANGED <<source, up, outages, slot, taken, stop>>

Reopen ==
    /\ reader.phase = "waiting"
    /\ reader.wait = 0
    /\ ~stop
    /\ reader' = [reader EXCEPT !.phase = "open"]
    /\ UNCHANGED <<source, up, outages, slot, taken, stop>>

(* _publish(): what the worker did not take is replaced, and counted.      *)
Publish ==
    /\ reader.phase = "reading"
    /\ ~stop
    /\ up
    /\ slot.seq < MaxFrames
    /\ slot' = [slot EXCEPT !.seq = @ + 1, !.dropped = IF Fresh THEN @ + 1 ELSE @]
    /\ reader' = [reader EXCEPT !.quiet = 0]
    /\ UNCHANGED <<source, up, outages, taken, stop>>

(* The stream is left: the end of a file, or no frame for read_timeout.    *)
(* A clip that is not looped ends the thread.                              *)
Lost ==
    /\ reader.phase = "reading"
    /\ ~stop
    /\ IF IsFile THEN TRUE ELSE reader.quiet > ReadTimeout
    /\ reader' = IF source = "clip" THEN [reader EXCEPT !.phase = "stopped"]
                 ELSE [reader EXCEPT !.phase = "waiting", !.wait = ReconnectMin]
    /\ UNCHANGED <<source, up, outages, slot, taken, stop>>

ReaderEnds ==
    /\ stop
    /\ reader.phase # "stopped"
    /\ reader' = [reader EXCEPT !.phase = "stopped"]
    /\ UNCHANGED <<source, up, outages, slot, taken, stop>>

(* Mutant: the frame is handed out without noting that it was.             *)
TakenAgain ==
    /\ Fresh
    /\ slot' = slot
    /\ taken' = taken + 1

Taken ==
    /\ Fresh
    /\ slot' = [slot EXCEPT !.lastTaken = slot.seq]
    /\ taken' = taken + 1

(* latest_with_timestamp(), in the worker's thread.                        *)
Take ==
    /\ Taken
    /\ UNCHANGED <<source, up, outages, reader, stop>>

(* RtspReader.stop(), by the worker that shuts down.                       *)
StopReader ==
    /\ ~stop
    /\ stop' = TRUE
    /\ UNCHANGED <<source, up, outages, reader, slot, taken>>

(* Environment: the stream goes or comes, and time passes.                 *)
StreamChanges ==
    /\ up => outages < MaxOutages
    /\ up' = ~up
    /\ outages' = IF up THEN outages + 1 ELSE outages
    /\ UNCHANGED <<source, reader, slot, taken, stop>>

TimePasses ==
    /\ \/ reader.phase = "waiting" /\ reader.wait > 0
       \/ reader.phase = "reading" /\ reader.quiet <= ReadTimeout
    /\ reader' = IF reader.phase = "waiting" THEN [reader EXCEPT !.wait = @ - 1]
                 ELSE [reader EXCEPT !.quiet = @ + 1]
    /\ UNCHANGED <<source, up, outages, slot, taken, stop>>

ReaderNext ==
    \/ Open \/ Reopen \/ Publish \/ Lost \/ ReaderEnds
    \/ Take \/ StopReader \/ StreamChanges \/ TimePasses

ReaderSpec == ReaderInit /\ [][ReaderNext]_readerVars

(* The thread goes on, and time passes.                                    *)
ReaderFairness ==
    /\ WF_readerVars(Open)
    /\ WF_readerVars(Reopen)
    /\ WF_readerVars(Lost)
    /\ WF_readerVars(TimePasses)

-----------------------------------------------------------------------------
(* No frame is handed out twice and none disappears: whatever was          *)
(* published was taken once, was replaced and counted as dropped, or is in *)
(* the slot ("would otherwise inflate the read count of a parked vehicle").*)
EveryFrameOnce ==
    slot.seq = taken + slot.dropped + IF Fresh THEN 1 ELSE 0

(* A stream that is back is read again, however long it was away, unless   *)
(* the reader was told to stop or its clip has ended.                      *)
StreamReturns ==
    (<>[]up /\ source # "clip") => []<>(reader.phase = "reading" \/ stop)
===============================================================================
