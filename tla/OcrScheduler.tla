----------------------------- MODULE OcrScheduler -----------------------------
(***************************************************************************)
(* When the inline pipeline spends its recognizer: the gates before the    *)
(* plate detector, decide() of video/ocr_scheduler.py, the contest of the  *)
(* vehicles of one frame for max_per_frame calls, the budget a TrackState  *)
(* keeps, the extra reads of a nearly settled plate, and the one retry     *)
(* when the track is final.  The module follows one vehicle: what is in    *)
(* front of the camera, and how many of the frame's other vehicles offer   *)
(* a better crop, is input; a plate's quality is one of the tiers that the *)
(* policy tells apart.                                                     *)
(***************************************************************************)
EXTENDS Integers, Sequences

CONSTANTS Budget, Reserve, RetryBonus, RetryMinReads, MaxPerFrame,
          IntervalExcellent, IntervalGood, IntervalMarginal,
          MaxWaits, WaitBackoff, GrowthWindow,
          PlateInterval, MaxAttempts, LockMinReads,
          Widths, ReadWidth     \* plate widths met, and the least one read

(* What OcrPolicy accepts: the reserve leaves calls for the approach, and  *)
(* a frame may spend at least one.                                         *)
PolicyIsValid ==
    /\ {Budget, Reserve, RetryBonus, RetryMinReads} \subseteq Nat
    /\ Reserve < Budget
    /\ {MaxPerFrame, IntervalExcellent, IntervalGood, IntervalMarginal,
        MaxWaits, WaitBackoff, GrowthWindow, PlateInterval, MaxAttempts,
        LockMinReads, ReadWidth} \subseteq Nat \ {0}
    /\ Widths \subseteq Nat \ {0}

ASSUME PolicyAssumption == PolicyIsValid

VARIABLES state,     \* the OCR part of the vehicle's TrackState
          declined   \* readable crops declined since its last call

ocrVars == <<state, declined>>

Poor == 0
Marginal == 1
Good == 2
Excellent == 3

Lesser(a, b) == IF a <= b THEN a ELSE b
Most(a, b) == IF a >= b THEN a ELSE b

(* Counters stop where no gate tells the values above apart.               *)
FarAttempt == PlateInterval * WaitBackoff
FarCall == Most(IntervalMarginal, Most(IntervalGood, IntervalExcellent))

FreshState ==
    [calls |-> 0, sinceCall |-> FarCall, waits |-> 0, reason |-> "",
     attempts |-> 0, sinceAttempt |-> FarAttempt,
     peak |-> 0, widths |-> <<>>,
     granted |-> FALSE, allowance |-> 0,
     resolved |-> FALSE, locked |-> FALSE, emitted |-> FALSE]

(* What one frame shows of one vehicle.  near: fusing its reads leaves one *)
(* or two characters in doubt.                                             *)
Sight ==
    [kind : {"gated", "fragment", "no_plate", "not_on_vehicle"},
     near : BOOLEAN]
    \cup [kind : {"plate"}, near : BOOLEAN, width : Widths,
          quality : Poor .. Excellent]

(* The reasons to decline a crop that is readable and fresh.               *)
Declines == {"holding_reserve", "still_approaching", "cadence"}

BACKOFF_REASONS == {"plate_too_small", "still_approaching", "holding_reserve"}

Aged(s) == [s EXCEPT !.sinceCall = Lesser(@ + 1, FarCall),
                     !.sinceAttempt = Lesser(@ + 1, FarAttempt)]

(* Mutant: the patience of a track starts again with every new reason.     *)
WaitNotedAfresh(s, reason) ==
    [s EXCEPT !.waits = IF s.reason = reason THEN Lesser(@ + 1, MaxWaits) ELSE 1,
              !.reason = reason]

WaitNoted(s, reason) ==
    [s EXCEPT !.waits = Lesser(@ + 1, MaxWaits), !.reason = reason]

CallNoted(s) ==
    [s EXCEPT !.calls = @ + 1, !.sinceCall = 0, !.waits = 0, !.reason = ""]

OcrRemaining(s) == Most(0, Budget + s.allowance - s.calls)

NearlySettled(s, near) == near /\ s.calls >= RetryMinReads

GrantRetry(s) == [s EXCEPT !.granted = TRUE, !.allowance = RetryBonus]

ShouldAttempt(s) ==
    /\ ~s.emitted
    /\ ~s.locked
    /\ s.attempts < MaxAttempts
    /\ s.sinceAttempt >= IF s.reason \in BACKOFF_REASONS
                         THEN PlateInterval * WaitBackoff ELSE PlateInterval

(* _should_detect_plate up to the geometric gates: the state it leaves.    *)
Budgeted(s, near) ==
    IF OcrRemaining(s) = 0 /\ RetryBonus > 0 /\ ~s.granted /\ NearlySettled(s, near)
    THEN GrantRetry(s) ELSE s

Attempted(s) == [s EXCEPT !.attempts = @ + 1, !.sinceAttempt = 0]

Observed(s, width) ==
    [s EXCEPT !.peak = Most(@, width),
              !.widths = LET w == Append(@, width)
                         IN IF Len(w) > GrowthWindow + 1 THEN Tail(w) ELSE w]

Departing(s, width) == s.peak > 0 /\ 100 * width <= 85 * s.peak
Approaching(s) == Len(s.widths) >= 2
                  /\ 100 * s.widths[Len(s.widths)] >= 108 * s.widths[1]

(* decide(): the first rule that applies.  The reason "run" stands for the *)
(* five reasons to run.                                                    *)
Decide(s, width, quality, stale) ==
    LET endgame == Departing(s, width) \/ s.waits >= MaxWaits IN
    CASE stale                                   -> "stale_frame"
      [] ~stale /\ width < ReadWidth             -> "plate_too_small"
      [] ~stale /\ width >= ReadWidth /\ quality = Poor -> "below_quality_floor"
      [] OTHER ->
         IF s.calls >= Budget THEN "budget_exhausted"
         ELSE IF quality = Excellent /\ s.sinceCall >= IntervalExcellent THEN "run"
         ELSE IF endgame /\ s.sinceCall >= IntervalGood THEN "run"
         ELSE IF Budget - s.calls <= Reserve THEN "holding_reserve"
         ELSE IF Approaching(s) /\ quality < Good THEN "still_approaching"
         ELSE IF quality >= Good /\ s.sinceCall >= IntervalGood THEN "run"
         ELSE IF s.sinceCall >= IntervalMarginal THEN "run"
         ELSE "cadence"

(* One vehicle's turn in the first pass of a frame: what becomes of its    *)
(* state, and the verdict ("none" when no plate was scored).               *)
Localized(s0, sight, stale) ==
    LET s == Aged(s0)
        b == Budgeted(s, sight.near)
    IN IF ~ShouldAttempt(s) THEN [state |-> s, verdict |-> "none"]
       ELSE IF OcrRemaining(b) = 0 \/ sight.kind = "gated"
       THEN [state |-> b, verdict |-> "none"]
       ELSE IF sight.kind = "fragment"
       THEN [state |-> WaitNoted(b, "partial_vehicle"), verdict |-> "none"]
       ELSE IF sight.kind = "no_plate"
       THEN [state |-> Attempted(b), verdict |-> "none"]
       ELSE IF sight.kind = "not_on_vehicle"
       THEN [state |-> WaitNoted(Attempted(b), "plate_not_on_vehicle"),
             verdict |-> "none"]
       ELSE LET o == Observed(Attempted(b), sight.width)
                v == Decide(o, sight.width, sight.quality, stale)
            IN [state |-> IF v = "run" THEN o ELSE WaitNoted(o, v), verdict |-> v]

(* A recognizer call; a read may settle the plate (consider_lock).         *)
AfterCall(s, locks) ==
    LET c == CallNoted(s)
    IN [c EXCEPT !.locked = @ \/ (locks /\ c.calls >= LockMinReads)]

(* One frame of process(): localize, then spend the frame's calls on the   *)
(* best crops.  "better" crops of other vehicles go before this one.       *)
OcrFrame(sight, stale, better, locks) ==
    LET pass == Localized(state, sight, stale)
        runs == pass.verdict = "run" /\ better < MaxPerFrame
    IN /\ state' = IF runs THEN AfterCall(pass.state, locks)
                   ELSE IF pass.verdict = "run"
                   THEN WaitNoted(pass.state, "frame_ocr_cap")
                   ELSE pass.state
       /\ declined' = IF runs THEN 0
                      ELSE IF pass.verdict \in Declines
                      THEN declined + 1 ELSE declined

(* What is not asked for (a stale crop's rivals, a call that is not made)  *)
(* is given one value.                                                     *)
SomeFrame ==
    \/ \E sight \in Sight : sight.kind # "plate" /\ OcrFrame(sight, FALSE, 0, FALSE)
    \/ \E sight \in Sight : sight.kind = "plate" /\ OcrFrame(sight, TRUE, 0, FALSE)
    \/ \E sight \in Sight, locks \in BOOLEAN, better \in 0 .. MaxPerFrame :
          /\ sight.kind = "plate"
          /\ better = MaxPerFrame => ~locks
          /\ OcrFrame(sight, FALSE, better, locks)

(* Mutant: the retry does not remember that it has run.                    *)
ResolvedAgain(near, unread) ==
    [state EXCEPT !.calls = IF NearlySettled(state, near)
                            THEN @ + Lesser(unread, RetryBonus) ELSE @]

(* resolve_pending: once per track, at most RetryBonus of the "unread"     *)
(* banked crops, and only for a plate that they could settle.              *)
Resolved(near, unread) ==
    IF RetryBonus = 0 \/ state.resolved THEN state
    ELSE [state EXCEPT !.resolved = TRUE,
                       !.calls = IF NearlySettled(state, near)
                                 THEN @ + Lesser(unread, RetryBonus) ELSE @]

(* The track is final: no more frames count, and the retry is spent.       *)
Finish ==
    \E near \in BOOLEAN, unread \in 0 .. RetryBonus + 1 :
        /\ state' = [Resolved(near, unread) EXCEPT !.emitted = TRUE]
        /\ UNCHANGED declined

OcrInit ==
    /\ state = FreshState
    /\ declined = 0

OcrNext == SomeFrame \/ Finish

OcrSpec == OcrInit /\ [][OcrNext]_ocrVars

-----------------------------------------------------------------------------
(* The ceiling on a vehicle's cost: its frames never spend more than the   *)
(* budget, and the whole track never more than the budget and the bonus,   *)
(* however long it stays and however often it is finalized.                *)
BudgetIsKept ==
    state.calls <= Budget + IF state.emitted THEN RetryBonus ELSE 0

(* Waiting for a better view ends: of the readable, fresh crops of one     *)
(* vehicle the scheduler declines only so many in a row, although the      *)
(* reasons change, the plate detector backs off and other vehicles compete.*)
(* The patience and the pause after a call run out together, not in turn.  *)
PatienceIsBounded == declined <= Most(MaxWaits, IntervalGood - 1)

(* "Extend this track's OCR budget once" (TrackState.grant_retry): while   *)
(* reads of the extended budget are left, it is not exhausted.             *)
GrantIsSpendable ==
    state.reason = "budget_exhausted" => OcrRemaining(state) = 0
==============================================================================
