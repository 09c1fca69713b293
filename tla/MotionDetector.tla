--------------------------- MODULE MotionDetector ---------------------------
(***************************************************************************)
(* Motion out of the sizes of the frames (motion_detector.py).  The sizes, *)
(* and the typical difference the threshold follows, are abstracted to     *)
(* whether a frame exceeds the threshold; _motion_until to the time left   *)
(* until it.                                                               *)
(***************************************************************************)
EXTENDS Integers

CONSTANTS
    WarmupFrames,      \* _WARMUP_FRAMES
    ConfirmingFrames,  \* _CONFIRMING_FRAMES
    HoldTime           \* hold_seconds, in ticks of the clock

ASSUME MotionAssumption ==
    WarmupFrames \in Nat /\ ConfirmingFrames \in Nat \ {0} /\ HoldTime \in Nat \ {0}

\* previous: there is a _previous_size.  The counters stop where their value no
\* longer matters.
Detectors == [previous : BOOLEAN, frames : 0..WarmupFrames,
              exceeded : 0..ConfirmingFrames, hold : 0..HoldTime, detected : BOOLEAN]

NewDetector == [previous |-> FALSE, frames |-> 0, exceeded |-> 0, hold |-> 0, detected |-> FALSE]

\* _publish(now < _motion_until), what sample ends with and all that poll does.
Published(m) == [m EXCEPT !.detected = m.hold > 0]

\* Does the next frame reach the comparison with the threshold?
Compared(m) == m.previous /\ m.frames = WarmupFrames

Exceeding(m) == IF m.exceeded < ConfirmingFrames THEN m.exceeded + 1 ELSE ConfirmingFrames

Sample(m, loud) ==
    CASE ~m.previous -> [m EXCEPT !.previous = TRUE]
      [] m.previous /\ m.frames < WarmupFrames -> [m EXCEPT !.frames = @ + 1]
      [] Compared(m) /\ loud ->
            Published([m EXCEPT !.exceeded = Exceeding(m),
                                !.hold = IF Exceeding(m) = ConfirmingFrames THEN HoldTime ELSE @])
      [] Compared(m) /\ ~loud -> Published([m EXCEPT !.exceeded = 0])

\* Mutant: the hold and the state are cleared, what was counted is not.
ResetHold(m) == [m EXCEPT !.hold = 0, !.detected = FALSE]

Reset(m) == NewDetector

\* The clock: the time until _motion_until shrinks.
Aged(m) == [m EXCEPT !.hold = IF @ > 0 THEN @ - 1 ELSE 0]
=============================================================================
