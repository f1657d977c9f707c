---------------------------- MODULE AtomicThrottle ----------------------------
(***************************************************************************)
(* What the comments of download/throttle/throttle.go promise of a         *)
(* throttle: each of its methods is one indivisible change of the delay.   *)
(***************************************************************************)
EXTENDS Integers

VARIABLES min, initial, extra, delay

Fixed == UNCHANGED <<min, initial, extra>>

\* "The first time this is used, the throttle increases its delay to the initial
\* step.  Subsequently, it adds the extra step."
SlowDown ==
    /\ \/ delay = min /\ delay' = initial
       \/ delay > min /\ delay' = delay + extra
    /\ Fixed

\* "by subtracting the extra step from the delay.  It has no effect after the
\* minimum delay is reached."
SpeedUp ==
    /\ delay > min
    /\ delay' = IF delay - extra < min THEN min ELSE delay - extra
    /\ Fixed

Reset == delay' = min /\ Fixed

Next == SlowDown \/ SpeedUp \/ Reset
===============================================================================
