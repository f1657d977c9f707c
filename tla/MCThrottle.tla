------------------------------ MODULE MCThrottle ------------------------------
(***************************************************************************)
(* Small throttles for TLC: the shape of Lockdown (minimum 0), of          *)
(* LoopDelay with the configured delay below, at and above the initial     *)
(* step, and arguments that New must clamp.                                *)
(***************************************************************************)
EXTENDS Throttle, TLC

Args(m, i, e) == [minimum |-> m, initialStep |-> i, extraStep |-> e]

MCArguments ==
    {Args(0, 5, 2), Args(3, 2, 1), Args(2, 2, 1), Args(-1, 3, 2), Args(1, 4, -1)}

MCUses == {{"SlowDown"}, {"SlowDown", "Reset"}, Methods}

\* Nothing distinguishes one goroutine from another, and no liveness is checked.
Symmetry == Permutations(Procs)
===============================================================================
