\* Three goroutines call every method that each use of a throttle allows.
CONSTANTS
    Procs = {p1, p2, p3}
    Arguments <- MCArguments
    Uses <- MCUses
    MaxDelay = 8
SPECIFICATION Spec
\* A throttle that is only slowed down stops at the bound MaxDelay.
CHECK_DEADLOCK FALSE
SYMMETRY Symmetry
INVARIANTS
    Invariant
PROPERTIES
    SlowDownTakesHold
    NeverDecreases
    StepsAsDocumented
    SlowDownIsAtomic
