------------------------------- MODULE Throttle -------------------------------
(***************************************************************************)
(* The lock-free delay timer of download/throttle/throttle.go.  The delay  *)
(* is one atomic word shared by every worker goroutine; each method call   *)
(* is one or two atomic operations on that word, and the operations of     *)
(* concurrent calls interleave.  Two throttles exist while scraping:       *)
(* Lockdown (SlowDown and Reset are called on it) and LoopDelay (only      *)
(* SlowDown is).                                                           *)
(***************************************************************************)
EXTENDS Integers

CONSTANTS
    Procs,      \* goroutines that share the throttle
    Arguments,  \* the argument triples New may be called with
    Uses,       \* the sets of methods that a program may call on one throttle
    MaxDelay    \* bound: no SlowDown starts once the delay exceeds it

Methods == {"SlowDown", "SpeedUp", "Reset"}

ASSUME ThrottleAssumption ==
    /\ Arguments \subseteq [minimum : Int, initialStep : Int, extraStep : Int]
    /\ Uses \subseteq SUBSET Methods
    /\ MaxDelay \in Int

VARIABLES
    min, initial, extra,  \* the fields New fills in, constant afterwards
    delay,                \* the atomic word
    used,                 \* the methods this program calls (never changes)
    pc,                   \* pc[p]: "idle", or between the two atomic steps of a call
    seen                  \* seen[p]: the delay that p's SpeedUp has loaded

fields == <<min, initial, extra, used>>
vars == <<min, initial, extra, delay, used, pc, seen>>

-------------------------------------------------------------------------------

\* The clamps of New (lines 25-33).
AtLeastZero(x) == IF x < 0 THEN 0 ELSE x

FirstStepUnclamped(minimum, step) == step
FirstStepOffByOne(minimum, step) == IF step < minimum THEN minimum + 1 ELSE step
FirstStep(minimum, step) == IF step <= minimum THEN minimum + 1 ELSE step

New(a) ==
    /\ min = AtLeastZero(a.minimum)
    /\ initial = FirstStep(min, a.initialStep)
    /\ extra = AtLeastZero(a.extraStep)
    /\ delay = min

Init ==
    /\ \E a \in Arguments : New(a)
    /\ used \in Uses
    /\ pc = [p \in Procs |-> "idle"]
    /\ seen = [p \in Procs |-> 0]

Calls(p, method) == method \in used /\ pc[p] = "idle"
Becomes(p, at) == pc' = [pc EXCEPT ![p] = at]

\* SlowDown: CompareAndSwap(min, initial); the call is over when it succeeds.
SlowDown(p) ==
    /\ Calls(p, "SlowDown")
    /\ delay <= MaxDelay
    /\ \/ delay = min /\ delay' = initial /\ Becomes(p, "idle")
       \/ delay # min /\ delay' = delay   /\ Becomes(p, "add")
    /\ UNCHANGED <<fields, seen>>

\* Two plausible mistakes: an exponential back-off, and an addition that gives up when
\* another goroutine has reset the delay meanwhile.
SlowDownDouble(p) ==
    /\ pc[p] = "add"
    /\ delay' = 2 * delay
    /\ Becomes(p, "idle")
    /\ UNCHANGED <<fields, seen>>
SlowDownAddIfEngaged(p) ==
    /\ pc[p] = "add"
    /\ delay' = IF delay = min THEN delay ELSE delay + extra
    /\ Becomes(p, "idle")
    /\ UNCHANGED <<fields, seen>>

\* SlowDown after the swap has failed: Add(extra), to whatever delay is now.
SlowDownAdd(p) ==
    /\ pc[p] = "add"
    /\ delay' = delay + extra
    /\ Becomes(p, "idle")
    /\ UNCHANGED <<fields, seen>>

\* SpeedUp: Load; nothing more to do at the minimum.
SpeedUp(p) ==
    /\ Calls(p, "SpeedUp")
    /\ seen' = [seen EXCEPT ![p] = delay]
    /\ Becomes(p, IF delay > min THEN "swap" ELSE "idle")
    /\ UNCHANGED <<fields, delay>>

\* The value SpeedUp computes from the delay d it has loaded.
Reduced(d) == IF d - extra < min THEN min ELSE d - extra

\* A plausible mistake: a store where the code compares and swaps.
SpeedUpStore(p) ==
    /\ pc[p] = "swap"
    /\ delay' = Reduced(seen[p])
    /\ Becomes(p, "idle")
    /\ UNCHANGED <<fields, seen>>

\* SpeedUp: CompareAndSwap(d, newValue), without effect when delay has moved on.
SpeedUpSwap(p) ==
    /\ pc[p] = "swap"
    /\ delay' = IF delay = seen[p] THEN Reduced(seen[p]) ELSE delay
    /\ Becomes(p, "idle")
    /\ UNCHANGED <<fields, seen>>

Reset(p) ==
    /\ Calls(p, "Reset")
    /\ delay' = min
    /\ UNCHANGED <<fields, pc, seen>>

Next ==
    \E p \in Procs :
        \/ SlowDown(p) \/ SlowDownAdd(p)
        \/ SpeedUp(p) \/ SpeedUpSwap(p)
        \/ Reset(p)

Spec == Init /\ [][Next]_vars

IsNormal == delay = min

-------------------------------------------------------------------------------

\* The type invariant.
TypeOK ==
    /\ min \in Nat /\ initial \in Nat /\ extra \in Nat
    /\ delay \in Int
    /\ used \in Uses
    /\ pc \in [Procs -> {"idle", "add", "swap"}]
    /\ seen \in [Procs -> Int]

\* The inductive invariant: the clamps of New hold, a pending SpeedUp has loaded a
\* delay above the minimum, and where only SlowDown is called no call but SlowDown
\* is pending and a pending addition finds the throttle engaged.
Clamped == min < initial
Invariant ==
    /\ TypeOK
    /\ Clamped
    /\ delay >= min
    /\ \A p \in Procs :
        /\ pc[p] = "swap" => seen[p] > min
        /\ used = {"SlowDown"} => pc[p] # "swap" /\ (pc[p] = "add" => delay > min)

\* The SlowDown of p returns from its second atomic operation.
AddReturns(p) == pc[p] = "add" /\ pc'[p] = "idle"

\* A SlowDown that returns leaves the throttle engaged, even if a Reset came
\* between its failed swap and its addition: no "too many requests" answer is
\* forgotten by a throttle with a positive extra step (throttle.go:47-53).
SlowDownTakesHold ==
    [][\A p \in Procs : AddReturns(p) /\ extra > 0 => ~IsNormal']_vars

\* LoopDelay, on which only SlowDown is called, never decreases
\* (download.go:38 promises it; the clamp of New at throttle.go:28 makes it so).
NeverDecreases ==
    [][used = {"SlowDown"} => delay' >= delay]_vars

\* The throttle as its documentation describes it: every call is one atomic step.
Documented == INSTANCE AtomicThrottle

\* While only SlowDown is called the two-step implementation is linearizable:
\* each step is a documented SlowDown or changes nothing visible (throttle.go:44-53).
SlowDownIsAtomic ==
    [][used = {"SlowDown"} => Documented!SlowDown \/ UNCHANGED delay]_vars

\* Whatever is called, each step is one documented call or changes nothing
\* visible, but for one: the addition of a SlowDown that finds the delay back at
\* the minimum.  In particular a SpeedUp takes off at most one extra step,
\* however stale the value it has loaded (throttle.go:44-75).
LateAdd == IsNormal /\ \E p \in Procs : AddReturns(p)
StepsAsDocumented ==
    [][LateAdd \/ Documented!Next \/ UNCHANGED delay]_vars
===============================================================================
