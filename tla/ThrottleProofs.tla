---------------------------- MODULE ThrottleProofs ----------------------------
(***************************************************************************)
(* Proofs about the throttle, for any number of goroutines, any arguments  *)
(* of New and any set of methods in use.                                   *)
(***************************************************************************)
EXTENDS Throttle, TLAPS

\* New's clamps: whatever the arguments, the fields are ordered and the delay
\* starts at the minimum (throttle.go:24-42).
LEMMA NewClamps ==
    ASSUME NEW a \in [minimum : Int, initialStep : Int, extraStep : Int], New(a)
    PROVE  /\ min \in Nat /\ initial \in Nat /\ extra \in Nat
           /\ min < initial
           /\ delay = min
  BY DEF New, AtLeastZero, FirstStep

\* New makes a throttle whose clamps hold (throttle.go:25-42).
LEMMA InitInvariant == Init => Invariant
<1>. SUFFICES ASSUME Init PROVE Invariant
  OBVIOUS
<1>1. PICK a \in Arguments : New(a)
  BY DEF Init
<1>2. a \in [minimum : Int, initialStep : Int, extraStep : Int]
  BY ThrottleAssumption
<1>3. /\ min \in Nat /\ initial \in Nat /\ extra \in Nat
      /\ min < initial
      /\ delay = min
  BY <1>1, <1>2, NewClamps
<1>. QED
  BY <1>3 DEF Init, Invariant, TypeOK, Clamped

\* SpeedUp's arithmetic stays at or above the minimum (throttle.go:61-64).
LEMMA ReducedBounds ==
    ASSUME min \in Nat, extra \in Nat, NEW d \in Int, d > min
    PROVE  Reduced(d) \in Int /\ min <= Reduced(d) /\ Reduced(d) <= d
  BY DEF Reduced

\* Every atomic operation keeps the clamps and what pending calls rely on (throttle.go:44-75).
LEMMA NextInvariant == Invariant /\ [Next]_vars => Invariant'
<1>. SUFFICES ASSUME Invariant, [Next]_vars PROVE Invariant'
  OBVIOUS
<1>. USE DEF Invariant, TypeOK, Clamped
<1>1. CASE UNCHANGED vars
  BY <1>1 DEF vars
<1>2. ASSUME NEW p \in Procs, SlowDown(p) PROVE Invariant'
  BY <1>2 DEF SlowDown, Calls, Becomes, fields
<1>3. ASSUME NEW p \in Procs, SlowDownAdd(p) PROVE Invariant'
  BY <1>3 DEF SlowDownAdd, Becomes, fields
<1>4. ASSUME NEW p \in Procs, SpeedUp(p) PROVE Invariant'
  BY <1>4 DEF SpeedUp, Calls, Becomes, fields
<1>5. ASSUME NEW p \in Procs, SpeedUpSwap(p) PROVE Invariant'
  <2>1. seen[p] \in Int /\ seen[p] > min
    BY <1>5 DEF SpeedUpSwap
  <2>2. Reduced(seen[p]) \in Int /\ min <= Reduced(seen[p])
    BY <2>1, ReducedBounds
  <2>3. delay' \in Int /\ delay' >= min
    BY <1>5, <2>2 DEF SpeedUpSwap
  <2>. QED
    BY <1>5, <2>3 DEF SpeedUpSwap, Becomes, fields
<1>6. ASSUME NEW p \in Procs, Reset(p) PROVE Invariant'
  BY <1>6 DEF Reset, Calls, fields
<1>. QED
  BY <1>1, <1>2, <1>3, <1>4, <1>5, <1>6 DEF Next

\* The inductive invariant holds of every throttle.
THEOREM InvariantHolds == Spec => []Invariant
<1>. QED
  BY InitInvariant, NextInvariant, PTL DEF Spec

\* Every SlowDown that returns leaves the throttle engaged (throttle.go:47-53).
THEOREM SlowDownTakesHoldTheorem == Spec => SlowDownTakesHold
<1>1. ASSUME Invariant, [Next]_vars
      PROVE  [\A p \in Procs : AddReturns(p) /\ extra > 0 => ~IsNormal']_vars
  <2>. SUFFICES ASSUME NEW p \in Procs, AddReturns(p), extra > 0 PROVE ~IsNormal'
    OBVIOUS
  <2>. USE <1>1 DEF Invariant, TypeOK, AddReturns, Becomes
  <2>1. ASSUME NEW q \in Procs, SlowDown(q) PROVE FALSE
    BY <2>1 DEF SlowDown, Calls
  <2>2. ASSUME NEW q \in Procs, SlowDownAdd(q) PROVE ~IsNormal'
    BY <2>2 DEF SlowDownAdd, IsNormal, fields
  <2>3. ASSUME NEW q \in Procs, SpeedUp(q) PROVE FALSE
    BY <2>3 DEF SpeedUp, Calls
  <2>4. ASSUME NEW q \in Procs, SpeedUpSwap(q) PROVE FALSE
    BY <2>4 DEF SpeedUpSwap
  <2>5. ASSUME NEW q \in Procs, Reset(q) PROVE FALSE
    BY <2>5 DEF Reset
  <2>6. CASE UNCHANGED vars
    BY <2>6 DEF vars
  <2>. QED
    BY <2>1, <2>2, <2>3, <2>4, <2>5, <2>6 DEF Next
<1>. QED
  BY InvariantHolds, <1>1, PTL DEF Spec, SlowDownTakesHold

\* While only SlowDown is called, each step is a documented SlowDown or changes
\* nothing visible: the two atomic operations are linearizable (throttle.go:44-53).
LEMMA OnlySlowDown ==
    ASSUME Invariant, [Next]_vars, used = {"SlowDown"}
    PROVE  Documented!SlowDown \/ UNCHANGED delay
<1>. USE DEF Invariant, TypeOK, Documented!SlowDown, Documented!Fixed, fields
<1>1. ASSUME NEW q \in Procs, SlowDown(q) PROVE Documented!SlowDown \/ UNCHANGED delay
  BY <1>1 DEF SlowDown
<1>2. ASSUME NEW q \in Procs, SlowDownAdd(q) PROVE Documented!SlowDown
  BY <1>2 DEF SlowDownAdd
<1>3. ASSUME NEW q \in Procs, SpeedUp(q) PROVE FALSE
  BY <1>3 DEF SpeedUp, Calls
<1>4. ASSUME NEW q \in Procs, SpeedUpSwap(q) PROVE FALSE
  BY <1>4 DEF SpeedUpSwap
<1>5. ASSUME NEW q \in Procs, Reset(q) PROVE FALSE
  BY <1>5 DEF Reset, Calls
<1>6. CASE UNCHANGED vars
  BY <1>6 DEF vars
<1>. QED
  BY <1>1, <1>2, <1>3, <1>4, <1>5, <1>6 DEF Next

\* LoopDelay, on which only SlowDown is called, behaves as if each call were atomic
\* (throttle.go:44-53).
THEOREM SlowDownIsAtomicTheorem == Spec => SlowDownIsAtomic
<1>1. ASSUME Invariant, [Next]_vars
      PROVE  [used = {"SlowDown"} => Documented!SlowDown \/ UNCHANGED delay]_vars
  BY <1>1, OnlySlowDown
<1>. QED
  BY InvariantHolds, <1>1, PTL DEF Spec, SlowDownIsAtomic

\* LoopDelay never decreases (download.go:38).
THEOREM NeverDecreasesTheorem == Spec => NeverDecreases
<1>1. ASSUME Invariant, [Next]_vars
      PROVE  [used = {"SlowDown"} => delay' >= delay]_vars
  BY <1>1, OnlySlowDown DEF Invariant, TypeOK, Clamped, Documented!SlowDown
<1>. QED
  BY InvariantHolds, <1>1, PTL DEF Spec, NeverDecreases

\* Every step but a late addition is one documented call (throttle.go:44-75).
THEOREM StepsAsDocumentedTheorem == Spec => StepsAsDocumented
<1>1. ASSUME Invariant, [Next]_vars
      PROVE  [LateAdd \/ Documented!Next \/ UNCHANGED delay]_vars
  <2>. DEFINE Goal == LateAdd \/ Documented!Next \/ UNCHANGED delay
  <2>. USE <1>1 DEF Invariant, TypeOK, Documented!Next, Documented!Fixed, fields
  <2>1. ASSUME NEW q \in Procs, SlowDown(q) PROVE Goal
    BY <2>1 DEF SlowDown, Documented!SlowDown
  <2>2. ASSUME NEW q \in Procs, SlowDownAdd(q) PROVE Goal
    <3>1. CASE delay = min
      BY <2>2, <3>1 DEF SlowDownAdd, LateAdd, IsNormal, AddReturns, Becomes
    <3>2. CASE delay > min
      BY <2>2, <3>2 DEF SlowDownAdd, Documented!SlowDown
    <3>. QED
      BY <3>1, <3>2
  <2>3. ASSUME NEW q \in Procs, SpeedUp(q) PROVE Goal
    BY <2>3 DEF SpeedUp
  <2>4. ASSUME NEW q \in Procs, SpeedUpSwap(q) PROVE Goal
    BY <2>4 DEF SpeedUpSwap, Reduced, Documented!SpeedUp
  <2>5. ASSUME NEW q \in Procs, Reset(q) PROVE Goal
    BY <2>5 DEF Reset, Documented!Reset
  <2>. QED
    BY <2>1, <2>2, <2>3, <2>4, <2>5 DEF Next
<1>. QED
  BY InvariantHolds, <1>1, PTL DEF Spec, StepsAsDocumented
===============================================================================
