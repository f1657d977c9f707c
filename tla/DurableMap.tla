------------------------------ MODULE DurableMap ------------------------------
(***************************************************************************)
(* What a crash-safe cache promises: a map in memory, and a copy on disk   *)
(* that is only ever replaced as a whole by the map of that moment.  A     *)
(* process that stops without saving falls back to the copy on disk.       *)
(***************************************************************************)
CONSTANTS Key, Value, Absent

VARIABLES map, disk

vars == <<map, disk>>
Blank == [k \in Key |-> Absent]

Init == map = Blank /\ disk = Blank

Put(k, v) == map' = [map EXCEPT ![k] = v] /\ disk' = disk

Save == disk' = map /\ map' = map

FallBack == map' = disk /\ disk' = disk

Next == Save \/ FallBack \/ \E k \in Key, v \in Value : Put(k, v)

Spec == Init /\ [][Next]_vars
===============================================================================
