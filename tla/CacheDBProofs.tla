----------------------------- MODULE CacheDBProofs -----------------------------
(***************************************************************************)
(* Proofs about the metadata cache, for any keys, items and limit: on a    *)
(* disk that works it is a crash-safe map, and a crash loses fewer changes *)
(* than the limit.                                                         *)
(***************************************************************************)
EXTENDS CacheDB, FiniteSetTheorems, TLAPS

-------------------------------------------------------------------------------
(* Writing and reading back *)

\* Nothing comes back as nothing.
LEMMA EmptyItem == Empty \in AnyItem /\ ReadBack(Empty) = Empty
<1>1. Empty \in AnyItem
  BY CacheDBAssumption DEF Empty, AnyItem
<1>2. Undash("") = ""
  BY DEF Undash
<1>3. ReadBack(Empty) = [code |-> 0, location |-> Undash(""), etag |-> Undash("")]
  BY DEF ReadBack, Empty
<1>. QED
  BY <1>1, <1>2, <1>3 DEF Empty

\* An item that was read back is an item, and reads back as itself.
LEMMA ReadBackTwice ==
    ASSUME NEW i \in AnyItem
    PROVE  ReadBack(i) \in AnyItem /\ ReadBack(ReadBack(i)) = ReadBack(i)
<1>1. ReadBack(i) \in AnyItem
  <2>1. ASSUME NEW s \in Text PROVE Undash(s) \in Text
    BY CacheDBAssumption DEF Undash
  <2>2. i.code \in Nat /\ i.location \in Text /\ i.etag \in Text
    BY DEF AnyItem
  <2>. QED
    BY <2>1, <2>2 DEF AnyItem, ReadBack
<1>2. ASSUME NEW s PROVE Undash(Undash(s)) = Undash(s)
  BY DEF Undash
<1>3. ReadBack(ReadBack(i)) = ReadBack(i)
  BY <1>2 DEF ReadBack
<1>. QED
  BY <1>1, <1>3

\* So does a whole map, and any part of it.
LEMMA ReadableTwice ==
    ASSUME NEW m \in File
    PROVE  Readable(m) \in File /\ Readable(Readable(m)) = Readable(m)
<1>1. ASSUME NEW k \in Key
      PROVE  /\ Readable(m)[k] \in AnyItem
             /\ Readable(m)[k] = IF k \in Unparsable THEN Empty ELSE ReadBack(m[k])
  BY EmptyItem, ReadBackTwice DEF Readable, File
<1>2. Readable(m) \in File
  BY <1>1 DEF Readable, File
<1>3. ASSUME NEW k \in Key PROVE Readable(Readable(m))[k] = Readable(m)[k]
  <2>1. CASE k \in Unparsable
    BY <2>1 DEF Readable
  <2>2. CASE k \notin Unparsable
    <3>1. Readable(Readable(m))[k] = ReadBack(ReadBack(m[k])) /\ Readable(m)[k] = ReadBack(m[k])
      BY <2>2 DEF Readable
    <3>2. m[k] \in AnyItem
      BY DEF File
    <3>. QED
      BY <3>1, <3>2, ReadBackTwice
  <2>. QED
    BY <2>1, <2>2
<1>4. Readable(Readable(m)) = Readable(m)
  BY <1>3 DEF Readable
<1>. QED
  BY <1>2, <1>4

\* The file after a write that stopped early.
Part(m, kept) == [k \in Key |-> IF k \in kept THEN Readable(m)[k] ELSE Empty]

\* A file that was cut short still reads back as itself.
LEMMA PartReadable ==
    ASSUME NEW m \in File, NEW kept \in SUBSET Key
    PROVE  Part(m, kept) \in File /\ Readable(Part(m, kept)) = Part(m, kept)
<1>1. Readable(m) \in File
  BY ReadableTwice
<1>2. Part(m, kept) \in File
  BY <1>1, EmptyItem DEF Part, File
<1>3. ASSUME NEW k \in Key PROVE Readable(Part(m, kept))[k] = Part(m, kept)[k]
  <2>1. CASE k \notin kept
    BY <2>1, EmptyItem DEF Part, Readable
  <2>2. CASE k \in kept
    <3>1. Readable(Readable(m))[k] = Readable(m)[k]
      BY ReadableTwice
    <3>. QED
      BY <2>2, <3>1 DEF Part, Readable
  <2>. QED
    BY <2>1, <2>2
<1>4. Readable(Part(m, kept)) = Part(m, kept)
  BY <1>3 DEF Readable, Part
<1>. QED
  BY <1>2, <1>4

\* So does the empty file.
LEMMA BlankReadable == Blank \in File /\ Readable(Blank) = Blank
  BY EmptyItem DEF Blank, File, Readable

\* What Store leaves under a key is an item.
LEMMA StoredType == ASSUME NEW i \in Item PROVE Stored(i) \in AnyItem
  BY EmptyItem, CacheDBAssumption DEF Stored

-------------------------------------------------------------------------------
(* The cache is consistent *)

\* An empty cache is consistent.
LEMMA InitConsistent == Init => Consistent
<1>. SUFFICES ASSUME Init PROVE Consistent
  OBVIOUS
<1>1. TypeOK
  BY BlankReadable DEF Init, TypeOK
<1>2. SaveOK
  <2>1. 0 < MaxUnsaved /\ 0 <= MaxUnsaved
    BY LimitAssumption
  <2>2. open /\ alive /\ writer = "none" /\ stage = "idle" /\ temp = NoFile /\ unsaved = 0
    BY DEF Init
  <2>. QED
    BY <2>1, <2>2 DEF SaveOK
<1>3. FilesOK
  BY BlankReadable DEF Init, FilesOK
<1>. QED
  BY <1>1, <1>2, <1>3 DEF Consistent

\* Every step keeps it so.
LEMMA NextConsistent == Consistent /\ [Next]_vars => Consistent'
<1>. SUFFICES ASSUME Consistent, [Next]_vars PROVE Consistent'
  OBVIOUS
<1>. USE DEF Consistent
<1>a. MaxUnsaved \in Nat /\ MaxUnsaved > 0
  BY LimitAssumption
<1>b. NoFile \notin File
  BY CacheDBAssumption, Zenon DEF File
<1>1. ASSUME NEW k \in Key, NEW i \in Item, Store(k, i) PROVE Consistent'
  <2>1. TypeOK'
    <3>1. records' \in File
      BY <1>1, StoredType DEF Store, TypeOK, File
    <3>2. unsaved' \in Nat
      BY <1>1 DEF Store, Count, TypeOK
    <3>. QED
      BY <1>1, <3>1, <3>2 DEF Store, Begin, TypeOK
  <2>2. SaveOK'
    BY <1>1, <1>a DEF Store, Begin, Count, Unlocked, SaveOK, TypeOK
  <2>3. FilesOK'
    BY <1>1 DEF Store, FilesOK, Readable
  <2>. QED
    BY <2>1, <2>2, <2>3
<1>2. CASE Sync
  BY <1>2, <1>a DEF Sync, Begin, Unlocked, TypeOK, SaveOK, FilesOK, Readable
<1>3. CASE Close
  BY <1>3, <1>a DEF Close, Begin, Unlocked, TypeOK, SaveOK, FilesOK, Readable
<1>4. CASE WriteTemp
  <2>1. \/ temp' = Readable(records)
        \/ DiskMayFail /\ temp' = NoFile
        \/ DiskMayFail /\ \E kept \in SUBSET Key : temp' = Part(records, kept)
    BY <1>4 DEF WriteTemp, Part
  <2>2. records \in File
    BY DEF TypeOK
  <2>3. temp' \in File \union {NoFile}
    BY <2>1, <2>2, ReadableTwice, PartReadable
  <2>4. temp' # NoFile => Readable(temp') = temp'
    BY <2>1, <2>2, ReadableTwice, PartReadable
  <2>5. TypeOK'
    BY <1>4, <2>3 DEF WriteTemp, TypeOK
  <2>6. SaveOK'
    BY <1>4, <2>1 DEF WriteTemp, SaveOK, Readable
  <2>7. FilesOK'
    BY <1>4, <2>4 DEF WriteTemp, FilesOK, Readable
  <2>. QED
    BY <2>5, <2>6, <2>7
<1>5. CASE Rename
  <2>1. file' \in File /\ Readable(file') = file'
    BY <1>5 DEF Rename, TypeOK, FilesOK
  <2>2. TypeOK'
    BY <1>5, <2>1 DEF Rename, TypeOK
  <2>3. SaveOK'
    BY <1>5, <1>a DEF Rename, SaveOK
  <2>4. FilesOK'
    BY <1>5, <2>1 DEF Rename, FilesOK, Readable
  <2>. QED
    BY <2>2, <2>3, <2>4
<1>6. CASE Crash
  BY <1>6, BlankReadable DEF Crash, TypeOK, SaveOK, FilesOK, Readable
<1>7. CASE Open
  BY <1>7, <1>a DEF Open, TypeOK, SaveOK, FilesOK, Readable
<1>8. CASE UNCHANGED vars
  BY <1>8 DEF vars, TypeOK, SaveOK, FilesOK, Readable
<1>. QED
  BY <1>1, <1>2, <1>3, <1>4, <1>5, <1>6, <1>7, <1>8 DEF Next

\* The mutex is held exactly while a save is under way, the records do not move under
\* it, and what is on disk reads back as itself (db.go:163-250).
THEOREM ConsistentHolds == Spec => []Consistent
<1>. QED
  BY InitConsistent, NextConsistent, PTL DEF Spec

-------------------------------------------------------------------------------
(* A crash loses a bounded number of changes *)

LossOK == ~DiskMayFail /\ open => Cardinality(Lost) <= unsaved

\* The lost changes can be counted.
LEMMA LostFinite == IsFiniteSet(Lost) /\ Cardinality(Lost) \in Nat
<1>1. Lost \in SUBSET Key
  BY DEF Lost
<1>2. IsFiniteSet(Lost)
  BY <1>1, CacheDBAssumption, FS_Subset
<1>. QED
  BY <1>2, FS_CardinalityType

\* A Store puts at most one more key at risk.
LEMMA StoreLoss ==
    ASSUME NEW k \in Key, NEW i \in Item, Store(k, i), TypeOK
    PROVE  Cardinality(Lost') <= Cardinality(Lost) + 1
<1>1. \A j \in Key : j # k => Readable(records)'[j] = Readable(records)[j]
  BY DEF Store, Readable, TypeOK, File
<1>2. file' = file
  BY DEF Store
<1>3. Lost' \in SUBSET (Lost \union {k})
  BY <1>1, <1>2 DEF Lost
<1>4. IsFiniteSet(Lost \union {k}) /\ Cardinality(Lost \union {k}) <= Cardinality(Lost) + 1
  <2>1. IsFiniteSet(Lost) /\ Cardinality(Lost) \in Nat
    BY LostFinite
  <2>2. /\ IsFiniteSet(Lost \union {k})
        /\ Cardinality(Lost \union {k})
            = IF k \in Lost THEN Cardinality(Lost) ELSE Cardinality(Lost) + 1
    BY <2>1, FS_AddElement, Zenon
  <2>. QED
    BY <2>1, <2>2
<1>5. IsFiniteSet(Lost') /\ Cardinality(Lost') <= Cardinality(Lost \union {k})
  BY <1>3, <1>4, FS_Subset
<1>6. Cardinality(Lost') \in Nat /\ Cardinality(Lost \union {k}) \in Nat
  BY <1>4, <1>5, FS_CardinalityType
<1>. QED
  BY <1>4, <1>5, <1>6, LostFinite

\* Whatever a step does, the lost changes are among the unsaved ones.
LEMMA NextLoss == Consistent /\ LossOK /\ [Next]_vars => LossOK'
<1>. SUFFICES ASSUME Consistent, LossOK, [Next]_vars, ~DiskMayFail, open'
              PROVE  Cardinality(Lost') <= unsaved'
  BY DEF LossOK
<1>. USE DEF Consistent
<1>0. Cardinality({}) = 0
  BY FS_EmptySet
<1>1. ASSUME NEW k \in Key, NEW i \in Item, Store(k, i)
      PROVE  Cardinality(Lost') <= unsaved'
  <2>1. open /\ unsaved' = unsaved + 1 /\ unsaved \in Nat
    BY <1>1 DEF Store, Count, TypeOK
  <2>2. Cardinality(Lost) <= unsaved
    BY <2>1 DEF LossOK
  <2>3. Cardinality(Lost') <= Cardinality(Lost) + 1
    BY <1>1, StoreLoss
  <2>4. Cardinality(Lost) \in Nat
    BY LostFinite
  <2>5. Cardinality(Lost') \in Nat
    <3>1. Lost' \in SUBSET Key
      BY DEF Lost
    <3>. QED
      BY <3>1, CacheDBAssumption, FS_Subset, FS_CardinalityType
  <2>. QED
    BY <2>1, <2>2, <2>3, <2>4, <2>5
<1>2. CASE UNCHANGED <<records, unsaved, open, file>>
  BY <1>2 DEF LossOK, Lost, Readable
<1>3. CASE Rename
  <2>1. temp = Readable(records)
    BY <1>3 DEF Rename, SaveOK
  <2>2. temp # NoFile
    <3>1. records \in File
      BY DEF TypeOK
    <3>2. Readable(records) \in File
      BY <3>1, ReadableTwice
    <3>. QED
      BY <2>1, <3>2, CacheDBAssumption, Zenon DEF File
  <2>3. file' = Readable(records)' /\ unsaved' = 0
    BY <1>3, <2>1, <2>2 DEF Rename, Readable
  <2>4. Lost' = {}
    BY <2>3 DEF Lost
  <2>. QED
    BY <1>0, <2>3, <2>4
<1>4. CASE Open
  <2>1. file' = Readable(records)' /\ unsaved' = 0
    BY <1>4 DEF Open, FilesOK, Readable
  <2>2. Lost' = {}
    BY <2>1 DEF Lost
  <2>. QED
    BY <1>0, <2>1, <2>2
<1>5. CASE Crash
  BY <1>5 DEF Crash
<1>6. CASE Sync
  BY <1>2, <1>6 DEF Sync
<1>7. CASE Close
  BY <1>2, <1>7 DEF Close
<1>8. CASE WriteTemp
  BY <1>2, <1>8 DEF WriteTemp
<1>9. CASE UNCHANGED vars
  BY <1>2, <1>9 DEF vars
<1>. QED
  BY <1>1, <1>3, <1>4, <1>5, <1>6, <1>7, <1>8, <1>9 DEF Next

\* Nothing is lost at the start.
LEMMA BoundedLossInit == Init => LossOK
<1>. SUFFICES ASSUME Init PROVE Cardinality(Lost) <= unsaved
  BY DEF LossOK
<1>1. Lost = {} /\ unsaved = 0
  BY BlankReadable DEF Init, Lost
<1>. QED
  BY <1>1, FS_EmptySet

\* On a disk that works, a crash loses at most the changes counted as unsaved, and
\* these are at most maxNumberOfUnsavedItems (db.go:191-199, 221).
THEOREM BoundedLossHolds == Spec => []BoundedLoss
<1>1. Init => LossOK
  BY BoundedLossInit
<1>2. Consistent /\ LossOK => BoundedLoss
  BY DEF Consistent, LossOK, BoundedLoss, SaveOK
<1>. QED
  BY <1>1, <1>2, ConsistentHolds, NextLoss, PTL DEF Spec

-------------------------------------------------------------------------------
(* What is on disk changes only by saving *)

\* On a disk that works, a file that was written whole takes the place of the old one.
LEMMA RenameSaves ==
    ASSUME Consistent, Rename, ~DiskMayFail
    PROVE  /\ file' = Readable(records) /\ Readable(records)' = Readable(records)
           /\ alive /\ open
<1>. USE DEF Consistent
<1>1. temp = Readable(records)
  BY DEF Rename, SaveOK
<1>2. temp # NoFile
  <2>1. records \in File
    BY DEF TypeOK
  <2>2. Readable(records) \in File
    BY <2>1, ReadableTwice
  <2>. QED
    BY <1>1, <2>2, CacheDBAssumption, Zenon DEF File
<1>3. alive /\ open
  BY DEF Rename, SaveOK
<1>. QED
  BY <1>1, <1>2, <1>3 DEF Rename, Readable

\* Close returns with everything saved (db.go:113-127).
THEOREM CloseSavesTheorem == Spec => CloseSaves
<1>. DEFINE Saving == ~DiskMayFail /\ open /\ ~open' /\ alive' => file' = Readable(records')
<1>1. Consistent /\ LossOK /\ [Next]_vars => [Saving]_vars
  <2>. SUFFICES ASSUME Consistent, LossOK, [Next]_vars, ~DiskMayFail, open, ~open', alive'
                PROVE  file' = Readable(records')
    OBVIOUS
  <2>1. CASE Rename
    BY <2>1, RenameSaves DEF Readable
  <2>2. CASE Close
    <3>1. unsaved = 0 /\ file' = file /\ records' = records
      <4>1. unsaved \in Nat /\ ~(unsaved > 0)
        BY <2>2 DEF Close, Consistent, TypeOK
      <4>. QED
        BY <2>2, <4>1 DEF Close
    <3>2. Cardinality(Lost) = 0
      BY <3>1, LostFinite DEF LossOK
    <3>3. Lost = {}
      BY <3>2, LostFinite, FS_EmptySet
    <3>4. file = Readable(records)
      <4>1. \A k \in Key : file[k] = Readable(records)[k]
        BY <3>3 DEF Lost
      <4>2. file \in [Key -> AnyItem]
        BY DEF Consistent, TypeOK, File
      <4>. QED
        BY <4>1, <4>2 DEF Readable
    <3>. QED
      BY <3>1, <3>4
  <2>3. CASE Crash
    BY <2>3 DEF Crash
  <2>. QED
    BY <2>1, <2>2, <2>3 DEF Next, Store, Sync, WriteTemp, Open, vars
<1>2. Init => LossOK
  BY BoundedLossInit
<1>. QED
  BY <1>1, <1>2, ConsistentHolds, NextLoss, PTL DEF Spec, CloseSaves

\* Nothing reaches the disk after Close has returned (db.go:125, 205-207).
THEOREM QuietWhenClosedTheorem == Spec => QuietWhenClosed
<1>1. Consistent /\ [Next]_vars => [~open => file' = file]_vars
  <2>. SUFFICES ASSUME Consistent, [Next]_vars, ~open PROVE file' = file
    OBVIOUS
  <2>1. ~Rename
    BY DEF Rename, Consistent, SaveOK
  <2>. QED
    BY <2>1 DEF Next, Store, Sync, Close, WriteTemp, Crash, Open, vars
<1>. QED
  BY <1>1, ConsistentHolds, PTL DEF Spec, QuietWhenClosed

-------------------------------------------------------------------------------
(* The cache is a crash-safe map *)

\* A Store is a Put of what will be read back, or invisible under a key that is not.
LEMMA StorePuts ==
    ASSUME NEW k \in Key, NEW i \in Item, Store(k, i), Consistent
    PROVE  Durable!Next \/ UNCHANGED Durable!vars
<1>1. alive /\ alive' /\ file' = file
  BY DEF Store, Unlocked
<1>2. records \in File /\ records' = [records EXCEPT ![k] = Stored(i)]
  BY DEF Store, Consistent, TypeOK
<1>3. CASE k \in Unparsable
  <2>1. Readable(records)' = Readable(records)
    BY <1>2, <1>3 DEF Readable, File
  <2>. QED
    BY <1>1, <2>1 DEF Durable!vars
<1>4. CASE k \notin Unparsable
  <2>1. Readable(records)' = [Readable(records) EXCEPT ![k] = ReadBack(Stored(i))]
    BY <1>2, <1>4 DEF Readable, File
  <2>2. ReadBack(Stored(i)) \in Saved
    BY DEF Saved
  <2>3. Durable!Put(k, ReadBack(Stored(i)))
    BY <1>1, <2>1 DEF Durable!Put
  <2>. QED
    BY <2>2, <2>3 DEF Durable!Next
<1>. QED
  BY <1>3, <1>4

\* The steps of the cache are steps of the map.
LEMMA StepIsDurable ==
    ASSUME Consistent, [Next]_vars, ~DiskMayFail
    PROVE  Durable!Next \/ UNCHANGED Durable!vars
<1>1. ASSUME NEW k \in Key, NEW i \in Item, Store(k, i)
      PROVE  Durable!Next \/ UNCHANGED Durable!vars
  BY <1>1, StorePuts
<1>2. CASE UNCHANGED <<records, alive, file>>
  BY <1>2 DEF Durable!vars, Readable
<1>3. CASE Rename
  <2>1. /\ file' = Readable(records) /\ Readable(records)' = Readable(records)
        /\ alive
    BY <1>3, RenameSaves
  <2>2. alive' = alive
    BY <1>3 DEF Rename
  <2>3. Durable!Save
    BY <2>1, <2>2 DEF Durable!Save
  <2>. QED
    BY <2>3 DEF Durable!Next
<1>4. CASE Crash
  <2>1. Durable!FallBack
    BY <1>4 DEF Crash, Durable!FallBack
  <2>. QED
    BY <2>1 DEF Durable!Next
<1>5. CASE Open
  <2>1. Readable(records)' = file /\ alive' /\ file' = file
    BY <1>5 DEF Open, Consistent, FilesOK, Readable
  <2>2. Durable!FallBack
    BY <2>1 DEF Durable!FallBack
  <2>. QED
    BY <2>2 DEF Durable!Next
<1>6. CASE Sync
  BY <1>2, <1>6 DEF Sync
<1>7. CASE Close
  BY <1>2, <1>7 DEF Close
<1>8. CASE WriteTemp
  BY <1>2, <1>8 DEF WriteTemp
<1>9. CASE UNCHANGED vars
  BY <1>2, <1>9 DEF vars
<1>. QED
  BY <1>1, <1>3, <1>4, <1>5, <1>6, <1>7, <1>8, <1>9 DEF Next

\* On a disk that works the cache implements DurableMap: what would be read back of
\* memory and of the file change only as a crash-safe map may (db.go:163-222).
THEOREM CacheIsDurable ==
    ASSUME ~DiskMayFail
    PROVE  Spec => ImplementsDurableMap
<1>1. Init => Durable!Init
  BY BlankReadable DEF Init, Durable!Init, Blank, Durable!Blank
<1>2. Consistent /\ [Next]_vars => [Durable!Next]_(Durable!vars)
  BY StepIsDurable
<1>. QED
  BY <1>1, <1>2, ConsistentHolds, PTL DEF Spec, ImplementsDurableMap, Durable!Spec
===============================================================================
