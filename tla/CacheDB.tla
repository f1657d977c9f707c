-------------------------------- MODULE CacheDB --------------------------------
(***************************************************************************)
(* The metadata cache of db/db.go: a map in memory that any goroutine may  *)
(* change, saved to one file by whichever of Store, Close and the periodic *)
(* sync finds unsaved changes.  The mutex is held while a save writes the  *)
(* temporary file and renames it; the process may be killed between any    *)
(* two steps and started again, and the disk may fail.                     *)
(***************************************************************************)
EXTENDS Integers, FiniteSets

CONSTANTS
    Key,          \* canonical URLs, as keyOf makes them
    Unparsable,   \* the keys with a tab or a newline: their line does not read back
                  \* (what follows a newline comes back under a key that no URL has)
    Text,         \* header texts: locations and ETags
    Item,         \* the items the program stores
    MaxUnsaved,   \* maxNumberOfUnsavedItems
    DiskMayFail,  \* whether creating, writing or renaming a file may fail
    NoFile        \* stands for a temporary file that does not exist

\* Item{}, what Lookup gives for a key that is not in the map.
Empty == [code |-> 0, location |-> "", etag |-> ""]
AnyItem == [code : Nat, location : Text, etag : Text]

ASSUME CacheDBAssumption ==
    /\ IsFiniteSet(Key) /\ Unparsable \subseteq Key
    /\ "" \in Text
    /\ Item \subseteq AnyItem /\ Empty \in Item
    /\ NoFile \notin [Key -> AnyItem]

ASSUME LimitAssumption ==
    /\ MaxUnsaved \in Nat \ {0}
    /\ DiskMayFail \in BOOLEAN

VARIABLES
    records,  \* the map in memory
    unsaved,  \* unsavedItems
    open,     \* store.dir # "": Close has not completed
    alive,    \* the process that holds the map is running
    writer,   \* who holds the mutex to save: "none", "store", "sync" or "close"
    stage,    \* what it does next: "idle", "temp" (write the file) or "rename"
    temp,     \* the temporary file, as it would be read back
    file      \* the file, as it would be read back

vars == <<records, unsaved, open, alive, writer, stage, temp, file>>

Blank == [k \in Key |-> Empty]

-------------------------------------------------------------------------------

\* Strings and parseItem: an empty field is written as a dash, and a dash is read
\* as an empty field.
Undash(s) == IF s = "-" THEN "" ELSE s
ReadBack(i) == [code |-> i.code, location |-> Undash(i.location), etag |-> Undash(i.etag)]

\* What writeFile followed by readFile makes of a map.
Readable(m) == [k \in Key |-> IF k \in Unparsable THEN Empty ELSE ReadBack(m[k])]

Redirects == {301, 302, 303, 307, 308}

\* The switch of Store: what it leaves under the key.  Other codes panic.
Accepted(i) == i.code \in {200, 404} \union Redirects \/ i = Empty
Stored(i) == IF i.code \in Redirects /\ i.location = "" THEN Empty ELSE i

Init ==
    /\ records = Blank /\ unsaved = 0
    /\ open = TRUE /\ alive = TRUE
    /\ writer = "none" /\ stage = "idle"
    /\ temp = NoFile /\ file = Blank

\* A caller that has the mutex starts to write.
Begin(who) == writer' = who /\ stage' = "temp"

\* Nobody holds the mutex.  The mistake: it is not held while the file is written.
NeverLocked == alive
Unlocked == alive /\ writer = "none"

\* Store counts every change.  The mistake: a deletion is not counted.
CountExcept(new) == IF new = Empty THEN unsaved ELSE unsaved + 1
Count(new) == unsaved + 1

\* Store, by any goroutine.  After Close it still changes the map, which is not
\* saved any more (bound: at most MaxUnsaved such changes are followed).
Store(k, i) ==
    /\ Unlocked /\ Accepted(i)
    /\ open \/ unsaved < MaxUnsaved
    /\ records' = [records EXCEPT ![k] = Stored(i)]
    /\ unsaved' = Count(Stored(i))
    /\ IF open /\ unsaved' >= MaxUnsaved THEN Begin("store") ELSE UNCHANGED <<writer, stage>>
    /\ UNCHANGED <<open, alive, temp, file>>

\* Two mistakes: the sync goes on after Close, and it waits for a second change.
SyncWhenClosed ==
    /\ Unlocked /\ unsaved > 0
    /\ Begin("sync")
    /\ UNCHANGED <<records, unsaved, open, alive, temp, file>>
SyncLate ==
    /\ Unlocked /\ open /\ unsaved > 1
    /\ Begin("sync")
    /\ UNCHANGED <<records, unsaved, open, alive, temp, file>>

\* One turn of syncPeriodically.
Sync ==
    /\ Unlocked /\ open /\ unsaved > 0
    /\ Begin("sync")
    /\ UNCHANGED <<records, unsaved, open, alive, temp, file>>

\* A mistake: Close leaves what is unsaved to the sync.
CloseUnsaved ==
    /\ Unlocked /\ open
    /\ open' = FALSE
    /\ UNCHANGED <<records, unsaved, alive, writer, stage, temp, file>>

Close ==
    /\ Unlocked /\ open
    /\ IF unsaved > 0
       THEN Begin("close") /\ open' = open
       ELSE open' = FALSE /\ UNCHANGED <<writer, stage>>
    /\ UNCHANGED <<records, unsaved, alive, temp, file>>

\* A mistake: the file itself is written, not a temporary one.
WriteInPlace ==
    /\ stage = "temp"
    /\ \E kept \in SUBSET Key :
            file' = [k \in Key |-> IF k \in kept THEN Readable(records)[k] ELSE Empty]
    /\ temp' = Readable(records)
    /\ stage' = "rename"
    /\ UNCHANGED <<records, unsaved, open, alive, writer>>

\* writeFile.  When the file cannot be created there is none; when a line cannot be
\* written, or the final flush fails, the file holds some of the records only.
WriteTemp ==
    /\ stage = "temp"
    /\ \/ temp' = Readable(records)
       \/ /\ DiskMayFail
          /\ \/ temp' = NoFile
             \/ \E kept \in SUBSET Key :
                    temp' = [k \in Key |-> IF k \in kept THEN Readable(records)[k] ELSE Empty]
    /\ stage' = "rename"
    /\ UNCHANGED <<records, unsaved, open, alive, writer, file>>

\* writeFileAtomically from the rename on: the temporary file takes the place of the
\* file or is removed, and the records count as saved either way.
Rename ==
    /\ stage = "rename"
    /\ \/ temp # NoFile /\ file' = temp
       \/ (temp = NoFile \/ DiskMayFail) /\ file' = file
    /\ temp' = NoFile /\ unsaved' = 0
    /\ stage' = "idle" /\ writer' = "none"
    /\ open' = (open /\ writer # "close")
    /\ UNCHANGED <<records, alive>>

\* The process is killed: what is in memory is lost, a temporary file stays behind.
Crash ==
    /\ alive
    /\ alive' = FALSE /\ open' = FALSE
    /\ records' = Blank /\ unsaved' = 0
    /\ writer' = "none" /\ stage' = "idle" /\ temp' = NoFile
    /\ file' = file

\* OpenDB, after Close or in a new process.
Open ==
    /\ ~open /\ writer = "none"
    /\ alive' = TRUE /\ open' = TRUE
    /\ records' = file /\ unsaved' = 0
    /\ UNCHANGED <<writer, stage, temp, file>>

Next ==
    \/ \E k \in Key, i \in Item : Store(k, i)
    \/ Sync \/ Close \/ WriteTemp \/ Rename
    \/ Crash \/ Open

Spec == Init /\ [][Next]_vars

\* The sync goroutine wakes every second and gets the mutex in its turn; a save that
\* has begun goes on.
FairSpec == Spec /\ WF_vars(Sync) /\ WF_vars(WriteTemp \/ Rename)

-------------------------------------------------------------------------------

\* The type invariant.
File == [Key -> AnyItem]
TypeOK ==
    /\ records \in File /\ file \in File
    /\ unsaved \in Nat
    /\ open \in BOOLEAN /\ alive \in BOOLEAN
    /\ writer \in {"none", "store", "sync", "close"}
    /\ stage \in {"idle", "temp", "rename"}
    /\ temp \in File \union {NoFile}

\* The inductive invariant, with BoundedLoss: the mutex is held exactly while a save
\* is under way, and the records do not move under it; changes reach the limit only
\* when a save has begun; what is on disk reads back as itself.
SaveOK ==
    /\ open => alive
    /\ writer = "none" <=> stage = "idle"
    /\ writer # "none" => open
    /\ stage # "rename" => temp = NoFile
    /\ stage = "rename" /\ ~DiskMayFail => temp = Readable(records)
    /\ open => unsaved <= MaxUnsaved
    /\ open /\ writer = "none" => unsaved < MaxUnsaved
FilesOK ==
    /\ Readable(file) = file
    /\ temp # NoFile => Readable(temp) = temp
Consistent == TypeOK /\ SaveOK /\ FilesOK

\* The changes that a crash at this moment would lose.
Lost == {k \in Key : file[k] # Readable(records)[k]}

\* A crash loses at most the changes counted as unsaved, and these are at most
\* maxNumberOfUnsavedItems, on a disk that works (db.go:191-199, 221).
BoundedLoss ==
    ~DiskMayFail /\ alive /\ open => Cardinality(Lost) <= unsaved /\ unsaved <= MaxUnsaved

\* On a disk that works, Close returns with everything saved (db.go:113-127).
CloseSaves ==
    [][~DiskMayFail /\ open /\ ~open' /\ alive' => file' = Readable(records')]_vars

\* Nothing reaches the disk after Close has returned (db.go:125, 205-207).
QuietWhenClosed == [][~open => file' = file]_vars

\* The cache is a crash-safe map: what a reader of the file would get and what is in
\* memory change as in DurableMap (db.go:163-222).
Saved == {ReadBack(Stored(i)) : i \in Item}
Durable == INSTANCE DurableMap WITH
    Value <- Saved, Absent <- Empty,
    map <- IF alive THEN Readable(records) ELSE file, disk <- file
ImplementsDurableMap == Durable!Spec

\* What is stored and not changed again is on disk sooner or later, unless the store
\* is closed or the process killed before (db.go:263-278).
EventuallySaved ==
    \A k \in Key \ Unparsable, i \in Item :
        open /\ records[k] = i ~> file[k] = ReadBack(i) \/ records[k] # i \/ ~open
===============================================================================
