---------------------------- MODULE LocalCopyProofs ----------------------------
(***************************************************************************)
(* Proofs about the local copy, for any number of on-demand handlers,      *)
(* versions and failures.                                                  *)
(***************************************************************************)
EXTENDS LocalCopy, TLAPS

Steps == {"idle", "stat", "ask", "store", "remove"} \union Storing

\* What an actor knows at each step: a download that has got so far has a version, and
\* renames only what it has written whole.
Holds(p) ==
    /\ pc[p] \in Storing => got[p] # None
    /\ got[p] # None => got[p] <= version
    /\ pc[p] = "rename" => temp[p] = "whole"
WholeInv == FileIsWhole /\ \A p \in Actors : Holds(p)

\* Nothing has happened yet.
LEMMA InitType == Init => TypeOK
<1>. SUFFICES ASSUME Init PROVE TypeOK
  OBVIOUS
<1>1. 0 \in Version /\ MaxVersion \in Nat
  BY LocalCopyAssumption DEF Version
<1>2. tags \in [{"url"} -> Version \union {None}] /\ saved \in [{"url"} -> Version \union {None}]
  BY DEF Init, Cache!Init, Cache!Blank
<1>. QED
  BY <1>1, <1>2 DEF Init, TypeOK

\* Every step of an actor keeps the types.
LEMMA ActorType ==
    ASSUME TypeOK, NEW p \in Actors, Holds(p), ProcessURL(p)
    PROVE  TypeOK'
<1>. USE DEF TypeOK
<1>1. CASE Lookup(p)
  BY <1>1 DEF Lookup, Goes, originVars, cacheVars
<1>2. CASE Stat(p)
  <2>1. ModificationTime \in Version \union {None}
    BY DEF ModificationTime, Copy
  <2>. QED
    BY <1>2, <2>1 DEF Stat, Goes, originVars, cacheVars
<1>3. CASE Fresh(p) \/ NotModified(p) \/ Refused(p)
  BY <1>3 DEF Fresh, NotModified, Refused, Ends, Goes, originVars, cacheVars
<1>4. CASE Answered(p)
  BY <1>4 DEF Answered, Goes, originVars, cacheVars
<1>5. CASE Gone(p)
  BY <1>5 DEF Gone, Goes, originVars, cacheVars
<1>6. CASE Remove(p)
  BY <1>6 DEF Remove, Ends, Goes, originVars, cacheVars
<1>7. CASE Store(p)
  <2>1. tags' \in [{"url"} -> Version \union {None}] /\ saved' = saved
    BY <1>7 DEF Store, Cache!Put
  <2>2. /\ pc' \in [Actors -> Steps]
        /\ tag' \in [Actors -> Version \union {None}]
        /\ modified' \in [Actors -> Version \union {None}]
        /\ got' \in [Actors -> Version \union {None}]
    BY <1>7 DEF Store, Ends, Goes, Steps, Storing
  <2>. QED
    BY <1>7, <2>1, <2>2 DEF Store, originVars, Steps
<1>8. CASE Body(p)
  BY <1>8 DEF Body, Fails, Ends, Goes, Storing, originVars, cacheVars
<1>9. CASE Create(p)
  BY <1>9 DEF Create, Fails, Ends, Goes, Storing, originVars, cacheVars
<1>10. CASE Write(p)
  BY <1>10 DEF Write, Fails, Ends, Goes, Storing, originVars, cacheVars
<1>11. CASE Rename(p)
  <2>1. file' \in Copy \union {None}
    <3>1. got[p] \in Version
      BY <1>11 DEF Rename, Holds, Storing
    <3>2. [version |-> got[p], whole |-> temp[p] = "whole", time |-> version] \in Copy
      BY <3>1 DEF Copy
    <3>3. CASE InPlace(p)
      BY <3>2, <3>3 DEF InPlace
    <3>. QED
      BY <1>11, <3>3 DEF Rename
  <2>2. /\ temp' \in [Actors -> {None, "partial", "whole"}]
        /\ pc' \in [Actors -> Steps] /\ doubt' \in BOOLEAN
        /\ tag' \in [Actors -> Version \union {None}]
        /\ modified' \in [Actors -> Version \union {None}]
        /\ got' \in [Actors -> Version \union {None}]
    BY <1>11 DEF Rename, InPlace, Fails, Ends, Goes, Steps, Storing
  <2>. QED
    BY <1>11, <2>1, <2>2 DEF Rename, originVars, cacheVars, Steps
<1>12. CASE Stamp(p)
  <2>1. file' \in Copy \union {None}
    <3>1. got[p] \in Version
      BY <1>12 DEF Stamp, Holds, Storing
    <3>. QED
      BY <1>12, <3>1 DEF Stamp, Copy
  <2>2. /\ pc' \in [Actors -> Steps] /\ doubt' \in BOOLEAN
        /\ tag' \in [Actors -> Version \union {None}]
        /\ modified' \in [Actors -> Version \union {None}]
        /\ got' \in [Actors -> Version \union {None}]
    BY <1>12 DEF Stamp, Fails, Ends, Goes, Steps, Storing
  <2>. QED
    BY <1>12, <2>1, <2>2 DEF Stamp, originVars, cacheVars, Steps
<1>. QED
  BY <1>1, <1>2, <1>3, <1>4, <1>5, <1>6, <1>7, <1>8, <1>9, <1>10, <1>11, <1>12
  DEF ProcessURL

\* So does the environment.
LEMMA EnvironmentType ==
    ASSUME TypeOK, Publish \/ Move \/ MakeDirectory \/ Save \/ Crash \/ UNCHANGED vars
    PROVE  TypeOK'
<1>. USE DEF TypeOK
<1>1. CASE Publish
  <2>1. version' \in Version
    BY <1>1, LocalCopyAssumption DEF Publish, Version
  <2>. QED
    BY <1>1, <2>1 DEF Publish, cacheVars, actorVars
<1>2. CASE Move
  BY <1>2 DEF Move, cacheVars, actorVars
<1>3. CASE MakeDirectory
  BY <1>3 DEF MakeDirectory, originVars, cacheVars, actorVars
<1>4. CASE Save
  BY <1>4 DEF Save, Cache!Save, originVars, actorVars
<1>5. CASE Crash
  BY <1>5 DEF Crash, Cache!FallBack, originVars
<1>6. CASE UNCHANGED vars
  BY <1>6 DEF vars
<1>. QED
  BY <1>1, <1>2, <1>3, <1>4, <1>5, <1>6

-------------------------------------------------------------------------------
(* The file is always whole *)

\* A step of p leaves what the others know alone.
LEMMA OthersUntouched ==
    ASSUME TypeOK, NEW p \in Actors, NEW q \in Actors, p # q, ProcessURL(p)
    PROVE  /\ pc'[q] = pc[q] /\ got'[q] = got[q] /\ temp'[q] = temp[q]
           /\ tag'[q] = tag[q] /\ modified'[q] = modified[q]
<1>. USE DEF TypeOK
<1>1. CASE Lookup(p) \/ Stat(p) \/ Fresh(p) \/ NotModified(p) \/ Refused(p)
  BY <1>1 DEF Lookup, Stat, Fresh, NotModified, Refused, Ends, Goes
<1>2. CASE Answered(p) \/ Gone(p) \/ Remove(p) \/ Store(p)
  BY <1>2 DEF Answered, Gone, Remove, Store, Ends, Goes
<1>3. CASE Body(p) \/ Create(p) \/ Write(p)
  BY <1>3 DEF Body, Create, Write, Fails, Ends, Goes
<1>4. CASE Rename(p) \/ Stamp(p)
  BY <1>4 DEF Rename, InPlace, Stamp, Fails, Ends, Goes
<1>. QED
  BY <1>1, <1>2, <1>3, <1>4 DEF ProcessURL

\* A step of p keeps what p knows in order.
LEMMA ActorHolds ==
    ASSUME TypeOK, NEW p \in Actors, Holds(p), ProcessURL(p)
    PROVE  Holds(p)'
<1>. USE DEF TypeOK, Holds, Storing
<1>0. /\ version' = version /\ version \in Nat
      /\ got[p] \in Nat \union {None}
  <2>1. version' = version
    BY DEF ProcessURL, Lookup, Stat, Fresh, NotModified, Refused, Answered, Gone, Remove,
           Store, Body, Create, Write, Rename, Stamp, originVars
  <2>. QED
    BY <2>1, LocalCopyAssumption DEF Version
<1>1. CASE Lookup(p) \/ Stat(p) \/ Fresh(p) \/ NotModified(p) \/ Refused(p)
  BY <1>0, <1>1 DEF Lookup, Stat, Fresh, NotModified, Refused, Ends, Goes
<1>2. CASE Answered(p) \/ Gone(p) \/ Remove(p) \/ Store(p)
  BY <1>0, <1>2 DEF Answered, Gone, Remove, Store, Ends, Goes
<1>3. CASE Body(p) \/ Create(p) \/ Write(p)
  BY <1>0, <1>3 DEF Body, Create, Write, Fails, Ends, Goes
<1>4. CASE Rename(p) \/ Stamp(p)
  BY <1>0, <1>4 DEF Rename, InPlace, Stamp, Fails, Ends, Goes
<1>. QED
  BY <1>1, <1>2, <1>3, <1>4 DEF ProcessURL

\* The file changes only by a rename, by its time, or by being removed.
LEMMA ActorWhole ==
    ASSUME WholeInv, NEW p \in Actors, ProcessURL(p)
    PROVE  WholeInv'
<1>. USE DEF WholeInv, FileIsWhole
<1>1. TypeOK'
  BY ActorType
<1>2. ASSUME NEW q \in Actors PROVE Holds(q)'
  <2>1. CASE q = p
    BY <2>1, ActorHolds
  <2>2. CASE q # p
    <3>1. /\ pc'[q] = pc[q] /\ got'[q] = got[q] /\ temp'[q] = temp[q]
      BY <2>2, OthersUntouched
    <3>2. version' = version
      BY DEF ProcessURL, Lookup, Stat, Fresh, NotModified, Refused, Answered, Gone, Remove,
             Store, Body, Create, Write, Rename, Stamp, originVars
    <3>. QED
      BY <3>1, <3>2 DEF Holds
  <2>. QED
    BY <2>1, <2>2
<1>3. file' # None => file'.whole /\ file'.version <= version'
  <2>1. CASE file' = file /\ version' = version
    BY <2>1
  <2>2. CASE Rename(p)
    <3>1. got[p] <= version /\ temp[p] = "whole" /\ version' = version
      BY <2>2 DEF Rename, Holds, Storing, originVars
    <3>2. CASE InPlace(p)
      <4>1. file' = [version |-> got[p], whole |-> temp[p] = "whole", time |-> version]
        BY <3>2 DEF InPlace
      <4>2. file'.version = got[p] /\ file'.whole = (temp[p] = "whole")
        BY <4>1
      <4>. QED
        BY <3>1, <4>2
    <3>. QED
      BY <2>2, <3>1, <3>2 DEF Rename
  <2>3. CASE Stamp(p)
    BY <2>3 DEF Stamp, originVars, TypeOK, Copy
  <2>4. CASE Remove(p)
    BY <2>4 DEF Remove
  <2>. QED
    BY <2>1, <2>2, <2>3, <2>4
    DEF ProcessURL, Lookup, Stat, Fresh, NotModified, Refused, Answered, Gone, Store, Body,
        Create, Write, originVars
<1>. QED
  BY <1>1, <1>2, <1>3

\* Neither does the environment spoil it.
LEMMA EnvironmentWhole ==
    ASSUME WholeInv, Publish \/ Move \/ MakeDirectory \/ Save \/ Crash \/ UNCHANGED vars
    PROVE  WholeInv'
<1>. USE DEF WholeInv, FileIsWhole
<1>1. TypeOK'
  BY EnvironmentType
<1>2. file' = file /\ version \in Nat /\ version' \in Nat /\ version <= version'
  BY <1>1, LocalCopyAssumption
  DEF TypeOK, Version, Publish, Move, MakeDirectory, Save, Crash, originVars, vars
<1>3. file # None => file.version \in Nat
  BY LocalCopyAssumption DEF TypeOK, Copy, Version
<1>4. ASSUME NEW q \in Actors PROVE Holds(q)'
  <2>1. CASE Crash
    BY <2>1, LocalCopyAssumption DEF Crash, Holds, Storing, TypeOK
  <2>2. CASE UNCHANGED actorVars
    <3>1. got[q] # None => got[q] \in Nat
      BY LocalCopyAssumption DEF TypeOK, Version
    <3>. QED
      BY <1>2, <2>2, <3>1 DEF actorVars, Holds
  <2>. QED
    BY <2>1, <2>2 DEF Publish, Move, MakeDirectory, Save, vars, actorVars
<1>. QED
  BY <1>1, <1>2, <1>3, <1>4

\* The inductive invariant holds throughout.
LEMMA WholeInvHolds == Spec => []WholeInv
<1>1. Init => WholeInv
  BY InitType DEF WholeInv, FileIsWhole, Init, Holds, Storing
<1>2. WholeInv /\ [Next]_vars => WholeInv'
  BY ActorWhole, EnvironmentWhole DEF Next
<1>. QED
  BY <1>1, <1>2, PTL DEF Spec

\* Whatever fails, overlaps or is killed, the file is all of some version that the
\* server has had (fs.go:30-63).
THEOREM FileIsWholeHolds == Spec => []FileIsWhole
<1>1. WholeInv => FileIsWhole
  BY DEF WholeInv
<1>. QED
  BY <1>1, WholeInvHolds, PTL

-------------------------------------------------------------------------------
(* No temporary file is left *)

\* A process that lives leaves no temporary file, unless closing one fails
\* (fs.go:46-61).
THEOREM NoTemporaryLeftHolds == Spec => []NoTemporaryLeft
<1>1. Init => NoTemporaryLeft
  BY DEF Init, NoTemporaryLeft
<1>2. FileIsWhole /\ NoTemporaryLeft /\ [Next]_vars => NoTemporaryLeft'
  <2>. SUFFICES ASSUME TypeOK, [Next]_vars, "close" \notin Failing,
                       \A q \in Actors : temp[q] # None => pc[q] \in {"copy", "rename"},
                       NEW q \in Actors, temp'[q] # None
                PROVE  pc'[q] \in {"copy", "rename"}
    BY DEF NoTemporaryLeft, FileIsWhole
  <2>. USE DEF TypeOK
  <2>1. ASSUME NEW p \in Actors, ProcessURL(p) PROVE pc'[q] \in {"copy", "rename"}
    <3>1. CASE p # q
      BY <2>1, <3>1, OthersUntouched
    <3>2. CASE p = q /\ (Lookup(p) \/ Stat(p) \/ Fresh(p) \/ NotModified(p) \/ Refused(p))
      BY <3>2 DEF Lookup, Stat, Fresh, NotModified, Refused
    <3>3. CASE p = q /\ (Answered(p) \/ Gone(p) \/ Remove(p) \/ Store(p))
      BY <3>3 DEF Answered, Gone, Remove, Store
    <3>4. CASE p = q /\ (Body(p) \/ Stamp(p))
      BY <3>4 DEF Body, Stamp
    <3>5. CASE p = q /\ (Create(p) \/ Write(p) \/ Rename(p))
      BY <3>5 DEF Create, Write, Rename, InPlace, Fails, Ends, Goes
    <3>. QED
      BY <2>1, <3>1, <3>2, <3>3, <3>4, <3>5 DEF ProcessURL
  <2>2. CASE Crash
    BY <2>2 DEF Crash
  <2>3. CASE UNCHANGED actorVars
    BY <2>3 DEF actorVars
  <2>. QED
    BY <2>1, <2>2, <2>3 DEF Next, Publish, Move, MakeDirectory, Save, vars, actorVars
<1>. QED
  BY <1>1, <1>2, FileIsWholeHolds, PTL DEF Spec

-------------------------------------------------------------------------------
(* A 304 is the truth *)

\* The numbers among the values: what is not None can be compared.
LEMMA Numbers ==
    ASSUME TypeOK
    PROVE  /\ version \in Nat /\ None \notin Nat
           /\ tags["url"] \in Nat \union {None} /\ saved["url"] \in Nat \union {None}
           /\ \A p \in Actors : /\ got[p] \in Nat \union {None}
                                /\ tag[p] \in Nat \union {None}
                                /\ modified[p] \in Nat \union {None}
           /\ file # None => file.version \in Nat /\ file.time \in Nat
<1>1. Version \subseteq Nat
  BY LocalCopyAssumption DEF Version
<1>. QED
  BY <1>1, LocalCopyAssumption DEF TypeOK, Copy

\* Doubt never ends.
LEMMA DoubtStays == ASSUME TypeOK, [Next]_vars, doubt PROVE doubt'
<1>. USE DEF TypeOK
<1>1. ASSUME NEW p \in Actors, ProcessURL(p) PROVE doubt'
  BY <1>1 DEF ProcessURL, Lookup, Stat, Fresh, NotModified, Refused, Answered, Gone, Remove,
              Store, Body, Create, Write, Rename, InPlace, Stamp, Fails
<1>. QED
  BY <1>1 DEF Next, Publish, Move, MakeDirectory, Save, Crash, vars

\* Without doubt, nobody else is at work during a step of p.
LEMMA OthersIdle ==
    ASSUME TypeOK, Lone, NEW p \in Actors, ProcessURL(p), ~doubt',
           NEW q \in Actors, q # p, ActorOK(q)
    PROVE  pc[q] = "idle" /\ pc'[q] = "idle" /\ got'[q] = None
<1>1. pc[q] = "idle"
  <2>1. CASE Lookup(p)
    BY <2>1 DEF Lookup, TypeOK
  <2>2. CASE pc[p] # "idle"
    BY <2>2 DEF Lone
  <2>. QED
    BY <2>1, <2>2 DEF ProcessURL, Stat, Fresh, NotModified, Refused, Answered, Gone, Remove,
                      Store, Body, Create, Write, Rename, Stamp
<1>2. got[q] = None
  BY <1>1 DEF ActorOK, Storing
<1>. QED
  BY <1>1, <1>2, OthersUntouched

Sound == Lone /\ CopyOK /\ \A p \in Actors : ActorOK(p)

\* A step of a lone actor.
LEMMA ActorSound ==
    ASSUME TypeOK, TypeOK', kind = "page", Sound, NEW p \in Actors, ProcessURL(p), ~doubt'
    PROVE  Sound'
<1>. USE DEF TypeOK
<1>1. \A q \in Actors \ {p} : pc[q] = "idle" /\ pc'[q] = "idle" /\ got'[q] = None
  BY OthersIdle DEF Sound
<1>2. Lone'
  BY <1>1 DEF Lone
<1>3. ASSUME NEW q \in Actors, q # p PROVE ActorOK(q)'
  BY <1>1, <1>3 DEF ActorOK, Storing
<1>4. CopyOK /\ ActorOK(p)
  BY DEF Sound
<1>5. /\ version' = version /\ kind' = kind /\ server' = server
      /\ directory' = None
  BY <1>4 DEF CopyOK, ProcessURL, Lookup, Stat, Fresh, NotModified, Refused, Answered, Gone,
              Remove, Store, Body, Create, Write, Rename, Stamp, originVars
<1>6. /\ file # None => (pc[p] \notin Pending => Behind(file.version))
                        /\ (pc[p] # "stamp" => Dated(file.time))
  BY <1>1, <1>4 DEF CopyOK, Pending
<1>7. SUFFICES
        /\ ActorOK(p)'
        /\ Behind(version)'
        /\ file' # None => /\ file'.version <= version'
                           /\ pc'[p] \notin Pending => Behind(file.version)'
                           /\ pc'[p] # "stamp" => Dated(file.time)'
  <2>1. CopyOK'
    BY <1>5, <1>7 DEF CopyOK
  <2>. QED
    BY <1>2, <1>3, <1>7, <2>1 DEF Sound
<1>8. /\ version \in Nat /\ None \notin Nat
      /\ tags["url"] \in Nat \union {None} /\ saved["url"] \in Nat \union {None}
      /\ got[p] \in Nat \union {None} /\ tag[p] \in Nat \union {None}
      /\ modified[p] \in Nat \union {None}
      /\ file # None => file.version \in Nat /\ file.time \in Nat
  BY Numbers
<1>9. CASE Lookup(p)
  BY <1>4, <1>5, <1>6, <1>8, <1>9
  DEF Lookup, Goes, cacheVars, ActorOK, CopyOK, Behind, Dated, NotAhead, Pending, Storing
<1>10. CASE Stat(p)
  BY <1>4, <1>5, <1>6, <1>8, <1>10
  DEF Stat, ModificationTime, Goes, cacheVars, ActorOK, CopyOK, Behind, Dated, NotAhead, Pending,
      Storing
<1>11. CASE Fresh(p) \/ NotModified(p) \/ Refused(p)
  BY <1>4, <1>5, <1>6, <1>8, <1>11
  DEF Fresh, NotModified, Refused, Ends, Goes, cacheVars, ActorOK, CopyOK, Behind, Dated,
      NotAhead, Pending, Storing
<1>12. CASE Answered(p) \/ Gone(p)
  BY <1>4, <1>5, <1>6, <1>8, <1>12
  DEF Answered, Gone, Goes, cacheVars, ActorOK, CopyOK, Behind, Dated, NotAhead, Pending, Storing
<1>13. CASE Remove(p)
  BY <1>4, <1>5, <1>6, <1>8, <1>13
  DEF Remove, Ends, Goes, cacheVars, ActorOK, CopyOK, Behind, Dated, NotAhead, Pending, Storing
<1>14. CASE Store(p)
  <2>1. /\ saved' = saved
        /\ tags'["url"] = got[p] \/ tags'["url"] = None
    BY <1>14 DEF Store, Cache!Put
  <2>. QED
    BY <1>4, <1>5, <1>6, <1>8, <1>14, <2>1
    DEF Store, Ends, Goes, ActorOK, CopyOK, Behind, Dated, NotAhead, Pending, Storing
<1>15. CASE Body(p)
  BY <1>4, <1>5, <1>6, <1>8, <1>15
  DEF Body, Skips, Fails, Goes, cacheVars, ActorOK, CopyOK, Behind, Dated, NotAhead, Pending,
      Storing
<1>16. CASE Create(p) \/ Write(p)
  BY <1>4, <1>5, <1>6, <1>8, <1>16
  DEF Create, Write, Fails, Goes, cacheVars, ActorOK, CopyOK, Behind, Dated, NotAhead, Pending,
      Storing
<1>17. CASE Rename(p)
  <2>1. InPlace(p) /\ pc[p] = "rename" /\ UNCHANGED cacheVars
    BY <1>17 DEF Rename, Fails
  <2>2. got[p] # None /\ got[p] <= version /\ Behind(got[p])
    BY <1>4, <2>1 DEF ActorOK, Storing
  <2>3. file' # None
    <3>1. got[p] \in Version
      BY <2>2
    <3>2. [version |-> got[p], whole |-> temp[p] = "whole", time |-> version] \in Copy
      BY <3>1 DEF Copy
    <3>. QED
      BY <2>1, <3>2, LocalCopyAssumption DEF InPlace
  <2>4. file'.version = got[p]
    BY <2>1 DEF InPlace
  <2>5. pc'[p] = "stamp" /\ got' = got /\ tags' = tags /\ saved' = saved
    BY <2>1 DEF InPlace, Goes, cacheVars
  <2>6. Behind(version)' /\ Behind(got[p])'
    BY <1>4, <1>5, <2>2, <2>5 DEF Behind, CopyOK, NotAhead
  <2>7. ActorOK(p)'
    BY <1>5, <2>2, <2>3, <2>4, <2>5, <2>6 DEF ActorOK, Storing
  <2>. QED
    BY <1>5, <2>2, <2>4, <2>5, <2>6, <2>7 DEF Behind
<1>18. CASE Stamp(p)
  <2>1. pc[p] = "stamp" /\ Ends(p) /\ UNCHANGED cacheVars
    BY <1>18 DEF Stamp, Fails
  <2>2. file \in Copy /\ file.version = got[p] /\ Behind(file.version)
    BY <1>4, <1>6, <2>1 DEF ActorOK, Pending
  <2>3. /\ file'.version = file.version
        /\ "dates" \in server => file'.time = got[p]
    BY <1>4, <1>18, <2>2 DEF Stamp, Fails, Copy, ActorOK
  <2>4. pc'[p] = "idle" /\ got'[p] = None /\ tags' = tags /\ saved' = saved
    BY <2>1 DEF Ends, Goes, cacheVars
  <2>5. Behind(version)' /\ Behind(file.version)'
    BY <1>4, <1>5, <2>2, <2>3, <2>4 DEF Behind, CopyOK, NotAhead
  <2>6. file'.version <= version' /\ Dated(file.time)'
    <3>1. got[p] # None /\ got[p] <= version
      BY <1>4, <2>1 DEF ActorOK, Storing
    <3>. QED
      BY <1>5, <1>8, <2>2, <2>3, <3>1 DEF Dated, NotAhead
  <2>7. ActorOK(p)'
    BY <2>4 DEF ActorOK, Storing
  <2>. QED
    BY <2>5, <2>6, <2>7
<1>. QED
  BY <1>9, <1>10, <1>11, <1>12, <1>13, <1>14, <1>15, <1>16, <1>17, <1>18 DEF ProcessURL

\* A step of the environment.
LEMMA EnvironmentSound ==
    ASSUME TypeOK, kind = "page", Sound, ~doubt',
           Publish \/ Move \/ MakeDirectory \/ Save \/ Crash \/ UNCHANGED vars
    PROVE  Sound'
<1>. USE DEF TypeOK
<1>1. /\ version \in Nat /\ None \notin Nat
      /\ tags["url"] \in Nat \union {None} /\ saved["url"] \in Nat \union {None}
      /\ \A p \in Actors : got[p] \in Nat \union {None}
  BY Numbers
<1>2. CASE Publish
  <2>1. Lone'
    BY <1>2 DEF Publish, actorVars, Sound, Lone
  <2>2. CopyOK'
    BY <1>1, <1>2, Numbers
    DEF Publish, actorVars, cacheVars, Sound, CopyOK, Behind, Dated, NotAhead
  <2>3. ASSUME NEW p \in Actors PROVE ActorOK(p)'
    BY <1>1, <1>2
    DEF Publish, actorVars, cacheVars, Sound, ActorOK, Behind, Dated, NotAhead
  <2>. QED
    BY <2>1, <2>2, <2>3 DEF Sound
<1>3. CASE Move \/ UNCHANGED vars
  BY <1>3 DEF Move, vars, actorVars, cacheVars, Sound, Lone, CopyOK, ActorOK, Behind, Dated,
              NotAhead
<1>4. CASE MakeDirectory
  BY <1>4 DEF MakeDirectory
<1>5. CASE Save
  <2>1. saved'["url"] = tags["url"] /\ tags' = tags
    BY <1>5 DEF Save, Cache!Save
  <2>2. \A v : Behind(v) => /\ NotAhead(tags'["url"], v) /\ NotAhead(saved'["url"], v)
    BY <2>1 DEF Behind
  <2>3. Lone'
    BY <1>5 DEF Save, actorVars, Sound, Lone
  <2>4. CopyOK'
    BY <1>5, <2>2 DEF Save, actorVars, originVars, Sound, CopyOK, Behind, Dated, NotAhead
  <2>5. ASSUME NEW p \in Actors PROVE ActorOK(p)'
    BY <1>5, <2>2 DEF Save, actorVars, originVars, Sound, ActorOK, Behind, Dated, NotAhead
  <2>. QED
    BY <2>3, <2>4, <2>5 DEF Sound
<1>6. CASE Crash
  <2>1. tags' = saved /\ saved' = saved
    BY <1>6 DEF Crash, Cache!FallBack
  <2>2. \A p \in Actors : pc[p] \notin Storing /\ pc'[p] = "idle" /\ got'[p] = None
    BY <1>6 DEF Crash
  <2>3. Lone'
    BY <2>2 DEF Lone
  <2>4. CopyOK'
    BY <1>6, <2>1, <2>2
    DEF Crash, originVars, Sound, CopyOK, Behind, Dated, NotAhead, Pending, Storing
  <2>5. ASSUME NEW p \in Actors PROVE ActorOK(p)'
    BY <2>2 DEF ActorOK, Storing
  <2>. QED
    BY <2>3, <2>4, <2>5 DEF Sound
<1>. QED
  BY <1>2, <1>3, <1>4, <1>5, <1>6

\* Without doubt the metadata and the time of the file are never ahead of what it
\* holds (ok.go:33, 80, 210-217).
THEOREM TrustworthyHolds == Spec => []Trustworthy
<1>1. Init => Trustworthy
  <2>. SUFFICES ASSUME Init PROVE Sound
    BY DEF Trustworthy, Sound
  <2>1. tags["url"] = None /\ saved["url"] = None
    BY DEF Init, Cache!Init, Cache!Blank
  <2>. QED
    BY <2>1 DEF Init, Sound, Lone, CopyOK, ActorOK, Behind, NotAhead, Storing
<1>2. WholeInv /\ Trustworthy /\ [Next]_vars => Trustworthy'
  <2>. SUFFICES ASSUME WholeInv, Trustworthy, [Next]_vars, kind' = "page", ~doubt'
                PROVE  Sound'
    BY DEF Trustworthy, Sound
  <2>1. TypeOK /\ TypeOK'
    BY ActorWhole, EnvironmentWhole DEF Next, WholeInv, FileIsWhole
  <2>2. kind = "page"
    BY DEF Next, ProcessURL, Lookup, Stat, Fresh, NotModified, Refused, Answered, Gone,
           Remove, Store, Body, Create, Write, Rename, Stamp, Publish, Move, MakeDirectory,
           Save, Crash, originVars, vars
  <2>3. Sound
    BY <2>1, <2>2, DoubtStays DEF Trustworthy, Sound
  <2>. QED
    BY <2>1, <2>2, <2>3, ActorSound, EnvironmentSound DEF Next
<1>. QED
  BY <1>1, <1>2, WholeInvHolds, PTL DEF Spec

\* When the server of a page says that it is unchanged, the file is the version it has
\* (httpGet.go:33-56).
THEOREM NotModifiedIsTrueTheorem == Spec => NotModifiedIsTrue
<1>1. FileIsWhole /\ Trustworthy /\ [Next]_vars =>
        [\A p \in Actors : kind = "page" /\ ~doubt /\ NotModified(p) =>
            file # None /\ file.version = version]_vars
  <2>. SUFFICES ASSUME TypeOK, Trustworthy, kind = "page", ~doubt,
                       NEW p \in Actors, NotModified(p)
                PROVE  file # None /\ file.version = version
    BY DEF FileIsWhole
  <2>1. CopyOK /\ ActorOK(p)
    BY DEF Trustworthy
  <2>2. pc[p] = "ask" /\ modified[p] # None /\ Unchanged(p)
    BY DEF NotModified, Unchanged, Conditional
  <2>3. file # None
    BY <2>1, <2>2 DEF ActorOK
  <2>4. file.version <= version
    BY <2>1, <2>3 DEF CopyOK
  <2>5. version <= file.version
    BY <2>1, <2>2, <2>3, Numbers DEF ActorOK, Unchanged, Dated, NotAhead
  <2>. QED
    BY <2>3, <2>4, <2>5, Numbers
<1>. QED
  BY <1>1, FileIsWholeHolds, TrustworthyHolds, PTL DEF Spec, NotModifiedIsTrue
===============================================================================
