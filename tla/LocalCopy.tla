------------------------------- MODULE LocalCopy -------------------------------
(***************************************************************************)
(* The local copy of one URL: what Download.ProcessURL does to the file    *)
(* and to the metadata of that URL, over many runs of the program, while   *)
(* the origin server changes it.  The crawl downloads a URL at most once   *)
(* at a time; the on-demand handlers of the web server download it too     *)
(* when its file is missing.  Each step here is one call of the file       *)
(* system, of the metadata cache or of the HTTP client.                    *)
(*                                                                         *)
(* Time is counted in versions: version v of the resource was last         *)
(* modified at time v, and it is time v until version v + 1 is published.  *)
(* The metadata cache is the crash-safe map of module DurableMap.          *)
(***************************************************************************)
EXTENDS Integers

CONSTANTS
    Crawler,     \* the worker of the crawl that has this URL
    Handlers,    \* on-demand handlers of the web server
    Kinds,       \* what the URL may be, a subset of AllKinds
    Servers,     \* what the server may support, sets of validators
    Failing,     \* the operations that may fail, a subset of Operations
    MaxVersion,  \* bound: the last version that is published
    None         \* no version, no time, no tag

Actors == {Crawler} \union Handlers

\* page: HTML whose path has an extension or ends with a slash; barePage: HTML whose
\* path has none, so that the file without it may be a directory; asset: anything else
\* whose path has an extension.
AllKinds == {"page", "barePage", "asset"}
Operations == {"body", "create", "write", "close", "rename", "stamp"}
Validators == {"tags", "dates"}
Version == 0 .. MaxVersion
Copy == [version : Version, whole : BOOLEAN, time : Version]

ASSUME LocalCopyAssumption ==
    /\ Crawler \notin Handlers
    /\ Kinds \subseteq AllKinds
    /\ Servers \subseteq SUBSET Validators
    /\ Failing \subseteq Operations
    /\ MaxVersion \in Nat
    /\ None \notin Nat /\ None \notin Copy

VARIABLES
    kind, server,  \* chosen at the start: an element of Kinds, one of Servers
    version,       \* the version that the server has now
    status,        \* its answers: "ok", "away" (404 or a redirect) or "gone" (403, 410, 451)
    file,          \* the file of this URL, or None
    directory,     \* modification time of the directory of the same name, or None
    tags, saved,   \* the metadata cache in memory and on disk: the ETag under the URL
    pc,            \* what each actor does next
    tag, modified, \* the ETag and the modification time each has found
    got,           \* the version each has been given
    temp,          \* its temporary file: None, "partial" or "whole"
    doubt          \* history: a download was cut short, or two overlapped

actorVars == <<pc, tag, modified, got, temp>>
cacheVars == <<tags, saved>>
originVars == <<kind, server, version, status>>
vars == <<kind, server, version, status, file, directory, tags, saved, pc, tag, modified,
          got, temp, doubt>>

\* The metadata cache holds one interesting key.
Cache == INSTANCE DurableMap WITH
    Key <- {"url"}, Value <- Version \union {None}, Absent <- None, map <- tags, disk <- saved

Init ==
    /\ kind \in Kinds /\ server \in Servers
    /\ version = 0 /\ status = "ok"
    /\ file = None /\ directory = None
    /\ Cache!Init
    /\ pc = [p \in Actors |-> "idle"]
    /\ tag = [p \in Actors |-> None]
    /\ modified = [p \in Actors |-> None]
    /\ got = [p \in Actors |-> None]
    /\ temp = [p \in Actors |-> None]
    /\ doubt = FALSE

-------------------------------------------------------------------------------
(* The environment *)

\* The origin server publishes a new version, or changes its mind about the URL.
Publish ==
    /\ version < MaxVersion
    /\ version' = version + 1
    /\ UNCHANGED <<kind, server, status, file, directory, cacheVars, actorVars, doubt>>

Move ==
    /\ status' \in {"ok", "away", "gone"} \ {status}
    /\ UNCHANGED <<kind, server, version, file, directory, cacheVars, actorVars, doubt>>

\* Another download puts a file into the directory named like this URL.
MakeDirectory ==
    /\ kind = "barePage"
    /\ directory' = version
    /\ UNCHANGED <<originVars, file, cacheVars, actorVars, doubt>>

\* The cache is saved, by its periodic sync or because it is full.
Save ==
    /\ Cache!Save
    /\ UNCHANGED <<originVars, file, directory, actorVars, doubt>>

\* The steps between storing the metadata and the last change of the file.
Storing == {"body", "write", "copy", "rename", "stamp"}

\* The process is killed and started again.  Its temporary files stay behind under
\* names that nobody uses any more.
Crash ==
    /\ Cache!FallBack
    /\ doubt' = (doubt \/ \E p \in Actors : pc[p] \in Storing)
    /\ pc' = [p \in Actors |-> "idle"]
    /\ tag' = [p \in Actors |-> None]
    /\ modified' = [p \in Actors |-> None]
    /\ got' = [p \in Actors |-> None]
    /\ temp' = [p \in Actors |-> None]
    /\ UNCHANGED <<originVars, file, directory>>

-------------------------------------------------------------------------------
(* ProcessURL up to the answer of the server *)

Goes(p, to) == pc' = [pc EXCEPT ![p] = to]

\* ProcessURL returns; what it knew is forgotten.
Ends(p) ==
    /\ Goes(p, "idle")
    /\ tag' = [tag EXCEPT ![p] = None]
    /\ modified' = [modified EXCEPT ![p] = None]
    /\ got' = [got EXCEPT ![p] = None]

\* The handler of a missing file starts only when there is none under the name that was asked
\* for, which is never the name of a bare page.
Lookup(p) ==
    /\ pc[p] = "idle"
    /\ p \in Handlers => file = None \/ kind = "barePage"
    /\ tag' = [tag EXCEPT ![p] = tags["url"]]
    /\ Goes(p, "stat")
    /\ doubt' = (doubt \/ \E q \in Actors \ {p} : pc[q] # "idle")
    /\ UNCHANGED <<originVars, file, directory, cacheVars, modified, got, temp>>

\* Stat, first of the name without ".html": a directory has a modification time too.
ModificationTime ==
    IF directory # None THEN directory ELSE IF file # None THEN file.time ELSE None

Stat(p) ==
    /\ pc[p] = "stat"
    /\ modified' = [modified EXCEPT ![p] = ModificationTime]
    /\ Goes(p, "ask")
    /\ UNCHANGED <<originVars, file, directory, cacheVars, tag, got, temp, doubt>>

\* The request carries If-Modified-Since and If-None-Match only with a modification
\* time; a server that supports both looks at the tag.  The mistake: the tag is sent
\* whatever file there is.
Conditional(p) == modified[p] # None
UnchangedSinceTagged(p) ==
    IF tag[p] # None THEN tag[p] = version
    ELSE Conditional(p) /\ "dates" \in server /\ version <= modified[p]
Unchanged(p) ==
    /\ Conditional(p)
    /\ IF tag[p] # None THEN tag[p] = version
       ELSE "dates" \in server /\ version <= modified[p]

\* 418, made up when the local copy has not expired: references are read from it.
Fresh(p) ==
    /\ pc[p] = "ask" /\ Conditional(p)
    /\ Ends(p)
    /\ UNCHANGED <<originVars, file, directory, cacheVars, temp, doubt>>

\* 304: references are read from the local copy.
NotModified(p) ==
    /\ pc[p] = "ask" /\ status = "ok" /\ Unchanged(p)
    /\ Ends(p)
    /\ UNCHANGED <<originVars, file, directory, cacheVars, temp, doubt>>

\* A network error, 429, 5xx or another code: nothing is changed.
Refused(p) ==
    /\ pc[p] = "ask"
    /\ Ends(p)
    /\ UNCHANGED <<originVars, file, directory, cacheVars, temp, doubt>>

\* 200, with a version and its ETag; or 404 or a redirect.
Answered(p) ==
    /\ pc[p] = "ask"
    /\ \/ status = "ok" /\ ~Unchanged(p) /\ got' = [got EXCEPT ![p] = version]
       \/ status = "away" /\ got' = got
    /\ Goes(p, "store")
    /\ UNCHANGED <<originVars, file, directory, cacheVars, tag, modified, temp, doubt>>

\* 403, 410 or 451.
Gone(p) ==
    /\ pc[p] = "ask" /\ status = "gone"
    /\ Goes(p, "remove")
    /\ UNCHANGED <<originVars, file, directory, cacheVars, tag, modified, got, temp, doubt>>

-------------------------------------------------------------------------------
(* What is done with the answer *)

\* responseGone removes the file.
Remove(p) ==
    /\ pc[p] = "remove"
    /\ file' = None
    /\ Ends(p)
    /\ UNCHANGED <<originVars, directory, cacheVars, temp, doubt>>

\* ETagsDB.Store: of a 200 before its body is read, of a 404 or a redirect without
\* ETag, and that is all.
Store(p) ==
    /\ pc[p] = "store"
    /\ Cache!Put("url", IF "tags" \in server THEN got[p] ELSE None)
    /\ IF got[p] = None THEN Ends(p) ELSE Goes(p, "body") /\ UNCHANGED <<tag, modified, got>>
    /\ UNCHANGED <<originVars, file, directory, temp, doubt>>

\* An operation fails; the failure is returned or logged, and the download is over.
Fails(p, operation) ==
    /\ operation \in Failing
    /\ Ends(p)
    /\ doubt' = TRUE

\* storeDownload overwrites pages only.
Skips == kind = "asset" /\ file # None

\* Most bodies are read into memory first, which may fail; assets that exist are skipped.
Body(p) ==
    /\ pc[p] = "body"
    /\ \/ Skips /\ Ends(p) /\ doubt' = doubt
       \/ ~Skips /\ Goes(p, "write") /\ UNCHANGED <<tag, modified, got, doubt>>
       \/ Fails(p, "body")
    /\ UNCHANGED <<originVars, file, directory, cacheVars, temp>>

\* WriteFileAtomically: the directory and a temporary file are created.
Create(p) ==
    /\ pc[p] = "write"
    /\ \/ temp' = [temp EXCEPT ![p] = "partial"] /\ Goes(p, "copy")
          /\ UNCHANGED <<tag, modified, got, doubt>>
       \/ Fails(p, "create") /\ temp' = temp
    /\ UNCHANGED <<originVars, file, directory, cacheVars>>

\* The data is copied and the file closed; when copying fails, also because the body
\* of an asset ends early, the file is removed, but when closing fails it is not.
\* The mistake: an error of io.Copy is not looked at.
WriteUnchecked(p) ==
    /\ pc[p] = "copy"
    /\ \/ temp' = [temp EXCEPT ![p] = "whole"]
       \/ "write" \in Failing /\ temp' = temp
    /\ Goes(p, "rename")
    /\ UNCHANGED <<originVars, file, directory, cacheVars, tag, modified, got, doubt>>

Write(p) ==
    /\ pc[p] = "copy"
    /\ \/ temp' = [temp EXCEPT ![p] = "whole"] /\ Goes(p, "rename")
          /\ UNCHANGED <<tag, modified, got, doubt>>
       \/ Fails(p, "write") /\ temp' = [temp EXCEPT ![p] = None]
       \/ Fails(p, "close") /\ temp' = [temp EXCEPT ![p] = "whole"]
    /\ UNCHANGED <<originVars, file, directory, cacheVars>>

\* The rename is the moment the file changes; its time is the present.  When it fails
\* the temporary file is removed.  The mistake: it is not.
InPlace(p) ==
    /\ file' = [version |-> got[p], whole |-> temp[p] = "whole", time |-> version]
    /\ temp' = [temp EXCEPT ![p] = None]
    /\ Goes(p, "stamp")
    /\ UNCHANGED <<tag, modified, got, doubt>>

RenameLeaving(p) ==
    /\ pc[p] = "rename"
    /\ \/ InPlace(p)
       \/ Fails(p, "rename") /\ UNCHANGED <<temp, file>>
    /\ UNCHANGED <<originVars, directory, cacheVars>>

Rename(p) ==
    /\ pc[p] = "rename"
    /\ \/ InPlace(p)
       \/ Fails(p, "rename") /\ temp' = [temp EXCEPT ![p] = None] /\ file' = file
    /\ UNCHANGED <<originVars, directory, cacheVars>>

\* A mistake: the file keeps the time at which it was written.
StampNothing(p) ==
    /\ pc[p] = "stamp"
    /\ Ends(p)
    /\ UNCHANGED <<originVars, file, directory, cacheVars, temp, doubt>>

\* Chtimes, with the time the server gave, if it did; on whatever the file is now.
\* Images that were encoded anew are left alone.
Stamp(p) ==
    /\ pc[p] = "stamp"
    /\ \/ /\ file' = IF file # None /\ "dates" \in server
                     THEN [file EXCEPT !.time = got[p]] ELSE file
          /\ Ends(p) /\ doubt' = doubt
       \/ kind = "asset" /\ file' = file /\ Ends(p) /\ doubt' = doubt
       \/ Fails(p, "stamp") /\ file' = file
    /\ UNCHANGED <<originVars, directory, cacheVars, temp>>

ProcessURL(p) ==
    \/ Lookup(p) \/ Stat(p)
    \/ Fresh(p) \/ NotModified(p) \/ Refused(p) \/ Answered(p) \/ Gone(p)
    \/ Remove(p) \/ Store(p)
    \/ Body(p) \/ Create(p) \/ Write(p) \/ Rename(p) \/ Stamp(p)

Next ==
    \/ \E p \in Actors : ProcessURL(p)
    \/ Publish \/ Move \/ MakeDirectory
    \/ Save \/ Crash

Spec == Init /\ [][Next]_vars

-------------------------------------------------------------------------------
(* Properties *)

\* The type invariant.
TypeOK ==
    /\ kind \in Kinds /\ server \in Servers
    /\ version \in Version /\ status \in {"ok", "away", "gone"}
    /\ file \in Copy \union {None} /\ directory \in Version \union {None}
    /\ tags \in [{"url"} -> Version \union {None}] /\ saved \in [{"url"} -> Version \union {None}]
    /\ pc \in [Actors -> {"idle", "stat", "ask", "store", "remove"} \union Storing]
    /\ tag \in [Actors -> Version \union {None}]
    /\ modified \in [Actors -> Version \union {None}]
    /\ got \in [Actors -> Version \union {None}]
    /\ temp \in [Actors -> {None, "partial", "whole"}]
    /\ doubt \in BOOLEAN

\* Whatever fails, overlaps or is killed, the file is always all of some version that
\* the server has had (fs.go:30-63).
FileIsWhole == TypeOK /\ (file # None => file.whole /\ file.version <= version)

\* "No incomplete temporary files are left on disk" (README.md:23): a process that
\* lives leaves none, unless closing one fails (fs.go:46-61).
NoTemporaryLeft ==
    "close" \notin Failing =>
        \A p \in Actors : temp[p] # None => pc[p] \in {"copy", "rename"}

\* The inductive invariant behind the next property.  Without doubt there is one
\* actor at most; the metadata is not ahead of the file, nor of what the actor is
\* about to put there; the file is not dated later than its version.
NotAhead(t, v) == t # None => t <= v
Lone == \A p, q \in Actors : p # q => pc[p] = "idle" \/ pc[q] = "idle"
Behind(v) == NotAhead(tags["url"], v) /\ NotAhead(saved["url"], v)
Dated(t) == "dates" \in server => NotAhead(t, file.version)
Pending == {"body", "write", "copy", "rename"}
ActorOK(p) ==
    /\ got[p] # None => pc[p] \in {"store"} \union Storing /\ got[p] <= version /\ Behind(got[p])
    /\ pc[p] \in Storing => got[p] # None
    /\ pc[p] \in {"stat", "ask"} /\ file # None => NotAhead(tag[p], file.version)
    /\ pc[p] = "ask" /\ modified[p] # None => file # None /\ Dated(modified[p])
    /\ pc[p] = "stamp" => file # None /\ file.version = got[p]
CopyOK ==
    /\ directory = None
    /\ Behind(version)
    /\ file # None =>
        /\ file.version <= version
        /\ (\A p \in Actors : pc[p] \notin Pending) => Behind(file.version)
        /\ (\A p \in Actors : pc[p] # "stamp") => Dated(file.time)
Trustworthy == kind = "page" /\ ~doubt => Lone /\ CopyOK /\ \A p \in Actors : ActorOK(p)

\* A 304 is the truth: when a server that has a page says that it is unchanged, the
\* file is the version it has, after any history of new versions, crashes, lost and
\* restored metadata, redirects and removals, as long as no download was cut short
\* after its metadata was stored and no two of them overlapped (ok.go:33, 80, 210-217,
\* httpGet.go:33-56).
NotModifiedIsTrue ==
    [][\A p \in Actors : kind = "page" /\ ~doubt /\ NotModified(p) =>
            file # None /\ file.version = version]_vars

\* httpGet.go:33: "lastModified is only set when a locally-cached file exists".
ConditionalHasCopy ==
    ~doubt => \A p \in Actors : pc[p] = "ask" /\ Conditional(p) => file # None
===============================================================================
