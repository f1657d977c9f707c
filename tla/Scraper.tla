-------------------------------- MODULE Scraper --------------------------------
(***************************************************************************)
(* The crawl of scraper/scraper.go: Scraper.Start fetches the start page,  *)
(* then runs a pool of download workers and one coordinator.  Workers take *)
(* work items from an unbounded queue and send results through a channel   *)
(* of capacity Concurrency; the coordinator filters the references of each *)
(* result, queues the new ones, counts the work in progress and closes the *)
(* queue when the count reaches zero.                                      *)
(*                                                                         *)
(* A download (Download.ProcessURL) is seen here through what it tells the *)
(* crawl: the outcome, the references found, the lockdown.  The lockdown   *)
(* is a Boolean, the IsNormal test of module Throttle.                     *)
(***************************************************************************)
EXTENDS Integers, Sequences, FiniteSets

CONSTANTS
    Concurrency,  \* workers in the pool, and capacity of the results channel
    Tries,        \* attempts per download when the server answers 5xx
    MaxDepth,     \* download depth limit
    Cancellable,  \* whether the context given to Start may be cancelled
    Url,          \* absolute URLs
    HostOf,       \* host of each
    PathOf,       \* path of each
    WebUrl,       \* those with scheme http or https
    StartURL,     \* the URL given to New
    Sites         \* the web sites, with filters, the crawl may meet

Workers == 0 .. Concurrency - 1

\* A reference found in a page, resolved against it.  It is bare when it is handed
\* to the coordinator with neither scheme nor host.
Ref == [to : Url, bare : BOOLEAN]

\* The outcomes of one attempt to download, with the references they carry:
\*   page         200 or 304, with the references of the page or none for an asset
\*   fresh        418, made up locally: the local copy has not expired
\*   redirect     301, 302, 303, 307 or 308
\*   tooMany      429
\*   unavailable  500 and above
\*   gone         any other 400 and above
\*   broken       200 to 399 with a body, a coding or a Location that cannot be read
\*   error        no answer: network failure, timeout, cancellation
Kinds == {"page", "fresh", "redirect", "tooMany", "unavailable", "gone", "broken", "error"}
Response == [kind : Kinds, refs : Seq(Ref)]
NoAnswer == [kind |-> "error", refs |-> <<>>]

\* responds[u]: the outcomes the server may choose among each time u is fetched;
\* allowed: the URLs that pass the include and exclude filters.
Site == [responds : [Url -> SUBSET Response], allowed : SUBSET Url]

ASSUME ScraperAssumption ==
    /\ Concurrency \in Nat \ {0} /\ Tries \in Nat \ {0} /\ MaxDepth \in Nat
    /\ Cancellable \in BOOLEAN
    /\ WebUrl \subseteq Url /\ StartURL \in WebUrl
    /\ DOMAIN HostOf = Url /\ DOMAIN PathOf = Url
    /\ Sites \subseteq Site
    /\ \A s \in Sites, u \in Url : s.responds[u] # {}
    /\ \A s \in Sites, u \in Url : \A r \in s.responds[u] :
        /\ r.kind = "redirect" => Len(r.refs) = 1
        /\ r.kind \notin {"page", "fresh", "redirect"} => r.refs = <<>>

VARIABLES
    site,       \* the environment: an element of Sites
    phase,      \* of Start: "start", "running" (waiting for the pool), "returned"
    ret,        \* what Start has returned: "none", "ok" or "error"
    scHost,     \* sc.URL.Host
    processed,  \* the keys of the URLs already offered for download
    queue,      \* the work queue between coordinator and workers
    results,    \* the results channel
    coord,      \* coordinator: "receive", "handle" (a result) or "closed" (the queue)
    cur,        \* the result it handles: depth of its references, references still
                \* to be filtered, URLs included so far
    pushed,     \* how many of the included URLs it has queued
    todo,       \* its count of outstanding work
    pc,         \* worker: "check", "select", "get" (a request), "got" (its answer),
                \* "send", "done" or "failed"
    item,       \* worker: the work item it downloads
    tries,      \* worker: failed attempts at it
    got,        \* worker: the answer it has received and not yet looked at
    out,        \* worker: the result it is about to send
    lockdown,   \* the Lockdown throttle is not at its minimum
    ctxDone,    \* the context is cancelled
    visits,     \* history: calls of ProcessURL per URL
    answered    \* history: every result obtained, with its kind

workVars == <<pc, item, tries, got, out>>
coordVars == <<coord, cur, pushed, todo, processed>>
mainVars == <<site, phase, ret, scHost>>
histVars == <<visits, answered>>
vars == <<site, phase, ret, scHost, processed, queue, results, coord, cur, pushed,
          todo, pc, item, tries, got, out, lockdown, ctxDone, visits, answered>>

Item == [url : Url, depth : Int]
Result == [url : Url, depth : Int, refs : Seq(Ref)]
NoItem == [url |-> StartURL, depth |-> 0]
NoResult == [url |-> StartURL, depth |-> 0, refs |-> <<>>]
NoCur == [depth |-> 0, refs |-> <<>>, included |-> <<>>]

-------------------------------------------------------------------------------
(* Filtering: shouldURLBeDownloaded *)

\* The key of a URL in the processed set: the path on the scraper's own host, the
\* whole URL elsewhere.
KeyOfPath(u) == <<"path", PathOf[u]>>  \* a mistake: hosts are not told apart
Key(u) == IF HostOf[u] = scHost THEN <<"path", PathOf[u]>> ELSE <<"url", u>>

\* The checks after the URL has been recorded; before them, three mistakes: the check
\* of the host is missing, and the depth limit is one too high or too low.
AdmissibleAnywhere(u, depth) == depth <= MaxDepth /\ u \in site.allowed
AdmissibleOneBelow(u, depth) ==
    HostOf[u] = scHost /\ depth <= MaxDepth + 1 /\ u \in site.allowed
AdmissibleOneAbove(u, depth) ==
    HostOf[u] = scHost /\ depth < MaxDepth /\ u \in site.allowed
Admissible(u, depth) ==
    /\ HostOf[u] = scHost
    /\ depth <= MaxDepth
    /\ u \in site.allowed

\* A mistake: a URL that was offered before is accepted again.
ShouldDownloadAgain(ref, depth) ==
    ref.bare \/ (ref.to \in WebUrl /\ Admissible(ref.to, depth))

\* A bare reference is accepted at once; any other is recorded, even if it is
\* then refused, and accepted only the first time.
ShouldDownload(ref, depth) ==
    \/ ref.bare
    \/ /\ ref.to \in WebUrl
       /\ Key(ref.to) \notin processed
       /\ Admissible(ref.to, depth)

Record(ref) ==
    processed' = IF ref.bare \/ ref.to \notin WebUrl
                 THEN processed ELSE processed \union {Key(ref.to)}

-------------------------------------------------------------------------------
(* Downloading, as the crawl sees it: ProcessURL *)

\* What a request for u may meet at all, and what it may meet now.  Once the context is
\* cancelled every request fails; only a fresh local copy needs none.
Answers(u) == site.responds[u] \union {NoAnswer}
Outcomes(u) ==
    IF ctxDone
    THEN {r \in site.responds[u] : r.kind = "fresh"} \union {NoAnswer}
    ELSE site.responds[u]

\* The Lockdown throttle after an answer of the given kind.
LockdownAfter(kind) ==
    CASE kind \in {"tooMany", "unavailable"}              -> TRUE
      [] kind \in {"page", "redirect", "gone", "broken"}  -> FALSE
      [] OTHER                                            -> lockdown

\* The result of item i.  A redirect asks for its target and a 429 for the same
\* URL again, both at the depth of the item: hence the decrement.
ResultOf(i, r) ==
    [url   |-> i.url,
     depth |-> IF r.kind \in {"redirect", "tooMany"} THEN i.depth - 1 ELSE i.depth,
     refs  |-> IF r.kind = "tooMany" THEN <<[to |-> i.url, bare |-> FALSE]>> ELSE r.refs]

\* History: what was obtained, and which references it asks the crawl to follow.
Note(i, r) ==
    LET res == ResultOf(i, r)
    IN  answered' = answered \union
            {[url |-> i.url, kind |-> r.kind, next |-> res.depth + 1, refs |-> res.refs]}

-------------------------------------------------------------------------------
(* Start *)

Init ==
    /\ site \in Sites
    /\ phase = "start" /\ ret = "none" /\ scHost = HostOf[StartURL]
    /\ processed = {} /\ queue = <<>> /\ results = <<>>
    /\ coord = "receive" /\ cur = NoCur /\ pushed = 0 /\ todo = 0
    /\ pc = [w \in Workers |-> "check"]
    /\ item = [w \in Workers |-> NoItem]
    /\ tries = [w \in Workers |-> 0]
    /\ got = [w \in Workers |-> NoAnswer]
    /\ out = [w \in Workers |-> NoResult]
    /\ lockdown = FALSE /\ ctxDone = FALSE
    /\ visits = [u \in Url |-> 0] /\ answered = {}

Return(how) == phase' = "returned" /\ ret' = how

\* The start page is recorded first; Start gives up when it is filtered out.
StartExcluded ==
    /\ phase = "start"
    /\ StartURL \notin site.allowed
    /\ processed' = {Key(StartURL)}
    /\ Return("error")
    /\ UNCHANGED <<site, scHost, queue, results, coord, cur, pushed, todo, workVars,
                   lockdown, ctxDone, histVars>>

\* Otherwise it is fetched before anything runs concurrently.  A redirect moves
\* sc.URL; any other failure ends the crawl.  The first result starts the pool.
StartFetch ==
    /\ phase = "start"
    /\ StartURL \in site.allowed
    /\ processed' = {Key(StartURL)}
    /\ visits' = [visits EXCEPT ![StartURL] = @ + 1]
    /\ \E r \in Outcomes(StartURL) :
        /\ lockdown' = LockdownAfter(r.kind)
        /\ \/ /\ r.kind \in {"page", "fresh", "redirect"}
              /\ scHost' = IF r.kind = "redirect" THEN HostOf[r.refs[1].to] ELSE scHost
              /\ results' = <<ResultOf(NoItem, r)>>
              /\ todo' = 1
              /\ phase' = "running" /\ ret' = ret
              /\ Note(NoItem, r)
           \/ /\ r.kind \in {"tooMany", "unavailable", "gone", "broken", "error"}
              /\ Return("error")
              /\ UNCHANGED <<scHost, results, todo, answered>>
    /\ UNCHANGED <<site, queue, coord, cur, pushed, workVars, ctxDone>>

\* pool.Wait unblocks when every worker has returned; pool.Err is their error.
PoolWait ==
    /\ phase = "running"
    /\ \A w \in Workers : pc[w] \in {"done", "failed"}
    /\ Return(IF \E w \in Workers : pc[w] = "failed" THEN "error" ELSE "ok")
    /\ UNCHANGED <<site, scHost, queue, results, coordVars, workVars, lockdown, ctxDone,
                   histVars>>

Cancel ==
    /\ Cancellable /\ phase = "running" /\ ~ctxDone
    /\ ctxDone' = TRUE
    /\ UNCHANGED <<mainVars, queue, results, coordVars, workVars, lockdown, histVars>>

-------------------------------------------------------------------------------
(* The worker goroutines *)

Goes(w, at) == pc' = [pc EXCEPT ![w] = at]

\* A mistake: no worker is exempt from the lockdown.
MayEnterUnlocked(w) == ~lockdown
MayEnter(w) == w = 0 \/ ~lockdown

\* Top of the loop: during a lockdown only worker 0 goes on; the others sleep half
\* a second and look again, which is to wait here.
Enter(w) ==
    /\ phase = "running" /\ pc[w] = "check"
    /\ MayEnter(w)
    /\ Goes(w, "select")
    /\ UNCHANGED <<mainVars, queue, results, coordVars, item, tries, got, out, lockdown,
                   ctxDone, histVars>>

\* select: an item from the queue, on which ProcessURL starts.
Take(w) ==
    /\ pc[w] = "select" /\ queue # <<>>
    /\ item' = [item EXCEPT ![w] = Head(queue)]
    /\ queue' = Tail(queue)
    /\ tries' = [tries EXCEPT ![w] = 0]
    /\ visits' = [visits EXCEPT ![Head(queue).url] = @ + 1]
    /\ Goes(w, "get")
    /\ UNCHANGED <<mainVars, results, coordVars, got, out, lockdown, ctxDone, answered>>

\* Three mistakes: leaving an empty queue that is still open, and not looking at one
\* of the two reasons to leave.
MayLeaveEmpty == ctxDone \/ queue = <<>>
MayLeaveCancelled == ctxDone
MayLeaveClosed == coord = "closed" /\ queue = <<>>
MayLeave == ctxDone \/ (coord = "closed" /\ queue = <<>>)

\* select: the context is cancelled, or the queue is closed and drained.
Leave(w) ==
    /\ pc[w] = "select"
    /\ MayLeave
    /\ Goes(w, "done")
    /\ UNCHANGED <<mainVars, queue, results, coordVars, item, tries, got, out, lockdown,
                   ctxDone, histVars>>

\* Client.Do returns, or the made-up 418 needs no request.  The context may still be
\* cancelled before the answer is looked at.
Fetch(w) ==
    /\ pc[w] = "get"
    /\ \E r \in Outcomes(item[w].url) : got' = [got EXCEPT ![w] = r]
    /\ Goes(w, "got")
    /\ UNCHANGED <<mainVars, queue, results, coordVars, item, tries, out, lockdown,
                   ctxDone, histVars>>

\* The answer is looked at: the Lockdown throttle first, then what the answer asks for.
Look(w, at) ==
    /\ pc[w] = "got"
    /\ lockdown' = LockdownAfter(got[w].kind)
    /\ got' = [got EXCEPT ![w] = NoAnswer]
    /\ Goes(w, at)

\* A 5xx answer with attempts left: the loop of doHttpGet tries again.
TriesLeft(w) == got[w].kind = "unavailable" /\ tries[w] + 1 < Tries

Retry(w) ==
    /\ Look(w, "get") /\ TriesLeft(w)
    /\ tries' = [tries EXCEPT ![w] = @ + 1]
    /\ UNCHANGED <<mainVars, queue, results, coordVars, item, out, ctxDone, histVars>>

\* ProcessURL returns a result.
Answer(w) ==
    /\ Look(w, "send") /\ ~TriesLeft(w)
    /\ got[w].kind \notin {"broken", "error"}
    /\ out' = [out EXCEPT ![w] = ResultOf(item[w], got[w])]
    /\ Note(item[w], got[w])
    /\ UNCHANGED <<mainVars, queue, results, coordVars, item, tries, ctxDone, visits>>

\* ProcessURL returns an error: so does the worker, and its item has no result.  The
\* body of a good answer cannot be read to its end once the context is cancelled.
Fail(w) ==
    /\ Look(w, "failed")
    /\ got[w].kind \in {"broken", "error"} \/ (ctxDone /\ got[w].kind = "page")
    /\ UNCHANGED <<mainVars, queue, results, coordVars, item, tries, out, ctxDone, histVars>>

\* results <- *result, which blocks while the channel is full.
Send(w) ==
    /\ pc[w] = "send" /\ Len(results) < Concurrency
    /\ results' = Append(results, out[w])
    /\ Goes(w, "check")
    /\ item' = [item EXCEPT ![w] = NoItem]
    /\ tries' = [tries EXCEPT ![w] = 0]
    /\ out' = [out EXCEPT ![w] = NoResult]
    /\ UNCHANGED <<mainVars, queue, coordVars, got, lockdown, ctxDone, histVars>>

Worker(w) ==
    \/ Enter(w) \/ Take(w) \/ Leave(w)
    \/ Fetch(w) \/ Retry(w) \/ Answer(w) \/ Fail(w) \/ Send(w)

-------------------------------------------------------------------------------
(* The coordinator goroutine *)

Receive ==
    /\ coord = "receive" /\ results # <<>>
    /\ results' = Tail(results)
    /\ todo' = todo - 1
    /\ cur' = [depth |-> Head(results).depth + 1, refs |-> Head(results).refs,
               included |-> <<>>]
    /\ coord' = "handle"
    /\ UNCHANGED <<mainVars, processed, queue, pushed, workVars, lockdown, ctxDone, histVars>>

\* partitionResult, one reference at a time.
Partition ==
    /\ coord = "handle" /\ cur.refs # <<>>
    /\ LET ref == Head(cur.refs)
       IN  /\ Record(ref)
           /\ cur' = [cur EXCEPT
                !.refs = Tail(@),
                !.included = IF ShouldDownload(ref, cur.depth) THEN Append(@, ref.to) ELSE @]
    /\ UNCHANGED <<mainVars, queue, results, coord, pushed, todo, workVars, lockdown,
                   ctxDone, histVars>>

\* workQueueIn <- work.Item{...}, one included URL at a time; it never blocks.
Push ==
    /\ coord = "handle" /\ cur.refs = <<>> /\ pushed < Len(cur.included)
    /\ queue' = Append(queue, [url |-> cur.included[pushed + 1], depth |-> cur.depth])
    /\ pushed' = pushed + 1
    /\ UNCHANGED <<mainVars, processed, results, coord, cur, todo, workVars, lockdown,
                   ctxDone, histVars>>

\* The count at the end of the loop body; before it, two mistakes: the count starts
\* afresh, and what was queued is not counted.
CountAfresh == Len(cur.included)
CountUnchanged == todo
Count == todo + Len(cur.included)

\* The end of the loop body: count what was queued, and close when nothing is left.
Settle ==
    /\ coord = "handle" /\ cur.refs = <<>> /\ pushed = Len(cur.included)
    /\ todo' = Count
    /\ coord' = IF Count = 0 THEN "closed" ELSE "receive"
    /\ cur' = NoCur /\ pushed' = 0
    /\ UNCHANGED <<mainVars, processed, queue, results, workVars, lockdown, ctxDone, histVars>>

Coordinator == Receive \/ Partition \/ Push \/ Settle

\* Start has returned: the program goes on elsewhere.
Terminated == phase = "returned" /\ UNCHANGED vars

Next ==
    \/ StartExcluded \/ StartFetch \/ PoolWait \/ Cancel
    \/ \E w \in Workers : Worker(w)
    \/ Coordinator
    \/ Terminated

\* The Go scheduler runs every goroutine that can run, every request ends (by
\* the time limit of the HTTP client, 60 s unless -timeout says otherwise) and Sleep
\* returns.
Fairness ==
    /\ WF_vars(StartExcluded \/ StartFetch) /\ WF_vars(PoolWait)
    /\ \A w \in Workers : WF_vars(Worker(w))
    /\ WF_vars(Coordinator)

Spec == Init /\ [][Next]_vars
FairSpec == Spec /\ Fairness

-------------------------------------------------------------------------------
(* Properties *)

\* The type invariant.
Received == \A w \in Workers : pc[w] = "got" => got[w] \in Answers(item[w].url)
TypeOK ==
    /\ site \in Sites
    /\ phase \in {"start", "running", "returned"} /\ ret \in {"none", "ok", "error"}
    /\ queue \in Seq(Item) /\ results \in Seq(Result)
    /\ coord \in {"receive", "handle", "closed"}
    /\ cur \in [depth : Int, refs : Seq(Ref), included : Seq(Url)]
    /\ pushed \in Nat /\ todo \in Int
    /\ pc \in [Workers -> {"check", "select", "get", "got", "send", "done", "failed"}]
    /\ item \in [Workers -> Item] /\ out \in [Workers -> Result]
    /\ tries \in [Workers -> 0 .. Tries - 1] /\ got \in [Workers -> Response] /\ Received
    /\ lockdown \in BOOLEAN /\ ctxDone \in BOOLEAN
    /\ visits \in [Url -> Nat]

\* The workers that hold an item whose result has not been sent; a worker that has
\* failed holds its item for ever.
Holding == {w \in Workers : pc[w] \in {"get", "got", "send", "failed"}}

Outstanding == Len(queue) + Len(results) + Cardinality(Holding)

\* The coordinator's count is exact: it counts every item queued, in progress or
\* answered but not yet handled, whatever the order in which workers and
\* coordinator run (scraper.go:197-211).
WorkCounted == todo + pushed = Outstanding

\* The coordinator closes the queue only when no work is left anywhere: no worker
\* will send on a channel nobody reads, and no item is dropped
\* (scraper.go:208-212).  In particular a worker that failed keeps it open.
ClosedMeansDone ==
    coord = "closed" => queue = <<>> /\ results = <<>> /\ Holding = {}

\* The inductive invariant behind the three properties around it: what the
\* coordinator's program counter says of its count, and the count itself.
CoordinatorOK ==
    /\ phase = "start" => coord = "receive" /\ todo = 0
    /\ coord # "handle" => pushed = 0
    /\ pushed <= Len(cur.included)
    /\ coord = "closed" => todo = 0
WorkersOK ==
    /\ \A w \in Workers : pc[w] = "done" /\ ~ctxDone => coord = "closed"
    /\ ret = "ok" => \A w \in Workers : pc[w] = "done"
    /\ phase = "start" => \A w \in Workers : pc[w] = "check"
    /\ phase = "returned" => \/ \A w \in Workers : pc[w] = "check"
                             \/ \A w \in Workers : pc[w] \in {"done", "failed"}
Accounting == TypeOK /\ WorkCounted /\ CoordinatorOK /\ WorkersOK

\* Start reports success only when the crawl is over, unless it was cancelled
\* (scraper.go:166-171, 208-221).
OkMeansDone ==
    ret = "ok" /\ ~ctxDone => coord = "closed" /\ Outstanding = 0

\* A worker that fails stops the others without telling them: unless the crawl is
\* cancelled, the queue is never closed, no worker leaves, and Start returns only when
\* every worker has failed (scraper.go:173-180, 197-213).
FailureStopsTheCrawl ==
    ~ctxDone /\ (\E w \in Workers : pc[w] = "failed") =>
        /\ coord # "closed"
        /\ \A w \in Workers : pc[w] # "done"
        /\ phase = "returned" => \A w \in Workers : pc[w] = "failed"

\* No site here hands out bare references.
Absolute ==
    \A u \in Url : \A r \in site.responds[u] :
        \A i \in DOMAIN r.refs : ~r.refs[i].bare

\* No URL is fetched twice unless it was throttled, and no two URLs of the same key are
\* fetched, although pages and redirects refer to them any number of times (checks.go:27).
WasThrottled(u) == \E a \in answered : a.url = u /\ a.kind = "tooMany"
AtMostOnce ==
    Absolute =>
        /\ \A u \in Url : visits[u] > 1 => WasThrottled(u)
        /\ \A u, v \in Url : u # v /\ visits[u] > 0 /\ visits[v] > 0 => Key(u) # Key(v)

\* A URL that was throttled is fetched again before the queue is closed.
\* httpGet.go:111: "this URL will be re-tried later", download.go:145: "put this URL back
\* into the work queue to be re-tried later".
RetriedLater ==
    coord = "closed" => \A u \in Url : WasThrottled(u) => visits[u] > 1

\* An asset is what refers to nothing.  Of those of other domains nothing is said: they are
\* not fetched, but README.md:24 says "Assets from external domains are downloaded
\* automatically".
IsAsset(u) == \A r \in site.responds[u] : r.kind = "page" /\ r.refs = <<>>

\* Nothing is fetched that a filter or the scheme excludes, and no page of another host,
\* except the start page, also after a redirect of the start page to another host
\* (checks.go:15-45).
OnlyAdmissible ==
    Absolute =>
        \A u \in Url : visits[u] > 0 =>
            \/ u = StartURL
            \/ u \in WebUrl /\ u \in site.allowed /\ (HostOf[u] = scHost \/ IsAsset(u))

\* Nothing is fetched below the depth limit, although redirects and retries move
\* the depth of a result back by one (checks.go:35, download.go:137, 148).
WithinDepth ==
    Absolute => \A w \in Workers : pc[w] = "get" => item[w].depth \in 0 .. MaxDepth

\* When the queue is closed every reference that the pages, redirects and retries
\* obtained so far gave, and that the filters accept, has been fetched under its
\* key: concurrency loses none (checks.go:50-62, scraper.go:198-212).
Fetched(key) == \E u \in Url : visits[u] > 0 /\ Key(u) = key
Complete ==
    coord = "closed" =>
        \A a \in answered : \A i \in DOMAIN a.refs :
            LET ref == a.refs[i]
            IN  ref.bare \/ (ref.to \in WebUrl /\ Admissible(ref.to, a.next))
                    => Fetched(Key(ref.to))

\* What the filters accept at any depth, and what a page, redirect or retry obtained so
\* far refers to, at which depth.
Eligible(u) == u \in WebUrl /\ u \in site.allowed /\ HostOf[u] = scHost
Targets(refs) == {refs[i].to : i \in DOMAIN refs}
ToldAt(u, depth) == \E a \in answered : a.next = depth /\ u \in Targets(a.refs)
Told(u) == \E a \in answered : u \in Targets(a.refs)

\* A depth limit loses a URL that the filters accept only if some way to its key is longer
\* than the limit, whether or not another is short enough (checks.go:27-37).
TooDeep(u) ==
    \E v \in WebUrl : Key(v) = Key(u) /\ \E a \in answered : a.next > MaxDepth /\ v \in Targets(a.refs)
LostOnlyByDepth ==
    Absolute /\ coord = "closed" =>
        \A u \in Url : Eligible(u) /\ Told(u) => Fetched(Key(u)) \/ TooDeep(u)

\* Start returns: the workers, the coordinator and the bounded channel between
\* them never wait for one another for ever (scraper.go:155-221).
EventuallyReturns == <>(phase = "returned")

\* An item that was queued is fetched, even while a lockdown keeps every worker
\* but one asleep, unless a worker fails or the crawl is cancelled
\* (scraper.go:164, 186-188).
Queued(u) == \E i \in DOMAIN queue : queue[i].url = u
Broken == ctxDone \/ \E w \in Workers : pc[w] = "failed"
EveryItemTaken == \A u \in Url : Queued(u) ~> (visits[u] > 0 \/ Broken)

\* Once the queue is closed or the context cancelled, Start returns, or a lockdown lasts
\* for ever.  A worker that holds an answer when the context is cancelled may still
\* start that lockdown, with nobody left to end it (scraper.go:162-191, httpGet.go:109-120).
StopsUnlessLockedDown ==
    phase = "running" /\ (ctxDone \/ coord = "closed") ~> phase = "returned" \/ []lockdown

\* scraper.go:194-195: "When it terminates, it closes the workQueueIn channel,
\* causing all the pool goroutines to terminate."
CloseStopsPool ==
    coord = "closed" ~> \A w \in Workers : pc[w] \in {"done", "failed"}

-------------------------------------------------------------------------------
(* The promise: a search of the site, module SiteSearch *)

\* The search as the crawl goes about it.  A page that is throttled asks for itself again.
Scope == {u \in Url : Eligible(u)}
Refers == [u \in Url |-> {u} \union UNION {Targets(r.refs) : r \in site.responds[u]}]
Found == {u \in Scope : Told(u)}
Visited == {u \in Url : visits[u] > 0}

Search == INSTANCE SiteSearch WITH
    Page <- Url, Start <- StartURL, scope <- Scope, refers <- Refers, found <- Found,
    fetched <- Visited, over <- (coord = "closed")

\* The pool of workers, the queue and the coordinator together make one search: whatever
\* is fetched was found before on a page that was fetched, has a path that none had, and
\* the queue is closed when nothing found is left (scraper.go:135-221, checks.go:10-62).
ImplementsSearch == Search!Spec

===============================================================================
