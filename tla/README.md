# TLA+ models of goscrape2

goscrape2 copies a web site for reading offline: it crawls the pages of one host
with a pool of workers, stores each page with its links made relative, keeps the
metadata of the HTTP answers in a cache so that the next run can ask "has it
changed?", and can serve the copy with a web server that downloads what is
missing. These modules model the parts of the program where order, failure and
concurrency matter. TLC checks them on small instances; the theorems in the
`*Proofs` modules are checked by TLAPS for every value of the constants.
Source paths below are relative to the repository.

## 1. Inventory

### Components

| Component | State it keeps | Operations | Modelled in |
|---|---|---|---|
| Throttle `download/throttle/throttle.go` | one atomic delay, three constants | `New`, `SlowDown`, `SpeedUp`, `Reset`, `IsNormal`, `Sleep` | `Throttle`, `AtomicThrottle` |
| Crawl `scraper/scraper.go`, `scraper/checks.go`, `work/*` | processed set, unbounded work queue, bounded results channel, count of outstanding work, one worker loop per goroutine | `Start`, `shouldURLBeDownloaded`, `partitionResult`, worker loop, coordinator loop | `Scraper` |
| Download `download/*.go` | none of its own: uses the throttles, the metadata cache and the file system | `ProcessURL` and one function per class of answer | `Scraper` (what the crawl is told), `LocalCopy` (what happens to the file) |
| File writing `download/ioutil/fs.go` | the files | `WriteFileAtomically`, `ReadFile`, `CreateDirectory` | `LocalCopy` |
| Metadata cache `db/*.go` | map in memory, count of unsaved changes, mutex, one file | `OpenDB`, `Lookup`, `Store`, `Close`, periodic sync | `CacheDB`, `DurableMap` |
| File names `mapping/file.go` | none | `GetFilePath`, `GetPageFilePath`, `SortedQueryString` | `FileNames` |
| Document rewriting `document/*`, HTML index `htmlindex/*` | the document in hand, an index of its nodes by reference | `Index`, `FindReferences`, `FixURLReferences`, `CheckCSSForUrls`, `resolveURL` | `Links` |
| Web server `server/server.go` | none of its own: shares the first scraper, its cache and its files | `redirecter.ServeHTTP`, `onDemand.ServeHTTP`, launch, shutdown | `WebServer`; its downloads also in `LocalCopy` |
| Main program `main.go` | the index of the start URL | the loop of `scrapeURLs`, the purge of the cache, the end of the process | `WebServer` (the loop; not the flags) |
| Configuration, filters, cookies, images, histogram, logger, clock | flags, compiled expressions, counters | sequential set-up and reporting | not modelled, see section 8 |

### How they interact

`Start` fetches the start page by itself. Then it starts `Concurrency` workers
and one coordinator. Workers take items from an unbounded queue, call
`ProcessURL`, and send results through a channel of capacity `Concurrency`. The
coordinator filters the references of each result, queues the new ones, keeps the
count of outstanding work, and closes the queue when the count reaches zero.
Every `ProcessURL` reads and changes the two throttles (a 429 or 5xx slows
`Lockdown` down, other answers reset it; workers other than 0 stop taking items
while it is not normal), looks up and stores metadata, and writes one file. The
metadata cache is saved by whichever of `Store`, `Close` and a background
goroutine finds unsaved changes. On-demand handlers of the web server call
`ProcessURL` beside the crawl, on the same cache and the same files.

With `-serve` the web server is launched for the first start URL and runs beside
all the crawls. A request first meets the redirecter, which replays a redirect that
the cache knows, then the file server, then, when there is no file, the on-demand
handler, which reads the URL of the scraper (which `Start` moves when the start
page is redirected), downloads, and asks a second file server.

A page that is downloaded is parsed, its references are collected, and the same
attributes are rewritten to relative links before it is stored. When a later run
learns that the page is unchanged, it reads the *rewritten* page to know where to
go on: the crawl of the second run depends on what the first has written.

### What is hard

- *Termination of the crawl* rests on a count that two kinds of goroutine change
  the meaning of: an item is counted by the coordinator, but held, answered, sent
  or lost by a worker.
- *Bounded and unbounded channels in a circle*: workers block on the coordinator,
  and the coordinator queues work for the workers.
- *Lockdown* blocks all workers but one, and only the answer to a request lifts it;
  the context may be cancelled between an answer and the lockdown it asks for.
- *Two atomic operations per throttle call*, interleaved with those of other
  goroutines.
- *Saving the cache*: saves race stores, `Close` and the end of the process; the
  disk may fill up.
- *A file and its metadata are two things* changed in two steps, by a process that
  may be killed in between, while the origin server changes the resource, and
  possibly by two downloads at once.
- *The web server reads what the crawl writes*: the scraper's URL twice in one
  request, the cache before and after its own download, files under names that it
  computes otherwise than the writer.
- *Rewriting is not done once*: an HTML node is rewritten once for each of its
  references, a style sheet token by token, both in the order of a Go map, and the
  result is parsed again in the next run. Whether it is stored at all hangs on a flag
  that each element reports for itself.

`hazards` in `PROJECT.json` lists these line by line, with the property that
covers each, or the reason why none does.

### What correctness means

- Throttle: the delay never leaves its range, a "too many requests" is never
  forgotten, `LoopDelay` never decreases, calls behave as if they were atomic.
- Crawl: every admissible page is fetched, once; nothing else is; the count is
  exact; `Start` returns, and reports success only when the crawl is over; a failure
  is not taken for the end of the crawl.
- Metadata cache: a crash-safe map with a bounded loss.
- Local copy: a file is always the whole of some version; "unchanged" from the
  server means that the file is the current version.
- Links: a rewritten link leads where the original did, and to the file in which
  that is stored; the order of rewriting cannot be seen; the copy leads a later run
  where the original led the first.
- Web server: only redirects that were given are replayed, the cache holds the last
  answer, what was downloaded and saved is served, every request is answered.

## 2. Modules

| Module | What it is |
|---|---|
| `Throttle` | The throttle, one action per atomic operation |
| `AtomicThrottle` | The throttle as its comments describe it, one step per call |
| `MCThrottle` | Throttles of the shapes the program uses, for TLC |
| `ThrottleProofs` | Theorems about `Throttle` |
| `Scraper` | The crawl: `Start`, the workers, the channels, the coordinator |
| `MCScraper` | Small web sites for TLC |
| `ScraperProofs` | Theorems about `Scraper`: types and the count of outstanding work |
| `VisitProofs` | Theorems about `Scraper`: which URLs are fetched, and how often |
| `SiteSearch` | Abstract: a search of the site that fetches one page for each path it finds |
| `CompletenessProofs` | Theorems about `Scraper`: what is lost, by the depth limit alone; it implements `SiteSearch` |
| `DurableMap` | Abstract: a map in memory and a copy on disk replaced as a whole |
| `CacheDB` | The metadata cache and its file |
| `MCCacheDB`, `CacheDBProofs` | Instances and theorems |
| `LocalCopy` | One URL's file and metadata, over many runs; its cache is a `DurableMap` |
| `MCLocalCopy`, `LocalCopyProofs` | Instances and theorems |
| `FileNames` | The file in which a URL is stored, as functions |
| `Links` | The references of one document: found, rewritten, stored, read again |
| `MCLinks`, `LinksProofs` | Instances and theorems |
| `WebServer` | The program with `-serve`: main loop, crawls, redirecter, on-demand handlers |
| `MCWebServer`, `WebServerProofs` | Instances and theorems |

`Links` and `WebServer` both extend `FileNames`: a link must lead to the file that
`GetFilePath` names, and the file server must find it.
`Scraper` implements `SiteSearch`, and `CacheDB` implements `DurableMap` (both checked
and proved); `LocalCopy` is built on
`DurableMap`: what is shown of the local copy rests on what is shown of the cache.
`Throttle` and `Scraper` meet in the Boolean `lockdown`, the result of `IsNormal`.

A definition whose comment calls it a mistake (`KeyOfPath`, `CloseUnsaved`,
`SlowDownDouble`, ...) is not part of the model: it is the code with a plausible
bug, and each property of a passing run is violated when one of them takes the
place of the definition it follows. The pairs are the `mutants` of `PROJECT.json`.

### Throttle

`delay` is the atomic word. `SlowDown` is a compare-and-swap and, when it fails,
an addition (`SlowDownAdd`): two actions. `SpeedUp` loads, then swaps
(`SpeedUpSwap`). `Reset` is one store. `used` is the set of methods the program
calls on this throttle, because some properties hold only for `LoopDelay`, on
which only `SlowDown` is called.

### Scraper

| State | In the code |
|---|---|
| `phase`, `ret` | where `Start` is, and what it has returned |
| `scHost` | `sc.URL.Host`, moved by a redirect of the start page (scraper.go:149) |
| `processed` | `sc.processed`, a set of keys |
| `queue`, `results` | the work queue (`workQueueIn`, `workQueueOut`) and the results channel |
| `coord`, `cur`, `pushed`, `todo` | the coordinator: where it is in its loop body, the result in hand, what it has queued, its count |
| `pc`, `item`, `tries`, `got`, `out` | per worker: where it is, what it downloads, attempts, the answer it has received and not yet looked at, the result it is about to send |
| `lockdown`, `ctxDone` | `!Lockdown.IsNormal()`; the context is cancelled |

`Enter`, `Take`, `Leave`, `Fetch`, `Retry`, `Answer`, `Fail` and `Send` are the steps
of a worker; `Receive`, `Partition`, `Push` and `Settle` those of the coordinator. A
request is two steps: `Fetch` is `Client.Do` (httpGet.go:90), and only the next step,
`Retry`, `Answer` or `Fail`, looks at the answer (`Look`): it sets the lockdown first
(httpGet.go:105-138) and then does what the answer asks for. In between the context may
be cancelled, and other workers may see the lockdown as it was. An answer that sets the
lockdown and is then found unusable (a cut body, a bad `Location`) is *broken*. The
coordinator filters one reference and queues one item per step, so that workers
run between any two of them. The web site is a constant: for each URL a set of
outcomes, among which the server chooses anew at every request. The *key* of a
URL in `processed` is the path on the scraper's own host and the whole URL
elsewhere, as in checks.go:19-25; a reference with neither scheme nor host
(*bare*) passes all the filters, as in checks.go:11.

The abstract crawl, `SiteSearch`, knows neither workers nor queue: a page that was
fetched may name pages of the scope, a page that was named may be fetched unless one of
its path was, and the search is over when no such page is left. `Scraper` shows it
the URLs that the filters accept at any depth (`Scope`), the references that a server
may answer with (`Refers`), the URLs named by an answer so far (`Found`), those fetched
(`Visited`), and "closed" for "over". The step in which
a worker takes a URL is a `Fetch` of `SiteSearch`, one that has an answer a `Read`, the
closing of the queue a `Finish`; the rest is hidden.

### CacheDB

A save is three steps under the mutex: a caller finds that it has to save
(`Store`, `Sync` or `Close`), `WriteTemp` writes the temporary file, `Rename` puts
it in place and resets the counter. `Readable` is what writing and reading back
makes of a map: an empty field is written as a dash and a dash is read as an empty
field; the line of a key with a tab or newline does not read back. `Crash` stops
the process at any moment, `Open` starts it again, after a crash or a `Close`.

### LocalCopy

Time is counted in versions of the resource: version *v* was last modified at time
*v*. Each actor (the crawl's worker, on-demand handlers) goes through
`ProcessURL`: `Lookup` (metadata), `Stat` (modification time of the file), the
request and its answer (`Fresh`, `NotModified`, `Refused`, `Answered`, `Gone`),
`Store` (metadata), `Body`, `Create`, `Write`, `Rename`, `Stamp`; one call of the
file system, cache or HTTP client each. Meanwhile the server publishes new
versions, moves or removes the resource, the cache is saved, and the process is
killed. `server` is what the origin supports: ETags, dates, both or neither. The
history variable `doubt` is set when a download is cut short after its metadata was
stored, or when two downloads of the file overlap.

### FileNames and Links

A path is a sequence of segments; a segment is a name with the parameters that stand
in it and an extension, so that `a_x=1.html` can be told from `a.html`, and a path
that ends with a slash ends with an empty segment. Everything that depends on it
(trimming, the slash that `path.Join` loses, the file name of a page) is computed as
url.go and file.go do. A reference is absolute, rooted, relative with a number of
`../`, or a fragment, which stands for all that is left alone. `OtherScheme` takes the
place of the host of a reference that has none, but a scheme of its own, as `tel:`.

`Parse` collects the references (against the base element if there is one),
`FixNode` rewrites all the attributes of the element once, and is taken once for
every reference the element had when it was parsed, `FixBase` rewrites the base
element, which is in the index like any other, `ReplaceToken` replaces one token of
a style sheet wherever it stands, `Store` stores, `Reread` is `html304` or `css304`
of a later run. `resolveURL` is the function of that name, used by both. `changed` is
what `fixHTMLNodeURLs` will say: an element that has an attribute that is left alone
reports nothing (`Adjusted`), and a page with nothing reported is stored as it was
received, unless some element out of view has reported a change; where that hides a
change the document is `Forgotten`.

### WebServer

| State | In the code |
|---|---|
| `main`, `turn`, `scHost` | where `scrapeURLs` and `Start` are, the index of the start URL, `sc.URL.Host` of each scraper (main.go:259-302) |
| `files`, `records` | the stored files, each in the directory of a host, and the metadata cache |
| `pc`, `call` | per handler, and for the crawl: where it is in `ServeHTTP` or `ProcessURL`, its URL, its directory, the answer it has, and, as history, whether it could save the file |
| `last`, `contested` | history: the last answer to be recorded for each URL, and the URLs two actors worked on at a time |

A handler goes through `Redirecter`, `FileServer`, `Resolve` (first read of `sc.URL`,
server.go:43), `Downloader` (second read, server.go:44), `ProcessURL` (`Prepare`,
`Ask`, `Process`, and one of `SaveFile`, `SaveFails` and `BodyFails`) and one of the ways
`onDemand.ServeHTTP` treats a result. `SaveFails` is a write that is only logged
(ok.go:202-208), after which the result is a 200 all the same; `BodyFails` is a body that
cannot be read, which is an error although the metadata are stored. An error of the crawl
that is not of the connection ends the program (main.go:280-292).
`Recovers` is the way through `Store`'s panic and the recovery handler. The crawl is
one actor that downloads any URL of its host: what it chooses is the matter of
`Scraper`. `Restart` runs the program again, with the cache or, as the purge of
main.go:181 may have it, without.

## 3. Runs

States are distinct states; a run that ends in a violation stops where it finds one.

| Run | Instance | States | What it shows |
|---|---|---|---|
| `throttle` | 3 goroutines, 5 argument triples of `New`, 3 sets of methods | 347 260 | range, no lost slow-down, monotonic `LoopDelay`, linearizability where it holds |
| `crawl` | 3 workers, 7 sites of up to 7 URLs | 20 978 | only what is admissible, nothing lost, no deadlock, `Start` returns, refinement of `SiteSearch` |
| `crawl_hostile` | 2 workers, 2 tries, depth 1, cancellation; servers that throttle, fail, break off and do not answer | 24 604 | the count is exact, the queue is closed only at the end, success means done, what a failure does to the others, at most once, the depth limit and what it may lose, queued items are taken, stopping works |
| `lockdown_hang` | 2 workers, the last answer is a 5xx | - | *violation*: workers other than 0 never stop |
| `depth_race` | 2 workers, two ways to one page | - | *violation*: a page within the depth limit is lost |
| `throttled_once` | 2 workers, a page answered 429 | - | *violation*: it is not tried again |
| `cachedb` | 3 keys, 5 items, limit 3, crashes and restarts, a disk that works | 14 100 | consistency, bounded loss, `Close` saves, silence after `Close`, refinement of `DurableMap`, eventual saving |
| `localcopy` | 1 worker, 1 handler, 3 kinds of resource, 4 kinds of server, 2 versions, crashes and failures | 1 870 092 | the file is always whole, no temporary file is left, a 304 is the truth |
| `localcopy_directory` | a page without extension | - | *violation*: a directory is taken for the local copy |
| `links` | 19 documents, 22 references alone, in pairs and in sets, 4 base elements, 1728 style sheets | 616 756 | rewriting twice or in any order is rewriting once, links lead to what they meant and to its file, the copy leads a later run to the same URLs, where references without host come from |
| `service` | 1 handler, the crawl, 4 sites with 1 or 2 start URLs, 4 URLs on 2 hosts, failing saves, restarts | 520 192 | replayed redirects were given, the cache holds the last answer, what could be saved is served, every request is answered |
| `service_bare` | a site of pages, requests for one without extension | - | *violation*: a stored page is answered by an error |

### The bounds, and why they are enough

- `MaxDelay`: no `SlowDown` starts beyond it. The delays above it differ from
  those below only in size; the arguments include every order of minimum and
  initial step, and negative ones.
- Three throttle goroutines: one inside `SlowDown`, one inside `SpeedUp`, one that
  resets. The theorems hold for any number.
- Three workers: worker 0, which a lockdown spares, and two that can overlap with
  it and with each other; the channel then has capacity three. The sites contain
  repeated references, circles, self-references, redirects to a known and to an
  unknown page and in a circle, a foreign page with the path of a page of the site,
  a mail address, filtered pages and a start page that moves to another host.
- The unbounded work queue needs no bound: each key enters it at most once. The
  exception is bare references; the sites of `crawl_hostile` that hand them out are
  such that they run into the depth limit through pages.
- `MaxUnsaved` 2 or 3 stands for 100: what matters is that it can be reached by
  stores of one key and of several. After `Close`, where the code still counts
  but never saves, at most `MaxUnsaved` stores are followed.
- `links`: paths of up to two directories, the page at the root, in a directory,
  as an index, with an extension, with a query string in either order, and on
  another host than the start page; each reference of those shapes that climbs to,
  into or past them. Two references are enough for one to be rewritten because of
  the other; a style sheet has three, so that a token can become another and be
  replaced again. `MaxSet` only bounds the index of a reference in a srcset.
- `service`: one handler beside the crawl gives every overlap of two downloads, a
  second handler only another actor that does what the first does; the theorems
  hold for any number. The URLs are a home page and a page without extension, on
  the host of the start page and on the one it moves to.
- Two versions: one that the copy has and one that it has not. With a third, TLC
  found nothing in ten million states; the theorems hold for any number.

## 4. Fairness

`Scraper`: weak fairness of `Start`, of each worker and of the coordinator. The Go
scheduler is preemptive and runs every goroutine that can run; a request ends because
the HTTP client has a time limit, 60 s unless `-timeout` says otherwise (main.go:87).
The client is built from `cfg.RequestTimeout` as it is given (scraper.go:97-100), before
`SensibleDefaults` corrects it: with `-timeout 0` there is no limit, and what is said of
liveness, here and in `WebServer`, then supposes that the servers answer.
`Sleep` returns. Weak fairness of a worker as a whole
says nothing about *which* step it takes: with the queue not empty and the context
cancelled Go's `select` may choose either, and so may the model. Cancelling is
never fair, and the choice of the server among its outcomes is not either.

`CacheDB`: weak fairness of `Sync` and of the steps of a save. The goroutine wakes
every second; the mutex of Go hands over to a waiter that has waited for a
millisecond (starvation mode), so `Store` cannot keep it out for ever. Neither
`Store` nor `Close` is fair.

`WebServer`: weak fairness of each handler. `net/http` runs every request in a
goroutine of its own, and a download ends by the client's timeout at the latest; a
handler takes the mutex of the cache, and waits for nothing else. Clients, the
crawl and the main loop are not fair.

`Throttle`, `LocalCopy` and `Links` state safety only.

## 5. What is proved

All theorems are for any values of the constants that satisfy the named
assumptions (`ThrottleAssumption`, `ScraperAssumption`, `CacheDBAssumption`,
`LimitAssumption`, `LocalCopyAssumption`, `QueryAssumption`, `LinksAssumption`,
`WebServerAssumption`), which TLC evaluates on every instance.

- **Throttle.** `Invariant` is inductive: besides types and the clamps of `New` it
  says that a pending `SpeedUp` has loaded a delay above the minimum, and that
  where only `SlowDown` is used a pending addition finds the throttle engaged. The
  second is what makes `SlowDownIsAtomic` and, from it, `NeverDecreases` follow.
  `StepsAsDocumented` names the one step that is not a documented call, and
  `SlowDownTakesHold` says that even that one leaves the throttle engaged.
- **Scraper.** `Accounting` is the inductive invariant: types,
  `todo + pushed = ` queued + held by workers + in the channel, and what the
  positions of coordinator and workers say. The count alone is not inductive: while
  the coordinator queues the references of a result they are in the queue but not
  yet in `todo`, hence the term `pushed`; and "closed" implies "nothing left" only
  because `todo` is zero then and the terms of the sum are natural numbers. From it
  follow `ClosedMeansDone`, `OkMeansDone` and `FailureStopsTheCrawl`: after the
  failure of one worker the queue is never closed, so unless the crawl is cancelled no
  worker leaves, and `Start` returns only if every worker fails. That a worker which
  waits for the queue then waits for ever is read off this, not proved.
- **Scraper, which URLs are fetched** (`VisitProofs`). The theorems suppose that
  no site hands out bare references (`Absolute`), as the properties do. The URLs that
  *wait* are those in the queue and those that the coordinator has included and not
  yet queued. `VisitInv` says that they pass the filters, that their paths are
  recorded in `processed`, differ from one another and were never fetched; that what
  was fetched was fetched once and has its path recorded; and that the depth of a
  result is at least -1, since a redirect of the start page decrements 0. A reference
  is accepted only when its path is not recorded, which keeps all this. The second
  conjunct about the waiting ones is what makes a `Take` harmless: the URL that leaves
  the queue is not in it a second time. From it follow `NeverFetchedAgain`, `FetchedAtMostOnce`,
  `OnlyAdmissibleFetched`, `FetchedWithinDepth` and, because the path of the start page
  is recorded first, `NotFetchedWhereMoved`.
- **Scraper, what is lost** (`CompletenessProofs`). `FollowInv` follows a reference
  from the answer to the fetch: what was obtained is unread (in the result of a worker, in
  the channel, or before the filters) or its path is recorded; a path that is recorded was
  fetched, waits, or is `TooDeep`: some answer led to it below the depth limit. The last is
  what a limit costs, and needs `ToldOK`, that nothing waits and nothing is unread that no
  answer named, at the depth at which it is handled. `LostOnlyByDepthHolds` follows for
  every limit: a page within the limit is lost only when a longer way leads to it as well,
  the race of run `depth_race`.
  "No limit" is a number too (config.go:51-53 puts the largest for 0), so for
  `CompleteUnlimited` the invariant has to bound the depth, and does by the number of
  recorded keys: of the URLs on a path to what waits none was recorded twice. A limit
  above the number of URLs makes nothing `TooDeep`.
  The theorems suppose, each because the code needs it: no bare references (they pass
  unrecorded, and may be queued for ever); `FiltersByPath`, that of two URLs with one host
  and one path the filters accept both or neither, since the first one met records the
  key for both (section 7); `NotMovedInPlace`, that the start page has not moved to its own
  path on another host, where its key is recorded already.
  `CrawlSearches` is the refinement of `SiteSearch`, at unlimited depth; the last is not
  needed there, as the abstract search goes by paths alone. It uses `ToldOK` again, and
  `Begun`, that before the start page is fetched there is nothing to do.
- **Links.** `IInv` adds to the types that nothing is rewritten before the document is
  parsed, and that a base element waits to be rewritten only if there is one. The
  lemmas show that resolving, finding and rewriting keep the forms of references;
  with them it gives `BareReferences`. `LinkLeadsBack` is about the function
  `resolveURL` alone, for paths of any length: `UpAndDown` says that climbing from the
  directory of a file to the longest common prefix and descending the rest gives the
  target, unless the target passes through the file itself; the exceptions are those
  that `Spoilt` names.
- **Links, for whole documents.** A reference is *stable* when rewriting it once more gives
  what rewriting it once gave; where `WithoutWayBack` holds every reference is whose
  target is not spoilt. The second
  invariant, `RInv`, says what stands at each place of the document: the rewritten
  reference, if that of the source is stable, or the one of the source, and this only
  while it waits; and where an element stops being rewritten never changes. `Flagged` is
  the part about the `changed` flag: where no attribute is left alone and nothing was
  reported as adjusted, nothing was. So a page that `Store` puts back is either as
  rewriting would have left it or `Forgotten`; what a link opens, and how rewriting shows,
  is said of the documents that are not, where a link leads is said of all. With all done this is `RewrittenAsOnce`, whatever the order of nodes and tokens and whatever token is
  the result of another. A link that was rewritten has a normal form, some levels up, then
  a path and a query; `LinksLead` follows it from the page, `LinksOpen` from the file of
  the page to the file of its target, and `ToldTheSameAgain` shows that the copy, read
  again, gives the references that the source gave. It supposes that no
  reference lost a scheme, since what does is a new URL. All hold for documents,
  attributes and references of any number and length.
- **WebServer.** `IInv` is types, *Calls* (a URL with a host is one that exists, a
  handler's URL is as requested until it has a host) and *History*: an answer in hand
  is made up or one that the origin server of the URL gives; a page or an asset that
  was saved (history variable `saved`) stays saved unless a page stored in that file may be gone; and for each
  URL that is not contested at most one of the actors at work on it has an answer to
  record, which is then `last`, and from the moment it has recorded it until another
  answer arrives the cache holds `last`. This is what survives that a handler stores
  its redirect a second time. The crawl and the handlers take the same steps of
  `ProcessURL`, so the lemmas about these are proved once for any actor.
- **CacheDB.** `Consistent` is inductive; with `LossOK` it gives `BoundedLoss`. The
  step lemma: a `Store` changes one key, so what is lost grows by one at most, and
  so does the counter. `CloseSaves` needs the loss bound too, because `Close`
  without unsaved changes saves nothing: the file must already agree.
  `CacheIsDurable` is the refinement of `DurableMap` by a mapping that shows the
  map in memory as it would be read back, and the file in its place while no
  process runs. These suppose a disk that works (`DiskMayFail` false), except for
  `Consistent` and `QuietWhenClosed`.
- **LocalCopy.** `FileIsWhole` from an invariant that ties the positions of the
  actors to what they hold; it supposes nothing about failures, overlaps or crashes.
  `NoTemporaryLeft` supposes that closing a file does not fail. `Trustworthy` is the
  inductive invariant behind `NotModifiedIsTrue`: without doubt one actor at most is
  active, the metadata in memory *and on disk* is not ahead of the file or of what is
  about to become the file, and the file's time is not later than its version. It
  has to speak of both copies of the metadata, because a crash brings the one on
  disk back.

## 6. What is only model-checked

Liveness under fairness, which is outside the prover's reach: `EventuallyReturns`,
`EveryItemTaken`, `StopsUnlessLockedDown`, `EventuallySaved`, `EveryRequestAnswered`.
Every invariant and action property of a run that passes is stated by a theorem. Those
about `Complete`, `LostOnlyByDepth` and `ImplementsSearch` have hypotheses on the filters,
the first and the last also on the depth (section 5). The runs `crawl` and `crawl_hostile`
check them on sites that satisfy these; the run `depth_race` shows that `Complete` does
need the one on the depth.

## 7. Where the program differs from what it says

Shown by a run:

1. *A lockdown at the end hangs the crawl* (run `lockdown_hang`). Workers other than
   0 look at the queue only when `Lockdown` is normal (scraper.go:164).
2. *A page within the depth limit may be lost* (run `depth_race`). checks.go:27
   records a reference before checks.go:35 looks at its depth.
3. *A 429 is never retried* (run `throttled_once`). download.go:145 puts the URL "back
   into the work queue to be re-tried later", but checks.go:27 refuses it: it is in
   the processed set. `NeverFetchedAgain` says so for every site.
4. *A directory is taken for a local copy* (run `localcopy_directory`).
   download.go:47 stats the name without `.html`.
5. *A page without extension is never served* (run `service_bare`). `/b` is stored as
   `b.html`, where the file server does not look for it. The first request downloads it
   and is answered 404; for the later ones the handler asks conditionally, takes a 304
   for a redirect, and `Store` panics (db.go:187), or answers the made-up 418 by 500.

Shown by a theorem, for every site:

6. *A failed download stops the crawl without ending it* (`FailureStopsTheCrawlHolds`).
   scraper.go:178 returns from the worker without a result; the count never reaches zero.
   With one worker, or when every worker fails, `Start` does return an error; otherwise
   those left wait until the context is cancelled.
7. *A start page that moves to the same path ends the crawl*
   (`NotFetchedWhereMoved`), as from http to https, or from a host to the same page at
   another: the path is recorded already, the redirect is refused, and `Start` reports
   success (scraper.go:32 expects that the main URL "will be modified in case of a
   redirect"). The site of the run `crawl` that moves does so to another path.
8. *The documented back-off of a throttle* (`StepsAsDocumented` names the step): a
   `Reset` between the two atomic operations of `SlowDown` leaves the delay at the
   extra step, below the initial step (throttle.go:44-46).

Met while modelling, and built into the models as they are:

- *Links that rewriting spoils* (`Spoilt` in `Links`): a link to the index of the
  directory in which the page is becomes empty, which leads to the page itself, also
  on a page `/d/index.html` or `/d/index`; on a page `/a.html` a link to `/a.html/x` loses
  its beginning, and on a page `/a`, stored as `a.html`, so do links to `/a.html`.
- *Rewriting twice can be seen on another host* (`WithoutWayBack`): on a page of a host to
  which the start page has moved, a link to the host of the start page is made relative at
  first, and relative to the root when its srcset or element is rewritten again. In a
  style sheet there the links have no levels up at all.
- *The recorded key is coarser than the filters*: the paths "" and "/" have one key
  (checks.go:22-25), but the filters see the path as it is (filter.go:37). An expression
  that accepts one of them only may lose it, when the other is met first.
- *A cache file that was cut short replaces the good one*: `writeFile` reports no error (a
  failed line at db.go:244-247, the ignored `Flush` at 249), and db.go:214 renames
  regardless, although db.go:201-202 speaks of "an atomic write in the filesystem". So
  the properties about what is on disk suppose a disk that works (`DiskMayFail` false).
- *A page that was rewritten is stored as it was received* (`Forgotten` in `Links`): an
  attribute that is left alone makes html.go:94 report that nothing was adjusted, and when
  nothing else was, ok.go:76-78 stores the page as received, with links that lead to the
  site. html.go:80 says "It returns true if any attribute value bas been adjusted".
- *A reference loses a scheme of its own* (`Spoilt` in `Links`): url.go:28, which says
  "remove http/https", takes any scheme away, also that of `tel:` and `javascript:`; read
  again, the page names URLs of the site that it never named.
- A link loses the slash at its end, and keeps a query string where the file has it in
  its name (`NamedAsStored` restricts `LinksOpenFiles`).
- An attribute that begins with `#`, `/#`, `data:` or `mailto:` ends the rewriting of
  its element (html.go:92-94), so the attributes after it stay as they are.
- A worker that holds a 429 or a 5xx when the context is cancelled still sets the lockdown
  (httpGet.go:109, 120). Worker 0 leaves, and the others may then sleep for ever at
  scraper.go:164: `StopsUnlessLockedDown` allows this and nothing else.
- A download that could not be written is a 200 like any other (ok.go:202-208): the
  on-demand handler passes its request on to a file that is not there, a 404.
- An error of a crawl that is not of the connection, a body that breaks off or a failing
  cookie file, ends the service (main.go:280-298).
- With a base element, references are found against it but rewritten against the
  page's URL, and it is rewritten itself; read again, such a page gives other
  references, even some without host, which pass every filter (checks.go:11).
- After the start page has moved to another host, the crawl's files, the file server
  and the redirecter stay with the old host, while on-demand downloads go to the
  directory of the new one, so that they are answered 404. After a relative redirect
  `sc.URL` has no host until the coordinator has completed it, and on-demand
  downloads fail until then.
- A start page that does not exist ends the service: only connection errors are
  tolerated with `-serve` (main.go:280-290), and the exit status is 0.
- Without `-dir` the directory to look for is "", which does not exist, so that the
  cache is purged at every start (main.go:181).
- Every on-demand request has throttles of its own (scraper.go:120-121), so that it
  does not heed the lockdown of the crawl.
- When page `/b` is gone, its file `b.html` is removed, which may be that of
  `/b.html` (download.go:110; `TakenBack` in `WebServer`).

Others that no run shows, because they are plain on reading:

- README.md:24 of the repository says that "Assets from external domains are downloaded
  automatically"; checks.go:31 refuses them like pages. `OnlyAdmissible` says nothing of
  assets of other hosts.
- config.go:24 says "0 for unlimited" of `Tries`, which config.go:47 replaces by 1.
- README.md:105-106 of the repository and main.go:93 say that with `-serve` scraping
  "will happen only on demand using the first URL you provide"; `scrapeURLs` crawls all
  the URLs as well (main.go:259-275). `WebServer` follows the code.
- main.go:87 says that `-timeout` "will always be greater" than `-connect`; the HTTP
  client takes it before it is corrected (section 4).

## 8. What is not modelled, and why

- Real time: delays, timeouts and `LoopDelay` pauses are steps that end; the
  expiry of a copy is the choice between `Fresh` and a request.
- In `Scraper`, query strings; URLs are model values whose host and path are given by
  functions. `FileNames`, `Links` and `WebServer` have query strings; ports, escapes and
  fragments are in none, so the unescaping of keys (db.go:138) is the identity. Of the
  schemes only `Links` knows that a reference may have one of its own.
- In `Links`, references that cannot be parsed, which resolveURL replaces by nothing
  (url.go:11-14). `mailto:` and `data:` are left alone and so are fragments there. The
  "//" that css.go:55 makes of the directory of a style sheet in the root, and the "./" of
  one without path: both stand for the root, and a style sheet has a path.
- In `WebServer`, why a save fails; `SaveFails` may follow any download that writes.
- The outcome of html200 with neither result nor error (ok.go:72): it needs the
  renderer to fail on its own document. A temporary file that cannot be closed
  (fs.go:53-55): `LocalCopy` has it, but no run lets it happen.
- Content types and expiry times in the cache; lines longer than the 64 KiB of a
  scanner (db.go:80).
- Power loss: a rename that the kernel has accepted counts as done.
- The loss of an overlapping download (two actors on one file): `LocalCopy`
  contains it and shows that the file stays whole; that it is the newest version is
  not true, so the other properties exclude it through `doubt`.
- In `WebServer`, which URLs the crawl chooses, its workers and its work queue: these
  are `Scraper`; and the loss of a cut download: this is `LocalCopy`. Shutting down by
  a cancelled context: main.go:164 gives one that never is. A nil scraper
  (`-serve` without URLs, main.go:191, server.go:108) panics at once.
- The writes of `Downloader` to the scraper's configuration (scraper.go:111) by two
  goroutines: each writes what the other does.
- Several elements in one document, and the table of elements (attributes.go): elements
  are rewritten independently of one another. Parsing and rendering of HTML and CSS
  are external libraries; xml.go is called by nothing.
- Images, cookies, filters as regular expressions, the histogram, flags, logging, build
  support: sequential code without state shared between steps, or I/O.
  `SensibleDefaults` of config.go is the source of the assumptions on `Concurrency`
  and `Tries`.

## 9. Plan

Done: the throttle, the crawl and the search it implements, the cache, the local copy,
file names and links, the web server; the proofs named in section 5, which state every
safety property of the runs. Next, in this order:

1. *A cache with a failing disk*: what still holds when saving fails.
2. *Crawls over unchanged copies*: `Scraper` with the references of `Links`, so that what
   is reached in a second run can be compared with the first.

## 10. Running

    tlc -config crawl.cfg MCScraper.tla
    tlapm ScraperProofs.tla

Each `.cfg` names in its first line what its instance is; `PROJECT.json` pairs
runs with modules. `localcopy.cfg` is the largest, with about 1.9 million states;
`service.cfg` takes longest, because of its liveness property.
