------------------------------- MODULE WebServer -------------------------------
(***************************************************************************)
(* The program with -serve: the main loop over the start URLs (main.go),   *)
(* and the web server that runs beside the crawls (server/server.go).      *)
(*                                                                         *)
(* A request passes the redirecter, which replays what the metadata cache  *)
(* knows, the file server, and, when there is no file, the on-demand       *)
(* handler, which downloads the URL and asks the file server again.  The   *)
(* crawl downloads too, through the same ProcessURL, at the same time, and *)
(* a redirect of the start page moves the URL of the scraper under the     *)
(* handlers.  Which URLs a crawl follows is the matter of module Scraper:  *)
(* here it takes any of its host.                                          *)
(***************************************************************************)
EXTENDS FileNames

CONSTANTS
    Handlers,   \* goroutines of the web server, one per request in progress
    Crawler,    \* the crawl, as far as it downloads
    Hosts,
    NoHost,     \* the host of a URL that has none
    URLs,       \* the URLs that exist, with their query strings sorted
    Requests,   \* what clients ask for: URLs without host
    Locations,  \* Location headers: URLs, some without host
    NoLocation, \* an empty Location header
    Sites       \* start URLs, and for each URL the answers its origin server chooses from

Actors == Handlers \union {Crawler}
AnyLocation == Locations \union {NoLocation}

\* What the origin answers: 200 with a page or an asset, 404, 403 and the like, 301 and
\* the like, another status, one that is not expected (broken), or no answer at all (error).
Answer == [kind : {"page", "asset", "missing", "gone", "redirect", "refused", "broken",
                   "error"},
           location : AnyLocation]

\* Items of the metadata cache, by their code.
Item == [code : {"none", "ok", "missing", "redirect"}, location : AnyLocation]
Empty == [code |-> "none", location |-> NoLocation]

\* URLs, and references without host.
Reference == [host : Hosts, path : Seq(Segment), query : Seq(Nat)]

ASSUME WebServerAssumption ==
    /\ Crawler \notin Handlers
    /\ NoHost \in Hosts
    /\ URLs \subseteq Reference /\ \A u \in URLs : u.host # NoHost
    /\ Locations \subseteq Reference /\ NoLocation \notin Locations
    /\ Requests \subseteq [path : Seq(Segment), query : Seq(Nat)]
    /\ Sites \subseteq [starts : Seq(URLs), answers : [URLs -> SUBSET Answer]]
    /\ \A s \in Sites : s.starts # <<>>
    /\ \A r \in Requests, host \in Hosts \ {NoHost} :
        [host |-> host, path |-> r.path, query |-> SortedQueryString(r.query)] \in URLs
    /\ \A u \in URLs : SortedQueryString(u.query) = u.query

VARIABLES
    site,     \* what the program is used on, an element of Sites
    main,     \* scrapeURLs: "start", "first" (page), "crawl", "await" or "exited"
    turn,     \* the index of the start URL
    scHost,   \* sc.URL.Host of each scraper
    files,    \* the files, each with the host that names its directory
    records,  \* the metadata cache in memory
    pc,       \* what each actor does next
    call,     \* the URL it works on, its directory, what the origin said, and (history)
              \* whether the file was saved
    last,     \* history: for each URL the last answer in this run that is to be recorded
    contested \* history: URLs downloaded by two actors at a time since then

mainVars == <<site, main, turn, scHost>>
vars == <<site, main, turn, scHost, files, records, pc, call, last, contested>>

StartURLs == site.starts
FirstHost == StartURLs[1].host
Blank == [u \in URLs |-> Empty]
NoAnswer == [kind |-> "none", location |-> NoLocation]
NoCall == [url |-> [host |-> NoHost, path |-> <<>>, query |-> <<>>],
           dir |-> NoHost, conditional |-> FALSE, answer |-> NoAnswer, saved |-> FALSE]

Init ==
    /\ site \in Sites
    /\ main = "start" /\ turn = 1
    /\ scHost = [i \in DOMAIN StartURLs |-> StartURLs[i].host]
    /\ files = {} /\ records = Blank
    /\ pc = [a \in Actors |-> "idle"]
    /\ call = [a \in Actors |-> NoCall]
    /\ last = Blank /\ contested = {}

-------------------------------------------------------------------------------
(* The metadata cache *)

\* The URL as a key, its parameters sorted.
keyOf(u) == [u EXCEPT !.query = SortedQueryString(@)]

Lookup(u) == IF keyOf(u) \in URLs THEN records[keyOf(u)] ELSE Empty

\* What Store leaves under a key.  The mistake: an empty Location changes nothing.
StoredUnlessEmpty(u, item) ==
    IF item.code = "redirect" /\ item.location = NoLocation THEN Lookup(u) ELSE item
Stored(u, item) ==
    IF item.code = "redirect" /\ item.location = NoLocation THEN Empty ELSE item

Store(u, item) == records' = [records EXCEPT ![keyOf(u)] = Stored(u, item)]

\* Store panics for a code that it does not know; its mutex is released on the way out.
\* The mistake: it stores the item.
StoreAnyCode(u, item) == records' = [records EXCEPT ![keyOf(u)] = item]
StorePanics(u, item) == records' = records

-------------------------------------------------------------------------------
(* ProcessURL, by the crawl or by an on-demand handler *)

Goes(a, to) == pc' = [pc EXCEPT ![a] = to]
Continues(a, to) == Goes(a, to) /\ call' = call
Ends(a) == Goes(a, "idle") /\ call' = [call EXCEPT ![a] = NoCall]

\* Whether there is a file under either of the names that the URL may have, for which
\* the request is conditional.
HasFile(dir, url) ==
    \E isAPage \in BOOLEAN : <<dir, GetFilePath(url, isAPage)>> \in files

Prepare(a) ==
    /\ pc[a] = "prepare"
    /\ call' = [call EXCEPT ![a].conditional = HasFile(call[a].dir, call[a].url)]
    /\ Goes(a, "ask")
    /\ UNCHANGED <<mainVars, files, records, last, contested>>

\* Without a host there is nobody to ask.  A conditional request may be answered by 304,
\* or by the 418 made up for a copy that has not expired.
Outcomes(c) ==
    IF c.url.host = NoHost THEN {[NoAnswer EXCEPT !.kind = "error"]}
    ELSE site.answers[keyOf(c.url)] \union
         (IF ~c.conditional THEN {}
          ELSE {[NoAnswer EXCEPT !.kind = "fresh"]} \union
               {[x EXCEPT !.kind = "unchanged"] :
                    x \in {y \in site.answers[keyOf(c.url)] : y.kind \in {"page", "asset"}}})

\* The item under which an answer is to be recorded: a 304 or a 403 leaves what there is.
Recorded(x) == x.kind \in {"page", "asset", "missing", "redirect"}
ItemOf(x) ==
    [code |-> IF x.kind \in {"page", "asset"} THEN "ok" ELSE x.kind, location |-> x.location]

\* Actors that have an answer for a URL and are not yet done with it.
Working(u) == {a \in Actors : pc[a] \in {"answered", "body", "result"} /\ keyOf(call[a].url) = u}

\* The answer arrives.
Ask(a) ==
    LET u == keyOf(call[a].url)
    IN  /\ pc[a] = "ask"
        /\ \E x \in Outcomes(call[a]) :
            /\ call' = [call EXCEPT ![a].answer = x]
            /\ IF ~Recorded(x) THEN UNCHANGED <<last, contested>>
               ELSE /\ last' = [last EXCEPT ![u] =
                            IF x.kind = "redirect" /\ x.location = NoLocation
                            THEN Empty ELSE ItemOf(x)]
                    /\ contested' = IF Working(u) = {} THEN contested \ {u}
                                    ELSE contested \union {u}
        /\ Goes(a, "answered")
        /\ UNCHANGED <<mainVars, files, records>>

\* What is recorded is stored; a file that is gone is removed under the name of a page.
Process(a) ==
    LET c == call[a]
    IN  /\ pc[a] = "answered"
        /\ IF Recorded(c.answer) THEN Store(c.url, ItemOf(c.answer))
           ELSE records' = records
        /\ files' = IF c.answer.kind = "gone"
                    THEN files \ {<<c.dir, GetFilePath(c.url, TRUE)>>} ELSE files
        /\ Goes(a, IF c.answer.kind \in {"page", "asset"} THEN "body" ELSE "result")
        /\ UNCHANGED <<mainVars, call, last, contested>>

\* storeDownload, into the directory of the downloader.  The mistake: into that of the
\* scraper's host at this moment.
DirectoryNow(a) == scHost[1]
Directory(a) == call[a].dir

FileOf(a) == <<Directory(a), GetFilePath(call[a].url, call[a].answer.kind = "page")>>

\* The file is written, or it is that of an asset and there already.
SaveFile(a) ==
    /\ pc[a] = "body"
    /\ files' = files \union {FileOf(a)}
    /\ call' = [call EXCEPT ![a].saved = TRUE]
    /\ Goes(a, "result")
    /\ UNCHANGED <<mainVars, records, last, contested>>

\* A write that fails, and the body of an asset that is cut while it is written, are only
\* logged: the result is a 200 all the same.
SaveFails(a) ==
    /\ pc[a] = "body"
    /\ call[a].answer.kind = "page" \/ FileOf(a) \notin files
    /\ call' = [call EXCEPT ![a].saved = FALSE]
    /\ Goes(a, "result")
    /\ UNCHANGED <<mainVars, files, records, last, contested>>

\* A body that has to be read as a whole and is cut, and one that cannot be unzipped, are
\* an error, although the metadata are stored.
BodyFails(a) ==
    /\ pc[a] = "body"
    /\ call' = [call EXCEPT ![a].answer.kind = "broken"]
    /\ Goes(a, "result")
    /\ UNCHANGED <<mainVars, files, records, last, contested>>

ProcessURL(a) ==
    Prepare(a) \/ Ask(a) \/ Process(a) \/ SaveFile(a) \/ SaveFails(a) \/ BodyFails(a)

-------------------------------------------------------------------------------
(* The web server *)

\* A client sends a request.
Request(h) ==
    /\ main # "exited" /\ pc[h] = "idle"
    /\ \E r \in Requests :
        call' = [call EXCEPT ![h] =
                    [NoCall EXCEPT !.url = [host |-> NoHost, path |-> r.path, query |-> r.query]]]
    /\ Goes(h, "redirecter")
    /\ UNCHANGED <<mainVars, files, records, last, contested>>

\* redirecter.ServeHTTP, which knows the host that the first scraper was made for.
Redirecter(h) ==
    LET metadata == Lookup([call[h].url EXCEPT !.host = FirstHost])
    IN  /\ pc[h] = "redirecter"
        /\ IF metadata.code = "redirect" /\ metadata.location # NoLocation
           THEN Ends(h) ELSE Continues(h, "files")
        /\ UNCHANGED <<mainVars, files, records, last, contested>>

\* The file server looks at the path alone; for a directory it takes the index.
Served(path) ==
    <<FirstHost,
      IF EndsWithSlash(path)
      THEN Append(Front(path), [base |-> "index", qs |-> <<>>, ext |-> "html"]) ELSE path>>

FileServer(h) ==
    /\ pc[h] = "files"
    /\ IF Served(call[h].url.path) \in files THEN Ends(h) ELSE Continues(h, "resolve")
    /\ UNCHANGED <<mainVars, files, records, last, contested>>

\* onDemand.ServeHTTP reads sc.URL to make the URL, and again to make a downloader.
Resolve(h) ==
    /\ pc[h] = "resolve"
    /\ call' = [call EXCEPT ![h].url.host = scHost[1]]
    /\ Goes(h, "downloader")
    /\ UNCHANGED <<mainVars, files, records, last, contested>>

Downloader(h) ==
    /\ pc[h] = "downloader"
    /\ call' = [call EXCEPT ![h].dir = scHost[1]]
    /\ Goes(h, "prepare")
    /\ UNCHANGED <<mainVars, files, records, last, contested>>

\* The URL under which the handler stores a redirect, once more.  The mistake: that of
\* the server itself.
RedirectedHere(h) == [call[h].url EXCEPT !.host = FirstHost]
Redirected(h) == call[h].url

\* What the handler answers to a result of one of the given kinds.
Answers(h, kinds) ==
    /\ pc[h] = "result" /\ call[h].answer.kind \in kinds /\ Ends(h)
    /\ UNCHANGED <<mainVars, files, last, contested>>

BadGateway(h) == Answers(h, {"error", "broken"}) /\ records' = records
NotFound(h) == Answers(h, {"missing"}) /\ records' = records
Redirects(h) == Answers(h, {"redirect"}) /\ Store(Redirected(h), ItemOf(call[h].answer))

\* A 304 counts as a redirect and makes Store panic; the recovery handler answers then.
\* The 418 is an error like any other.
Recovers(h) ==
    Answers(h, {"unchanged"}) /\ StorePanics(call[h].url, ItemOf(call[h].answer))
InternalError(h) == Answers(h, {"fresh", "gone", "refused"}) /\ records' = records

\* After a download, saved or not, the file server again.
PassesOn(h) ==
    /\ pc[h] = "result" /\ call[h].answer.kind \in {"page", "asset"}
    /\ Continues(h, "next")
    /\ UNCHANGED <<mainVars, files, records, last, contested>>

\* It has an answer of its own when there is no file.  The mistake: it asks the handler.
Next404OnDemand(h) ==
    /\ pc[h] = "next"
    /\ IF Served(call[h].url.path) \in files THEN Ends(h) ELSE Continues(h, "resolve")
    /\ UNCHANGED <<mainVars, files, records, last, contested>>
Next404(h) ==
    /\ pc[h] = "next" /\ Ends(h)
    /\ UNCHANGED <<mainVars, files, records, last, contested>>

OnDemandResult(h) ==
    \/ BadGateway(h) \/ NotFound(h) \/ Redirects(h) \/ Recovers(h) \/ InternalError(h)
    \/ PassesOn(h)

ServeHTTP(h) ==
    \/ Redirecter(h) \/ FileServer(h) \/ Resolve(h) \/ Downloader(h)
    \/ ProcessURL(h) \/ OnDemandResult(h) \/ Next404(h)

-------------------------------------------------------------------------------
(* The main program *)

\* The crawl starts to download; its directory is that of its start URL.
Downloads(u) ==
    /\ call' = [call EXCEPT ![Crawler] =
                    [NoCall EXCEPT !.url = u, !.dir = StartURLs[turn].host]]
    /\ Goes(Crawler, "prepare")

Start ==
    /\ main = "start" /\ pc[Crawler] = "idle" /\ main' = "first"
    /\ Downloads(StartURLs[turn])
    /\ UNCHANGED <<site, turn, scHost, files, records, last, contested>>

\* The next start URL, or waiting for the web server.
Advances ==
    /\ IF turn < Len(StartURLs) THEN main' = "start" /\ turn' = turn + 1
       ELSE main' = "await" /\ turn' = turn
    /\ Ends(Crawler)

\* The process ends; what handlers were doing is lost.
Exits ==
    /\ main' = "exited" /\ turn' = turn
    /\ pc' = [a \in Actors |-> "idle"] /\ call' = [a \in Actors |-> NoCall]

\* What Start does with the first page: a redirect moves the URL of the scraper.  When
\* it has failed, only a failure of the connection, which is a url.Error, leaves the server
\* running.
FirstResult ==
    LET x == call[Crawler].answer
    IN  /\ main = "first" /\ pc[Crawler] = "result"
        /\ \/ /\ x.kind \in {"page", "asset", "unchanged", "fresh", "redirect"}
              /\ main' = "crawl" /\ turn' = turn /\ Ends(Crawler)
              /\ scHost' = IF x.kind # "redirect" THEN scHost
                           ELSE [scHost EXCEPT ![turn] =
                                    IF x.location = NoLocation THEN NoHost ELSE x.location.host]
           \/ x.kind = "error" /\ Advances /\ scHost' = scHost
           \/ x.kind \in {"missing", "gone", "refused", "broken"} /\ Exits /\ scHost' = scHost
        /\ UNCHANGED <<site, files, records, last, contested>>

\* The coordinator completes a relative Location, which is the URL of the scraper.
AbsoluteURL ==
    /\ main = "crawl" /\ scHost[turn] = NoHost
    /\ scHost' = [scHost EXCEPT ![turn] = StartURLs[turn].host]
    /\ UNCHANGED <<site, main, turn, files, records, pc, call, last, contested>>

Crawl ==
    /\ main = "crawl" /\ pc[Crawler] = "idle"
    /\ \E u \in URLs : u.host = scHost[turn] /\ Downloads(u)
    /\ UNCHANGED <<mainVars, files, records, last, contested>>

\* A failure ends the crawl, which has one worker here; one that is not of the connection
\* ends the program too.
CrawlResult ==
    LET x == call[Crawler].answer
    IN  /\ main = "crawl" /\ pc[Crawler] = "result"
        /\ \/ x.kind = "error" /\ Advances
           \/ x.kind = "broken" /\ Exits
           \/ x.kind \notin {"error", "broken"} /\ Ends(Crawler) /\ UNCHANGED <<main, turn>>
        /\ UNCHANGED <<site, scHost, files, records, last, contested>>

\* Then the cookies are saved; if that fails, the program ends.
CrawlEnds ==
    /\ main = "crawl" /\ pc[Crawler] = "idle" /\ scHost[turn] # NoHost
    /\ Advances \/ Exits
    /\ UNCHANGED <<site, scHost, files, records, last, contested>>

\* The web server fails, for instance because the port is taken.
AwaitWebserver ==
    /\ main = "await" /\ Exits
    /\ UNCHANGED <<site, scHost, files, records, last, contested>>

\* The program is run again, with the cache it has saved, unless the directory that -dir
\* names does not exist: without -dir, none does.
Restart ==
    /\ main = "exited"
    /\ main' = "start" /\ turn' = 1
    /\ scHost' = [i \in DOMAIN StartURLs |-> StartURLs[i].host]
    /\ (files # {} /\ records' = records) \/ records' = Blank
    /\ last' = records' /\ contested' = {}
    /\ UNCHANGED <<site, files, pc, call>>

Next ==
    \/ \E h \in Handlers : Request(h) \/ ServeHTTP(h)
    \/ ProcessURL(Crawler)
    \/ Start \/ FirstResult \/ AbsoluteURL \/ Crawl \/ CrawlResult \/ CrawlEnds
    \/ AwaitWebserver \/ Restart

Spec == Init /\ [][Next]_vars

\* Every request has a goroutine of its own, and every download ends by its timeout.
FairSpec == Spec /\ \A h \in Handlers : WF_vars(ServeHTTP(h))

-------------------------------------------------------------------------------
(* Properties *)

Heard == [kind : {"none", "page", "asset", "missing", "gone", "redirect", "refused",
                  "broken", "error", "fresh", "unchanged"}, location : AnyLocation]
Call == [url : Reference, dir : Hosts, conditional : BOOLEAN, answer : Heard, saved : BOOLEAN]

\* The type invariant.
TypeOK ==
    /\ site \in Sites
    /\ main \in {"start", "first", "crawl", "await", "exited"}
    /\ turn \in DOMAIN StartURLs /\ scHost \in [DOMAIN StartURLs -> Hosts]
    /\ \A f \in files : f[1] \in Hosts /\ f[2] # <<>>
    /\ records \in [URLs -> Item] /\ last \in [URLs -> Item] /\ contested \subseteq URLs
    /\ pc \in [Actors -> {"idle", "prepare", "ask", "answered", "body", "result", "redirecter",
                          "files", "resolve", "downloader", "next"}]
    /\ call \in [Actors -> Call]

\* Every redirect that is kept for replay is one that the origin server of that very URL
\* gives, whichever host the scraper has moved to, and in whatever order handlers and
\* crawls have stored theirs (download.go:130, server.go:55, 75-89).
Gives(u, location) == [kind |-> "redirect", location |-> location] \in site.answers[u]
RedirectsWereGiven ==
    \A u \in URLs : records[u].code = "redirect" => Gives(u, records[u].location)

\* When nobody works on a URL and no two downloads of it have overlapped, what the cache
\* holds is the last answer that is to be recorded, although a handler stores a redirect
\* twice and a 304, a 403 or a failure stores nothing (download.go:83-130, server.go:42-65).
LastAnswerRecorded ==
    \A u \in URLs \ contested : Working(u) = {} /\ main # "exited" => records[u] = last[u]

\* What was downloaded on demand and could be saved is then found by the file server,
\* whatever the crawl does meanwhile, if the URL has a name that is kept, the handler saw
\* the scraper before it moved, and no page that is stored in that file is ever gone
\* (server.go:42-65, 156-162).  What could not be saved is passed on all the same.
NameIsKept(u) ==
    u.query = <<>> /\ u.path # <<>> /\ (EndsWithSlash(u.path) \/ Last(u.path).ext # "")
TakenBack(name) ==
    \E u \in URLs : /\ GetFilePath(u, TRUE) = name
                   /\ \E x \in site.answers[u] : x.kind = "gone"
DownloadedIsServed ==
    \A h \in Handlers, u \in URLs :
        /\ pc[h] = "next" /\ call[h].saved /\ call[h].url = u /\ NameIsKept(u)
        /\ u.host = FirstHost /\ call[h].dir = FirstHost
        /\ ~TakenBack(Served(u.path)[2])
        => Served(u.path) \in files

\* Every request is answered, or the program ends: no handler waits for the crawl or
\* for another handler, and none sends its request round again when what it has downloaded
\* is not the file that was asked for (server.go:62-63, 156-162).
EveryRequestAnswered ==
    \A h \in Handlers : pc[h] # "idle" ~> pc[h] = "idle"

\* "Built-in webserver provides easy local access to the downloaded files" (README.md:26):
\* a request for a URL whose file is stored is not answered by an error.
StoredIsServed ==
    [][\A h \in Handlers :
        BadGateway(h) \/ NotFound(h) \/ Recovers(h) \/ InternalError(h) =>
            ~HasFile(FirstHost, [call[h].url EXCEPT !.host = FirstHost])]_vars

===============================================================================
