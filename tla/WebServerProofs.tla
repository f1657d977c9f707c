---------------------------- MODULE WebServerProofs ----------------------------
(***************************************************************************)
(* Proofs about the web server, for any number of handlers, any set of     *)
(* sites and any number of restarts: a redirect that is replayed is one    *)
(* that was given for that very URL, the cache holds the last answer, and  *)
(* what was downloaded on demand is found by the file server.              *)
(***************************************************************************)
EXTENDS WebServer, SequenceTheorems, TLAPS

-------------------------------------------------------------------------------
(* Facts about the data *)

\* A file has a name.
LEMMA FileHasName ==
    ASSUME NEW u \in Reference, NEW isAPage \in BOOLEAN
    PROVE  GetFilePath(u, isAPage) # <<>>
<1>1. u.path \in Seq(Segment)
  BY DEF Reference
<1>2. CASE u.path = <<>>
  BY <1>2 DEF GetFilePath, GetPageFilePath, defaultName
<1>3. CASE u.path # <<>>
  <2>1. Front(u.path) \in Seq(Segment)
    BY <1>1, <1>3 DEF Front
  <2>2. \A x : Len(Append(Front(u.path), x)) = Len(Front(u.path)) + 1
    BY <2>1, AppendProperties, SMT
  <2>3. Len(<<>>) = 0 /\ Len(Front(u.path)) \in Nat
    BY <2>1
  <2>4. \A x : Append(Front(u.path), x) # <<>>
    BY <2>2, <2>3
  <2>. QED
    BY <1>3, <2>4 DEF GetFilePath, GetPageFilePath, urlEndsWithSlash, urlEndsWithName
<1>. QED
  BY <1>2, <1>3

\* A URL with its parameters in any order is stored in the same files.
LEMMA SameFile ==
    ASSUME NEW u \in Reference, keyOf(u) \in URLs, NEW isAPage \in BOOLEAN
    PROVE  GetFilePath(keyOf(u), isAPage) = GetFilePath(u, isAPage)
<1>1. /\ keyOf(u).path = u.path /\ keyOf(u).query = SortedQueryString(u.query)
  BY DEF keyOf, Reference
<1>2. SortedQueryString(keyOf(u).query) = SortedQueryString(u.query)
  BY <1>1, WebServerAssumption
<1>. QED
  BY <1>1, <1>2 DEF GetFilePath, GetPageFilePath, defaultName, urlEndsWithSlash,
     urlEndsWithName, WithQuery

MadeUp == {"error", "broken", "fresh", "unchanged"}

\* Whatever is heard is heard from the origin server, or made up.
LEMMA OutcomesHeard ==
    ASSUME site \in Sites, NEW c \in Call, c.url.host # NoHost => keyOf(c.url) \in URLs,
           NEW x \in Outcomes(c)
    PROVE  /\ x \in Heard
           /\ x.kind \in MadeUp \/ (c.url.host # NoHost /\ x \in site.answers[keyOf(c.url)])
<1>1. NoAnswer \in Heard
  BY DEF NoAnswer, Heard, AnyLocation
<1>2. CASE c.url.host = NoHost
  BY <1>1, <1>2 DEF Outcomes, MadeUp, Heard
<1>3. CASE c.url.host # NoHost
  <2>1. site.answers[keyOf(c.url)] \subseteq Answer
    BY <1>3, WebServerAssumption
  <2>2. CASE x \in site.answers[keyOf(c.url)]
    BY <1>3, <2>1, <2>2 DEF Answer, Heard
  <2>3. CASE x = [NoAnswer EXCEPT !.kind = "fresh"]
    BY <1>1, <2>3 DEF MadeUp, Heard
  <2>4. ASSUME NEW y \in site.answers[keyOf(c.url)], x = [y EXCEPT !.kind = "unchanged"]
        PROVE  x \in Heard /\ x.kind = "unchanged"
    BY <2>1, <2>4 DEF Answer, Heard
  <2>. QED
    BY <1>3, <2>2, <2>3, <2>4 DEF Outcomes, MadeUp
<1>. QED
  BY <1>2, <1>3

\* What is stored is an item.
LEMMA StoredType ==
    ASSUME NEW u, NEW x \in Heard, Recorded(x)
    PROVE  /\ ItemOf(x) \in Item /\ Stored(u, ItemOf(x)) \in Item /\ Empty \in Item
           /\ Stored(u, ItemOf(x)) = IF x.kind = "redirect" /\ x.location = NoLocation
                                     THEN Empty ELSE ItemOf(x)
<1>1. ItemOf(x) \in Item /\ Empty \in Item
  BY DEF ItemOf, Item, Heard, Recorded, Empty, AnyLocation
<1>2. ItemOf(x).code = "redirect" <=> x.kind = "redirect"
  BY DEF ItemOf, Recorded
<1>. QED
  BY <1>1, <1>2 DEF Stored, ItemOf

\* The dummies have their types.
LEMMA Dummies == NoCall \in Call /\ Empty \in Item /\ NoHost \in Hosts
<1>1. NoHost \in Hosts
  BY WebServerAssumption
<1>2. NoAnswer \in Heard
  BY DEF NoAnswer, Heard, AnyLocation
<1>. QED
  BY <1>1, <1>2 DEF NoCall, Call, Reference, Empty, Item, AnyLocation

-------------------------------------------------------------------------------
(* The inductive invariant *)

\* A URL with a host exists.
KnownURLs == \A a \in Actors : call[a].url.host # NoHost => keyOf(call[a].url) \in URLs

\* Until a handler has completed its URL, it is the one of the request.
AsRequested ==
    \A h \in Handlers : pc[h] \in {"redirecter", "files", "resolve"} =>
        [path |-> call[h].url.path, query |-> call[h].url.query] \in Requests

\* An answer is made up, or one that the origin server of the URL gives; what is saved and
\* served is a page or an asset.
HeardFrom ==
    \A a \in Actors : pc[a] \in {"answered", "body", "result", "next"} =>
        /\ \/ call[a].answer.kind \in MadeUp
           \/ /\ call[a].url.host # NoHost
              /\ call[a].answer \in site.answers[keyOf(call[a].url)]
        /\ pc[a] \in {"body", "next"} => call[a].answer.kind \in {"page", "asset"}

\* When the program has ended, nobody does anything.
Ended == main = "exited" => \A a \in Actors : pc[a] = "idle"

\* A page or an asset that was saved stays saved.
NameOf(c) == GetFilePath(c.url, c.answer.kind = "page")
Saved ==
    \A a \in Actors :
        pc[a] \in {"result", "next"} /\ call[a].saved /\ call[a].answer.kind \in {"page", "asset"}
            /\ ~TakenBack(NameOf(call[a])) => <<call[a].dir, NameOf(call[a])>> \in files

\* Of those who work on a URL that is not contested one has something to record, which is
\* the last answer, and until it is recorded that one knows it.
Recorders == [u \in URLs |-> {a \in Working(u) : Recorded(call[a].answer)}]
Settled ==
    \A u \in URLs \ contested :
        /\ \A a, b \in Actors : a \in Recorders[u] /\ b \in Recorders[u] => a = b
        /\ \A a \in Actors : a \in Recorders[u] => last[u] = Stored(u, ItemOf(call[a].answer))
        /\ main # "exited" /\ (\A a \in Actors : a \in Recorders[u] => pc[a] # "answered") =>
                records[u] = last[u]

Calls == KnownURLs /\ AsRequested /\ Ended
History == HeardFrom /\ RedirectsWereGiven /\ Saved /\ Settled
IInv == TypeOK /\ Calls /\ History

-------------------------------------------------------------------------------
(* Types, and the calls in progress *)

\* The program starts with no file, an empty cache and no request in progress.
LEMMA InitIInv == Init => IInv
<1>. SUFFICES ASSUME Init PROVE IInv
  OBVIOUS
<1>1. site.starts \in Seq(URLs) /\ site.starts # <<>>
  BY WebServerAssumption DEF Init
<1>2. 1 \in DOMAIN StartURLs /\ \A i \in DOMAIN StartURLs : StartURLs[i].host \in Hosts
  BY <1>1, WebServerAssumption DEF StartURLs, Reference
<1>3. TypeOK
  BY <1>2, Dummies DEF Init, TypeOK, Blank
<1>4. Calls
  BY DEF Init, Calls, KnownURLs, AsRequested, Ended, NoCall, Actors
<1>5. History
  BY DEF Init, History, HeardFrom, RedirectsWereGiven, Saved, Settled, Recorders, Working, Blank,
     Empty
<1>. QED
  BY <1>3, <1>4, <1>5 DEF IInv

\* A step that changes one call, and no more than the directories of the scrapers and the
\* progress of the main program besides, keeps the types.
LEMMA OneCall ==
    ASSUME TypeOK, Calls,
           NEW a \in Actors, NEW c \in Call,
           NEW s \in {"idle", "prepare", "ask", "answered", "body", "result", "redirecter",
                      "files", "resolve", "downloader", "next"},
           pc' = [pc EXCEPT ![a] = s], call' = [call EXCEPT ![a] = c],
           c.url.host # NoHost => keyOf(c.url) \in URLs,
           s \in {"redirecter", "files", "resolve"} =>
               [path |-> c.url.path, query |-> c.url.query] \in Requests,
           main' # "exited"
    PROVE  /\ pc' \in [Actors -> {"idle", "prepare", "ask", "answered", "body", "result",
                      "redirecter", "files", "resolve", "downloader", "next"}]
           /\ call' \in [Actors -> Call]
           /\ Calls'
<1>. USE DEF TypeOK, Calls
<1>1. pc' \in [Actors -> {"idle", "prepare", "ask", "answered", "body", "result",
                      "redirecter", "files", "resolve", "downloader", "next"}]
      /\ call' \in [Actors -> Call]
  OBVIOUS
<1>2. KnownURLs'
  BY DEF KnownURLs
<1>3. AsRequested'
  BY DEF AsRequested, Actors
<1>4. Ended'
  BY DEF Ended
<1>. QED
  BY <1>1, <1>2, <1>3, <1>4

\* Every step of the main program, the crawl and the handlers keeps the types and what
\* the positions of the actors say of the calls in hand.
LEMMA NextType == TypeOK /\ Calls /\ [Next]_vars => TypeOK' /\ Calls'
<1>. SUFFICES ASSUME TypeOK, Calls, [Next]_vars PROVE TypeOK' /\ Calls'
  OBVIOUS
<1>. USE DEF TypeOK
<1>1. ASSUME NEW a \in Actors, ProcessURL(a) PROVE TypeOK' /\ Calls'
  <2>0. main # "exited"
    BY <1>1 DEF ProcessURL, Prepare, Ask, Process, SaveFile, SaveFails, BodyFails, Calls, Ended
  <2>a. call[a] \in Call /\ (call[a].url.host # NoHost => keyOf(call[a].url) \in URLs)
    BY DEF Calls, KnownURLs
  <2>1. CASE Prepare(a)
    <3>1. [call[a] EXCEPT !.conditional = HasFile(call[a].dir, call[a].url)] \in Call
      BY DEF Call, HasFile
    <3>. QED
      <4>1. /\ call' = [call EXCEPT ![a] =
                            [call[a] EXCEPT !.conditional = HasFile(call[a].dir, call[a].url)]]
            /\ pc' = [pc EXCEPT ![a] = "ask"]
            /\ UNCHANGED <<mainVars, files, records, last, contested>>
        BY <2>1 DEF Prepare, Goes
      <4>2. main' # "exited" /\ StartURLs' = StartURLs
        BY <2>0, <4>1 DEF mainVars, StartURLs
      <4>3. [call[a] EXCEPT !.conditional = HasFile(call[a].dir, call[a].url)].url = call[a].url
        BY <2>a DEF Call
      <4>4. Calls' /\ pc' \in [Actors -> {"idle", "prepare", "ask", "answered", "body", "result",
                      "redirecter", "files", "resolve", "downloader", "next"}]
            /\ call' \in [Actors -> Call]
        BY <2>a, <3>1, <4>1, <4>2, <4>3, OneCall
      <4>. QED
        BY <4>1, <4>2, <4>4 DEF mainVars
  <2>2. CASE Ask(a)
    <3>1. PICK x \in Outcomes(call[a]) : call' = [call EXCEPT ![a].answer = x]
            /\ IF ~Recorded(x) THEN UNCHANGED <<last, contested>>
               ELSE /\ last' = [last EXCEPT ![keyOf(call[a].url)] =
                            IF x.kind = "redirect" /\ x.location = NoLocation
                            THEN Empty ELSE ItemOf(x)]
                    /\ contested' = IF Working(keyOf(call[a].url)) = {}
                                    THEN contested \ {keyOf(call[a].url)}
                                    ELSE contested \union {keyOf(call[a].url)}
      BY <2>2 DEF Ask
    <3>2. x \in Heard /\ (x.kind \in MadeUp \/ keyOf(call[a].url) \in URLs)
      BY <2>a, <3>1, OutcomesHeard
    <3>3. last' \in [URLs -> Item] /\ contested' \subseteq URLs
      BY <3>1, <3>2, StoredType DEF MadeUp, Recorded
    <3>4. [call[a] EXCEPT !.answer = x] \in Call
      BY <2>a, <3>2 DEF Call
    <3>. QED
      <4>1. /\ call' = [call EXCEPT ![a] = [call[a] EXCEPT !.answer = x]]
            /\ pc' = [pc EXCEPT ![a] = "answered"] /\ UNCHANGED <<mainVars, files, records>>
        BY <2>2, <3>1 DEF Ask, Goes
      <4>2. main' # "exited" /\ StartURLs' = StartURLs
        BY <2>0, <4>1 DEF mainVars, StartURLs
      <4>3. [call[a] EXCEPT !.answer = x].url = call[a].url
        BY <2>a DEF Call
      <4>4. Calls' /\ pc' \in [Actors -> {"idle", "prepare", "ask", "answered", "body", "result",
                      "redirecter", "files", "resolve", "downloader", "next"}]
            /\ call' \in [Actors -> Call]
        BY <2>a, <3>4, <4>1, <4>2, <4>3, OneCall
      <4>. QED
        BY <3>3, <4>1, <4>2, <4>4 DEF mainVars
  <2>3. CASE Process(a)
    <3>1. records' \in [URLs -> Item]
      BY <2>3, <2>a, StoredType DEF Process, Store, Call
    <3>2. call' = [call EXCEPT ![a] = call[a]]
      BY <2>3 DEF Process
    <3>. QED
      <4>1. \E t \in {"body", "result"} : pc' = [pc EXCEPT ![a] = t]
        BY <2>3 DEF Process, Goes
      <4>2. UNCHANGED <<mainVars, last, contested>> /\ files' \subseteq files
        BY <2>3 DEF Process
      <4>3. main' # "exited" /\ StartURLs' = StartURLs
        BY <2>0, <4>2 DEF mainVars, StartURLs
      <4>4. Calls' /\ pc' \in [Actors -> {"idle", "prepare", "ask", "answered", "body", "result",
                      "redirecter", "files", "resolve", "downloader", "next"}]
            /\ call' \in [Actors -> Call]
        BY <2>a, <3>2, <4>1, <4>3, OneCall
      <4>. QED
        BY <3>1, <4>2, <4>3, <4>4 DEF mainVars
  <2>4. CASE SaveFile(a) \/ SaveFails(a) \/ BodyFails(a)
    <3>1. Directory(a) \in Hosts /\ call[a].url \in Reference
      BY <2>a DEF Directory, Call
    <3>2. FileOf(a)[1] \in Hosts /\ FileOf(a)[2] # <<>>
      BY <3>1, FileHasName DEF FileOf
    <3>3. \A f \in files' : f[1] \in Hosts /\ f[2] # <<>>
      BY <2>4, <3>2 DEF SaveFile, SaveFails, BodyFails
    <3>4. PICK c \in {[call[a] EXCEPT !.saved = TRUE], [call[a] EXCEPT !.saved = FALSE],
                      [call[a] EXCEPT !.answer.kind = "broken"]} : call' = [call EXCEPT ![a] = c]
      BY <2>4 DEF SaveFile, SaveFails, BodyFails
    <3>5. /\ [call[a] EXCEPT !.saved = TRUE] \in Call
          /\ [call[a] EXCEPT !.saved = TRUE].url = call[a].url
          /\ [call[a] EXCEPT !.saved = FALSE] \in Call
          /\ [call[a] EXCEPT !.saved = FALSE].url = call[a].url
      BY <2>a DEF Call
    <3>6. [call[a].answer EXCEPT !.kind = "broken"] \in Heard
      BY <2>a DEF Call, Heard
    <3>7. /\ [call[a] EXCEPT !.answer.kind = "broken"] \in Call
          /\ [call[a] EXCEPT !.answer.kind = "broken"].url = call[a].url
      BY <2>a, <3>6 DEF Call
    <3>8. c \in Call /\ c.url = call[a].url
      BY <3>4, <3>5, <3>7
    <3>. QED
      <4>1. pc' = [pc EXCEPT ![a] = "result"]
            /\ UNCHANGED <<mainVars, records, last, contested>>
        BY <2>4 DEF SaveFile, SaveFails, BodyFails, Goes
      <4>2. main' # "exited" /\ StartURLs' = StartURLs
        BY <2>0, <4>1 DEF mainVars, StartURLs
      <4>3. Calls' /\ pc' \in [Actors -> {"idle", "prepare", "ask", "answered", "body", "result",
                      "redirecter", "files", "resolve", "downloader", "next"}]
            /\ call' \in [Actors -> Call]
        BY <2>a, <3>4, <3>8, <4>1, <4>2, OneCall
      <4>. QED
        BY <3>3, <4>1, <4>2, <4>3 DEF mainVars
  <2>. QED
    BY <1>1, <2>1, <2>2, <2>3, <2>4 DEF ProcessURL
<1>2. ASSUME NEW h \in Handlers, Request(h) PROVE TypeOK' /\ Calls'
  <2>1. PICK r \in Requests : call' = [call EXCEPT ![h] =
            [NoCall EXCEPT !.url = [host |-> NoHost, path |-> r.path, query |-> r.query]]]
    BY <1>2 DEF Request
  <2>2. r \in [path : Seq(Segment), query : Seq(Nat)]
    BY WebServerAssumption
  <2>3. [NoCall EXCEPT !.url = [host |-> NoHost, path |-> r.path, query |-> r.query]] \in Call
    BY <2>2, Dummies DEF Call, Reference
  <2>4. [path |-> r.path, query |-> r.query] \in Requests
    BY <2>2
  <2>. QED
    <3>1. pc' = [pc EXCEPT ![h] = "redirecter"]
          /\ UNCHANGED <<mainVars, files, records, last, contested>>
      BY <1>2 DEF Request, Goes
    <3>2. h \in Actors /\ main' # "exited" /\ StartURLs' = StartURLs
      BY <1>2, <3>1 DEF Request, Actors, mainVars, StartURLs
    <3> DEFINE c == [NoCall EXCEPT !.url = [host |-> NoHost, path |-> r.path, query |-> r.query]]
    <3>3. /\ c \in Call /\ call' = [call EXCEPT ![h] = c]
          /\ c.url.host = NoHost /\ c.url.path = r.path /\ c.url.query = r.query
      BY <2>1, <2>3 DEF NoCall
    <3>. HIDE DEF c
    <3>4. Calls' /\ pc' \in [Actors -> {"idle", "prepare", "ask", "answered", "body", "result",
                      "redirecter", "files", "resolve", "downloader", "next"}]
          /\ call' \in [Actors -> Call]
      BY <2>4, <3>1, <3>2, <3>3, OneCall
    <3>. QED
      BY <3>1, <3>2, <3>4 DEF mainVars
<1>3. ASSUME NEW h \in Handlers, Resolve(h) PROVE TypeOK' /\ Calls'
  <2>1. call[h] \in Call /\ scHost[1] \in Hosts
    BY WebServerAssumption DEF Actors, StartURLs
  <2>2. [call[h] EXCEPT !.url.host = scHost[1]] \in Call
    BY <2>1 DEF Call, Reference
  <2>3. [path |-> call[h].url.path, query |-> call[h].url.query] \in Requests
    BY <1>3 DEF Resolve, Calls, AsRequested
  <2>4. ASSUME scHost[1] # NoHost
        PROVE  keyOf([call[h] EXCEPT !.url.host = scHost[1]].url) \in URLs
    <3>1. [call[h] EXCEPT !.url.host = scHost[1]].url =
            [host |-> scHost[1], path |-> call[h].url.path, query |-> call[h].url.query]
      BY <2>1 DEF Call, Reference
    <3>2. keyOf([host |-> scHost[1], path |-> call[h].url.path, query |-> call[h].url.query]) =
            [host |-> scHost[1], path |-> call[h].url.path,
             query |-> SortedQueryString(call[h].url.query)]
      BY DEF keyOf
    <3>. QED
      BY <2>1, <2>3, <2>4, <3>1, <3>2, WebServerAssumption
  <2>5. main # "exited"
    BY <1>3 DEF Resolve, Calls, Ended, Actors
  <2>. QED
    <3>1. call' = [call EXCEPT ![h] = [call[h] EXCEPT !.url.host = scHost[1]]]
          /\ pc' = [pc EXCEPT ![h] = "downloader"]
          /\ UNCHANGED <<mainVars, files, records, last, contested>>
      BY <1>3 DEF Resolve, Goes
    <3>2. h \in Actors /\ main' # "exited" /\ StartURLs' = StartURLs
      BY <2>5, <3>1 DEF Actors, mainVars, StartURLs
    <3>3. [call[h] EXCEPT !.url.host = scHost[1]].url.host = scHost[1]
      BY <2>1 DEF Call, Reference
    <3>4. Calls' /\ pc' \in [Actors -> {"idle", "prepare", "ask", "answered", "body", "result",
                      "redirecter", "files", "resolve", "downloader", "next"}]
          /\ call' \in [Actors -> Call]
      BY <2>2, <2>4, <3>1, <3>2, <3>3, OneCall
    <3>. QED
      BY <3>1, <3>2, <3>4 DEF mainVars
<1>4. ASSUME NEW h \in Handlers, Downloader(h) PROVE TypeOK' /\ Calls'
  <2>1. call[h] \in Call /\ scHost[1] \in Hosts
    BY WebServerAssumption DEF Actors, StartURLs
  <2>2. [call[h] EXCEPT !.dir = scHost[1]] \in Call
    BY <2>1 DEF Call
  <2>3. call[h].url.host # NoHost => keyOf(call[h].url) \in URLs
    BY DEF Calls, KnownURLs, Actors
  <2>4. main # "exited"
    BY <1>4 DEF Downloader, Calls, Ended, Actors
  <2>. QED
    <3>1. call' = [call EXCEPT ![h] = [call[h] EXCEPT !.dir = scHost[1]]]
          /\ pc' = [pc EXCEPT ![h] = "prepare"]
          /\ UNCHANGED <<mainVars, files, records, last, contested>>
      BY <1>4 DEF Downloader, Goes
    <3>2. h \in Actors /\ main' # "exited" /\ StartURLs' = StartURLs
      BY <2>4, <3>1 DEF Actors, mainVars, StartURLs
    <3>3. [call[h] EXCEPT !.dir = scHost[1]].url = call[h].url
      BY <2>1 DEF Call
    <3>4. Calls' /\ pc' \in [Actors -> {"idle", "prepare", "ask", "answered", "body", "result",
                      "redirecter", "files", "resolve", "downloader", "next"}]
          /\ call' \in [Actors -> Call]
      BY <2>2, <2>3, <3>1, <3>2, <3>3, OneCall
    <3>. QED
      BY <3>1, <3>2, <3>4 DEF mainVars
<1>5. ASSUME NEW h \in Handlers, Redirecter(h) \/ FileServer(h) \/ OnDemandResult(h) \/ Next404(h)
      PROVE  TypeOK' /\ Calls'
  <2>. USE DEF Redirecter, FileServer, OnDemandResult, Next404, BadGateway, NotFound, Redirects,
          Recovers, InternalError, PassesOn, Answers
  <2>1. /\ h \in Actors /\ call[h] \in Call
        /\ call[h].url.host # NoHost => keyOf(call[h].url) \in URLs
        /\ NoCall \in Call /\ NoCall.url.host = NoHost
    BY Dummies DEF Actors, Calls, KnownURLs, NoCall
  <2>2. /\ pc[h] = "redirecter" \/ pc[h] = "files" \/ pc[h] = "result" \/ pc[h] = "next"
        /\ UNCHANGED <<mainVars, files, last, contested>>
    BY <1>5
  <2>3. main' # "exited"
    BY <2>1, <2>2 DEF Calls, Ended, mainVars
  <2>4. records' \in [URLs -> Item]
    BY <1>5, <2>1, StoredType DEF Store, StorePanics, Redirected, Recorded, Call
  <2>5. \/ pc' = [pc EXCEPT ![h] = "idle"] /\ call' = [call EXCEPT ![h] = NoCall]
        \/ pc' = [pc EXCEPT ![h] = "next"] /\ call' = call
        \/ pc' = [pc EXCEPT ![h] = "files"] /\ call' = call /\ pc[h] = "redirecter"
        \/ pc' = [pc EXCEPT ![h] = "resolve"] /\ call' = call /\ pc[h] = "files"
    BY <1>5 DEF Ends, Goes, Continues
  <2>6. call' = call => call' = [call EXCEPT ![h] = call[h]]
    BY <2>1
  <2>7. pc[h] \in {"redirecter", "files"} =>
            [path |-> call[h].url.path, query |-> call[h].url.query] \in Requests
    BY DEF Calls, AsRequested
  <2>8. /\ pc' \in [Actors -> {"idle", "prepare", "ask", "answered", "body", "result",
                      "redirecter", "files", "resolve", "downloader", "next"}]
        /\ call' \in [Actors -> Call]
        /\ Calls'
    <3>1. CASE pc' = [pc EXCEPT ![h] = "idle"] /\ call' = [call EXCEPT ![h] = NoCall]
      BY <2>1, <2>3, <3>1, OneCall
    <3>2. CASE pc' = [pc EXCEPT ![h] = "next"] /\ call' = call
      BY <2>1, <2>3, <2>6, <3>2, OneCall
    <3>3. CASE pc' = [pc EXCEPT ![h] = "files"] /\ call' = call /\ pc[h] = "redirecter"
      BY <2>1, <2>3, <2>6, <2>7, <3>3, OneCall
    <3>4. CASE pc' = [pc EXCEPT ![h] = "resolve"] /\ call' = call /\ pc[h] = "files"
      BY <2>1, <2>3, <2>6, <2>7, <3>4, OneCall
    <3>. QED
      BY <2>5, <3>1, <3>2, <3>3, <3>4
  <2>. QED
    BY <2>2, <2>4, <2>8 DEF mainVars, StartURLs
<1>6. CASE Start \/ Crawl
  <2>1. PICK u \in URLs : Downloads(u)
    <3>1. StartURLs[turn] \in URLs
      BY WebServerAssumption DEF StartURLs
    <3>. QED
      BY <1>6, <3>1 DEF Start, Crawl
  <2>2. StartURLs[turn].host \in Hosts /\ u \in Reference /\ keyOf(u) = u
    BY WebServerAssumption DEF StartURLs, Reference, keyOf
  <2>3. [NoCall EXCEPT !.url = u, !.dir = StartURLs[turn].host] \in Call
    BY <2>2, Dummies DEF Call
  <2>4. main' \in {"first", "crawl"} /\ UNCHANGED <<site, turn, scHost, files, records, last, contested>>
    BY <1>6 DEF Start, Crawl, mainVars
  <2>. QED
    <3>1. /\ call' = [call EXCEPT ![Crawler] =
                        [NoCall EXCEPT !.url = u, !.dir = StartURLs[turn].host]]
          /\ pc' = [pc EXCEPT ![Crawler] = "prepare"]
      BY <2>1 DEF Downloads, Goes
    <3>2. Crawler \in Actors /\ main' # "exited" /\ StartURLs' = StartURLs
      BY <2>4 DEF Actors, StartURLs
    <3>3. [NoCall EXCEPT !.url = u, !.dir = StartURLs[turn].host].url = u
      BY DEF NoCall
    <3>4. Calls' /\ pc' \in [Actors -> {"idle", "prepare", "ask", "answered", "body", "result",
                      "redirecter", "files", "resolve", "downloader", "next"}]
          /\ call' \in [Actors -> Call]
      BY <2>2, <2>3, <3>1, <3>2, <3>3, OneCall
    <3>. QED
      BY <2>4, <3>2, <3>4
<1>7. ASSUME Exits, UNCHANGED <<site, scHost, files, records, last, contested>>
      PROVE  TypeOK' /\ Calls'
  <2>1. TypeOK'
    BY <1>7, Dummies DEF Exits, StartURLs
  <2>2. Calls'
    BY <1>7 DEF Exits, Calls, KnownURLs, AsRequested, Ended, NoCall, Actors
  <2>. QED
    BY <2>1, <2>2
<1>8. ASSUME Ends(Crawler), turn' \in DOMAIN StartURLs, main' \in {"start", "crawl", "await"},
             scHost' \in [DOMAIN StartURLs -> Hosts],
             UNCHANGED <<site, files, records, last, contested>>
      PROVE  TypeOK' /\ Calls'
  BY <1>8, Dummies, OneCall DEF Ends, Goes, NoCall, Actors, StartURLs
<1>9. ASSUME Advances PROVE Ends(Crawler) /\ turn' \in DOMAIN StartURLs /\ main' \in {"start", "await"}
  <2>1. site.starts \in Seq(URLs)
    BY WebServerAssumption
  <2>. QED
    BY <1>9, <2>1 DEF Advances, StartURLs
<1>10. CASE FirstResult
  <2>1. call[Crawler].answer \in Heard
    BY DEF Actors, Call
  <2>2. CASE Ends(Crawler) /\ main' = "crawl" /\ turn' = turn
             /\ scHost' = IF call[Crawler].answer.kind # "redirect" THEN scHost
                          ELSE [scHost EXCEPT ![turn] =
                                 IF call[Crawler].answer.location = NoLocation THEN NoHost
                                 ELSE call[Crawler].answer.location.host]
    <3>1. scHost' \in [DOMAIN StartURLs -> Hosts]
      BY <2>1, <2>2, Dummies, WebServerAssumption DEF Heard, AnyLocation, Reference
    <3>. QED
      BY <1>8, <1>10, <2>2, <3>1 DEF FirstResult
  <2>. QED
    BY <1>7, <1>8, <1>9, <1>10, <2>2 DEF FirstResult
<1>11. CASE AbsoluteURL
  <2>1. StartURLs[turn].host \in Hosts
    BY WebServerAssumption DEF StartURLs, Reference
  <2>2. TypeOK'
    BY <1>11, <2>1 DEF AbsoluteURL, StartURLs
  <2>3. Calls'
    BY <1>11 DEF AbsoluteURL, Calls, KnownURLs, AsRequested, Ended
  <2>. QED
    BY <2>2, <2>3
<1>12. CASE CrawlResult \/ CrawlEnds
  BY <1>7, <1>8, <1>9, <1>12 DEF CrawlResult, CrawlEnds
<1>13. CASE AwaitWebserver
  BY <1>7, <1>13 DEF AwaitWebserver
<1>14. CASE Restart
  <2>1. 1 \in DOMAIN StartURLs /\ \A i \in DOMAIN StartURLs : StartURLs[i].host \in Hosts
    BY WebServerAssumption DEF StartURLs, Reference
  <2>2. Blank \in [URLs -> Item]
    BY Dummies DEF Blank
  <2>3. TypeOK'
    BY <1>14, <2>1, <2>2 DEF Restart, StartURLs
  <2>4. Calls'
    BY <1>14 DEF Restart, Calls, KnownURLs, AsRequested, Ended
  <2>. QED
    BY <2>3, <2>4
<1>15. CASE UNCHANGED vars
  BY <1>15 DEF vars, mainVars, Calls, KnownURLs, AsRequested, Ended, StartURLs
<1>. QED
  BY <1>1, <1>2, <1>3, <1>4, <1>5, <1>6, <1>10, <1>11, <1>12, <1>13, <1>14, <1>15
     DEF Next, ServeHTTP, Actors

-------------------------------------------------------------------------------
(* What was heard, stored and saved *)

\* A step that neither hears, stores nor saves anything, and by which nobody leaves before
\* it has stored what it has heard, unless the program ends.
LEMMA Quiet ==
    ASSUME History,
           UNCHANGED <<site, files, records, last, contested>>,
           main' # "exited" => main # "exited",
           \A a \in Actors :
               \/ pc'[a] = pc[a] /\ call'[a] = call[a]
               \/ /\ pc'[a] \notin {"answered", "body", "result", "next"}
                  /\ pc[a] # "answered" \/ main' = "exited"
               \/ /\ pc'[a] = "next" /\ pc[a] = "result" /\ call'[a] = call[a]
                  /\ call[a].answer.kind \in {"page", "asset"}
    PROVE  History'
<1>. USE DEF History
<1>1. HeardFrom'
  BY DEF HeardFrom
<1>2. RedirectsWereGiven'
  BY DEF RedirectsWereGiven, Gives
<1>3. Saved'
  BY DEF Saved, TakenBack
<1>4. Settled'
  <2>1. \A a \in Actors : \A u \in URLs : a \in Recorders'[u] =>
            a \in Recorders[u] /\ call'[a] = call[a] /\ (pc[a] = "answered" => pc'[a] = "answered")
    BY DEF Recorders, Working
  <2>2. \A a \in Actors : \A u \in URLs : a \in Recorders[u] /\ pc[a] = "answered" /\ main' # "exited" =>
            a \in Recorders'[u] /\ pc'[a] = "answered"
    BY DEF Recorders, Working
  <2>3. \A u, x : Stored(u, x)' = Stored(u, x) /\ (u \in URLs \ contested' => u \in URLs \ contested)
    BY DEF Stored
  <2>. QED
    BY <2>1, <2>2, <2>3 DEF Settled
<1>. QED
  BY <1>1, <1>2, <1>3, <1>4

\* Hearing an answer.
LEMMA AskHistory ==
    ASSUME TypeOK, Calls, History, NEW a \in Actors, Ask(a) PROVE History'
<1>. USE DEF History
<1>1. PICK x \in Outcomes(call[a]) : call' = [call EXCEPT ![a].answer = x]
        /\ IF ~Recorded(x) THEN UNCHANGED <<last, contested>>
           ELSE /\ last' = [last EXCEPT ![keyOf(call[a].url)] =
                        IF x.kind = "redirect" /\ x.location = NoLocation
                        THEN Empty ELSE ItemOf(x)]
                /\ contested' = IF Working(keyOf(call[a].url)) = {}
                                THEN contested \ {keyOf(call[a].url)}
                                ELSE contested \union {keyOf(call[a].url)}
  BY DEF Ask
<1>2. /\ pc[a] = "ask" /\ pc' = [pc EXCEPT ![a] = "answered"]
      /\ UNCHANGED <<site, main, files, records>>
  BY DEF Ask, Goes, mainVars
<1>3. /\ x \in Heard /\ call[a] \in Call
      /\ x.kind \in MadeUp \/ (call[a].url.host # NoHost /\ x \in site.answers[keyOf(call[a].url)])
  <2>1. call[a] \in Call /\ site \in Sites
    BY DEF TypeOK
  <2>2. call[a].url.host # NoHost => keyOf(call[a].url) \in URLs
    BY DEF Calls, KnownURLs
  <2>. QED
    BY <2>1, <2>2, OutcomesHeard
<1>4. /\ call'[a].answer = x /\ call'[a].url = call[a].url
      /\ \A b \in Actors \ {a} : call'[b] = call[b] /\ pc'[b] = pc[b]
      /\ pc'[a] = "answered"
  <2>1. DOMAIN call = Actors /\ DOMAIN pc = Actors
    BY DEF TypeOK
  <2>2. call' = [call EXCEPT ![a] = [call[a] EXCEPT !.answer = x]]
    BY <1>1
  <2>3. [call[a] EXCEPT !.answer = x].answer = x /\ [call[a] EXCEPT !.answer = x].url = call[a].url
    BY <1>3 DEF Call
  <2>. QED
    BY <1>2, <2>1, <2>2, <2>3
<1>5. HeardFrom'
  BY <1>2, <1>3, <1>4 DEF HeardFrom
<1>6. RedirectsWereGiven'
  BY <1>2 DEF RedirectsWereGiven, Gives
<1>7. Saved'
  BY <1>2, <1>4 DEF Saved, TakenBack
<1>8. Settled'
  <2>0. PICK k : k = keyOf(call[a].url)
    OBVIOUS
  <2>1. \A u \in URLs : /\ a \notin Recorders[u]
                        /\ a \in Recorders'[u] <=> (u = k /\ Recorded(x))
                        /\ \A b \in Actors \ {a} : b \in Recorders'[u] <=> b \in Recorders[u]
    BY <1>2, <1>4, <2>0 DEF Recorders, Working
  <2>2. \A u, y : Stored(u, y)' = Stored(u, y)
    BY DEF Stored
  <2>3. ASSUME NEW u \in URLs, u \notin contested', u # k \/ ~Recorded(x)
        PROVE  /\ u \notin contested /\ last'[u] = last[u]
               /\ \A b \in Actors : b \in Recorders'[u] => b # a
    BY <1>1, <2>0, <2>1, <2>3 DEF TypeOK
  <2>4. ASSUME k \in URLs, k \notin contested', Recorded(x)
        PROVE  /\ \A b \in Actors : b \in Recorders'[k] => b = a
               /\ last'[k] = Stored(k, ItemOf(x))
    <3>1. Working(k) = {}
      BY <1>1, <2>0, <2>4
    <3>2. last'[k] = IF x.kind = "redirect" /\ x.location = NoLocation THEN Empty ELSE ItemOf(x)
      BY <1>1, <2>0, <2>4 DEF TypeOK
    <3>3. Stored(k, ItemOf(x)) = IF x.kind = "redirect" /\ x.location = NoLocation
                                 THEN Empty ELSE ItemOf(x)
      BY <1>3, <2>4, StoredType
    <3>4. Recorders[k] = {}
      BY <2>4, <3>1 DEF Recorders
    <3>. QED
      BY <2>1, <2>4, <3>2, <3>3, <3>4
  <2>5. ASSUME NEW u \in URLs, u \notin contested'
        PROVE  /\ \A b, c \in Actors : b \in Recorders'[u] /\ c \in Recorders'[u] => b = c
               /\ \A b \in Actors : b \in Recorders'[u] => last'[u] = Stored(u, ItemOf(call'[b].answer))
               /\ main' # "exited" /\ (\A b \in Actors : b \in Recorders'[u] => pc'[b] # "answered") =>
                       records'[u] = last'[u]
    <3>1. CASE u # k \/ ~Recorded(x)
      <4>1. u \notin contested /\ last'[u] = last[u] /\ a \notin Recorders'[u]
        BY <2>3, <2>5, <3>1
      <4>2. \A b \in Actors : b \in Recorders'[u] <=> b \in Recorders[u]
        BY <2>1, <2>5, <4>1
      <4>3. \A b \in Actors : b \in Recorders[u] => call'[b] = call[b] /\ pc'[b] = pc[b]
        BY <1>4, <2>1, <2>5
      <4>. QED
        BY <1>2, <4>1, <4>2, <4>3 DEF Settled
    <3>2. CASE u = k /\ Recorded(x)
      <4>1. a \in Recorders'[u] /\ (\A b \in Actors : b \in Recorders'[u] => b = a)
        BY <2>1, <2>4, <2>5, <3>2
      <4>2. last'[u] = Stored(u, ItemOf(call'[a].answer))
        BY <1>4, <2>4, <2>5, <3>2
      <4>. QED
        BY <1>4, <4>1, <4>2
    <3>. QED
      BY <3>1, <3>2
  <2>. QED
    BY <2>2, <2>5 DEF Settled
<1>. QED
  BY <1>5, <1>6, <1>7, <1>8

\* Storing what was heard from the origin server keeps only redirects that it gives.
LEMMA StoreGiven ==
    ASSUME TypeOK, RedirectsWereGiven, NEW c \in Call, Recorded(c.answer),
           c.url.host # NoHost /\ c.answer \in site.answers[keyOf(c.url)],
           keyOf(c.url) \in URLs, site' = site, Store(c.url, ItemOf(c.answer))
    PROVE  RedirectsWereGiven'
<1>. DEFINE k == keyOf(c.url)
<1>1. records' = [records EXCEPT ![k] = Stored(c.url, ItemOf(c.answer))]
  BY DEF Store
<1>2. c.answer \in Answer
  BY WebServerAssumption DEF TypeOK
<1>3. ASSUME Stored(c.url, ItemOf(c.answer)).code = "redirect"
      PROVE  c.answer = [kind |-> "redirect", location |-> Stored(c.url, ItemOf(c.answer)).location]
  BY <1>2, <1>3 DEF Stored, ItemOf, Empty, Answer, Recorded
<1>4. ASSUME NEW u \in URLs, records'[u].code = "redirect"
      PROVE  [kind |-> "redirect", location |-> records'[u].location] \in site.answers[u]
  <2>1. CASE u = k
    BY <1>1, <1>3, <1>4, <2>1 DEF TypeOK
  <2>2. CASE u # k
    BY <1>1, <1>4, <2>2 DEF TypeOK, RedirectsWereGiven, Gives
  <2>. QED
    BY <2>1, <2>2
<1>. QED
  BY <1>4 DEF RedirectsWereGiven, Gives

\* Storing what was heard.
LEMMA ProcessHistory ==
    ASSUME TypeOK, Calls, History, NEW a \in Actors, Process(a) PROVE History'
<1>. USE DEF History
<1>1. /\ pc[a] = "answered" /\ UNCHANGED <<site, main, call, last, contested>>
      /\ pc' = [pc EXCEPT ![a] = IF call[a].answer.kind \in {"page", "asset"}
                                 THEN "body" ELSE "result"]
      /\ IF Recorded(call[a].answer) THEN Store(call[a].url, ItemOf(call[a].answer))
         ELSE records' = records
      /\ files' = IF call[a].answer.kind = "gone"
                  THEN files \ {<<call[a].dir, GetFilePath(call[a].url, TRUE)>>} ELSE files
  BY DEF Process, Goes, mainVars
<1>2. /\ DOMAIN pc = Actors /\ call[a] \in Call /\ call[a].url \in Reference
      /\ call[a].url.host # NoHost => keyOf(call[a].url) \in URLs
  BY DEF TypeOK, Calls, KnownURLs, Call
<1>3. \/ call[a].answer.kind \in MadeUp
      \/ /\ call[a].url.host # NoHost
         /\ call[a].answer \in site.answers[keyOf(call[a].url)]
  BY <1>1 DEF HeardFrom
<1>4. /\ pc'[a] \in {"body", "result"}
      /\ pc'[a] = "body" <=> call[a].answer.kind \in {"page", "asset"}
      /\ \A b \in Actors \ {a} : pc'[b] = pc[b]
  BY <1>1, <1>2
<1>5. HeardFrom'
  BY <1>1, <1>3, <1>4 DEF HeardFrom
<1>6. RedirectsWereGiven'
  <2>1. CASE Recorded(call[a].answer)
    BY <1>1, <1>2, <1>3, <2>1, StoreGiven DEF MadeUp, Recorded
  <2>2. CASE ~Recorded(call[a].answer)
    BY <1>1, <2>2 DEF RedirectsWereGiven, Gives
  <2>. QED
    BY <2>1, <2>2
<1>7. Saved'
  <2>1. ASSUME NEW b \in Actors, pc'[b] \in {"result", "next"},
               call[b].saved, call[b].answer.kind \in {"page", "asset"},
               ~TakenBack(NameOf(call[b]))
        PROVE  <<call[b].dir, NameOf(call[b])>> \in files'
    <3>1. <<call[b].dir, NameOf(call[b])>> \in files
      BY <1>4, <2>1 DEF Saved
    <3>2. ASSUME call[a].answer.kind = "gone" PROVE TakenBack(GetFilePath(call[a].url, TRUE))
      <4>1. /\ keyOf(call[a].url) \in URLs
            /\ call[a].answer \in site.answers[keyOf(call[a].url)]
        BY <1>2, <1>3, <3>2 DEF MadeUp
      <4>2. GetFilePath(keyOf(call[a].url), TRUE) = GetFilePath(call[a].url, TRUE)
        BY <1>2, <4>1, SameFile
      <4>. QED
        BY <3>2, <4>1, <4>2 DEF TakenBack
    <3>. QED
      BY <1>1, <2>1, <3>1, <3>2
  <2>2. \A n : TakenBack(n)' = TakenBack(n)
    BY <1>1 DEF TakenBack
  <2>3. \A b \in Actors : call'[b] = call[b]
    BY <1>1
  <2>. QED
    BY <2>1, <2>2, <2>3 DEF Saved, NameOf
<1>8. Settled'
  <2>0. PICK k : k = keyOf(call[a].url)
    OBVIOUS
  <2>1. Recorders' = Recorders
    BY <1>1, <1>4 DEF Recorders, Working
  <2>2. \A u \in URLs : a \in Recorders[u] <=> (u = k /\ Recorded(call[a].answer))
    BY <1>1, <2>0 DEF Recorders, Working
  <2>3. \A u, y : Stored(u, y)' = Stored(u, y)
    BY DEF Stored
  <2>4. ASSUME NEW u \in URLs, u \notin contested, main # "exited",
               \A b \in Actors : b \in Recorders[u] => pc'[b] # "answered"
        PROVE  records'[u] = last[u]
    <3>1. CASE u = k /\ Recorded(call[a].answer)
      <4>1. records'[u] = Stored(u, ItemOf(call[a].answer))
        BY <1>1, <2>0, <2>4, <3>1 DEF TypeOK, Store, Stored
      <4>2. last[u] = Stored(u, ItemOf(call[a].answer))
        BY <2>2, <2>4, <3>1 DEF Settled
      <4>. QED
        BY <4>1, <4>2
    <3>2. CASE ~(u = k /\ Recorded(call[a].answer))
      <4>1. records'[u] = records[u]
        BY <1>1, <2>0, <2>4, <3>2 DEF TypeOK, Store
      <4>2. \A b \in Actors : b \in Recorders[u] => pc[b] # "answered"
        BY <1>4, <2>2, <2>4, <3>2
      <4>. QED
        BY <2>4, <4>1, <4>2 DEF Settled
    <3>. QED
      BY <3>1, <3>2
  <2>5. ASSUME NEW u \in URLs, u \notin contested
        PROVE  /\ \A b, c \in Actors : b \in Recorders[u] /\ c \in Recorders[u] => b = c
               /\ \A b \in Actors : b \in Recorders[u] => last[u] = Stored(u, ItemOf(call[b].answer))
    BY <2>5 DEF Settled
  <2>. QED
    BY <1>1, <2>1, <2>3, <2>4, <2>5 DEF Settled
<1>. QED
  BY <1>5, <1>6, <1>7, <1>8

\* Saving a file, or failing to, or failing to read the body, of which nothing is to be
\* recorded any more.
LEMMA SaveFileHistory ==
    ASSUME TypeOK, History, NEW a \in Actors, SaveFile(a) \/ SaveFails(a) \/ BodyFails(a)
    PROVE  History'
<1>. USE DEF History
<1>1. /\ pc[a] = "body" /\ pc' = [pc EXCEPT ![a] = "result"] /\ files \subseteq files'
      /\ UNCHANGED <<site, main, records, last, contested>>
  BY DEF SaveFile, SaveFails, BodyFails, Goes, mainVars
<1>2. pc'[a] = "result" /\ \A b \in Actors \ {a} : pc'[b] = pc[b] /\ call'[b] = call[b]
  BY <1>1 DEF TypeOK, SaveFile, SaveFails, BodyFails
<1>3. \/ /\ call' = [call EXCEPT ![a] = [call[a] EXCEPT !.saved = TRUE]]
         /\ files' = files \union {<<call[a].dir, NameOf(call[a])>>}
      \/ call' = [call EXCEPT ![a] = [call[a] EXCEPT !.saved = FALSE]]
      \/ call' = [call EXCEPT ![a] = [call[a] EXCEPT !.answer.kind = "broken"]]
  BY DEF SaveFile, SaveFails, BodyFails, Directory, NameOf, FileOf
<1>4. /\ call'[a].url = call[a].url /\ call'[a].dir = call[a].dir
      /\ call'[a].answer = call[a].answer \/ call'[a].answer.kind = "broken"
  BY <1>3 DEF TypeOK, Call, Heard
<1>5. HeardFrom'
  BY <1>1, <1>2, <1>4 DEF HeardFrom, MadeUp
<1>6. RedirectsWereGiven'
  BY <1>1 DEF RedirectsWereGiven, Gives
<1>7. Saved'
  <2>1. \A n : TakenBack(n)' = TakenBack(n)
    BY <1>1 DEF TakenBack
  <2>2. ASSUME NEW b \in Actors, pc'[b] \in {"result", "next"}, call'[b].saved,
               call'[b].answer.kind \in {"page", "asset"}, ~TakenBack(NameOf(call'[b]))
        PROVE  <<call'[b].dir, NameOf(call'[b])>> \in files'
    <3>1. CASE b # a
      BY <1>1, <1>2, <2>2, <3>1 DEF Saved
    <3>2. CASE b = a
      <4>1. call'[a].answer = call[a].answer /\ NameOf(call'[a]) = NameOf(call[a])
        BY <1>4, <2>2, <3>2 DEF NameOf
      <4>2. CASE files' = files \union {<<call[a].dir, NameOf(call[a])>>}
        BY <1>4, <3>2, <4>1, <4>2
      <4>3. CASE call' = [call EXCEPT ![a] = [call[a] EXCEPT !.saved = FALSE]]
        BY <2>2, <3>2, <4>3 DEF TypeOK, Call
      <4>4. CASE call' = [call EXCEPT ![a] = [call[a] EXCEPT !.answer.kind = "broken"]]
        BY <2>2, <3>2, <4>4 DEF TypeOK, Call, Heard
      <4>. QED
        BY <1>3, <4>2, <4>3, <4>4
    <3>. QED
      BY <3>1, <3>2
  <2>. QED
    BY <2>1, <2>2 DEF Saved, NameOf
<1>8. Settled'
  <2>1. \A u \in URLs : \A b \in Actors : b \in Recorders'[u] =>
            b \in Recorders[u] /\ call'[b].answer = call[b].answer
    BY <1>1, <1>2, <1>4 DEF Recorders, Working, Recorded
  <2>2. \A u \in URLs : \A b \in Actors : b \in Recorders[u] /\ pc[b] = "answered" =>
            b \in Recorders'[u] /\ pc'[b] = "answered"
    BY <1>1, <1>2 DEF Recorders, Working
  <2>3. \A u, y : Stored(u, y)' = Stored(u, y)
    BY DEF Stored
  <2>. QED
    BY <1>1, <2>1, <2>2, <2>3 DEF Settled
<1>. QED
  BY <1>5, <1>6, <1>7, <1>8

\* Storing a redirect once more.
LEMMA RedirectsHistory ==
    ASSUME TypeOK, Calls, History, NEW h \in Handlers, Redirects(h) PROVE History'
<1>. USE DEF History
<1>1. /\ pc[h] = "result" /\ call[h].answer.kind = "redirect"
      /\ pc' = [pc EXCEPT ![h] = "idle"] /\ call' = [call EXCEPT ![h] = NoCall]
      /\ Store(call[h].url, ItemOf(call[h].answer))
      /\ UNCHANGED <<site, main, files, last, contested>>
  BY DEF Redirects, Answers, Ends, Goes, mainVars, Redirected
<1>2. /\ h \in Actors /\ call[h] \in Call /\ Recorded(call[h].answer)
      /\ call[h].url.host # NoHost => keyOf(call[h].url) \in URLs
  BY <1>1 DEF TypeOK, Calls, KnownURLs, Actors, Recorded
<1>3. /\ call[h].url.host # NoHost
      /\ call[h].answer \in site.answers[keyOf(call[h].url)]
  BY <1>1, <1>2 DEF HeardFrom, MadeUp
<1>4. pc'[h] = "idle" /\ \A b \in Actors \ {h} : pc'[b] = pc[b] /\ call'[b] = call[b]
  BY <1>1, <1>2 DEF TypeOK
<1>5. HeardFrom'
  BY <1>1, <1>4 DEF HeardFrom
<1>6. RedirectsWereGiven'
  BY <1>1, <1>2, <1>3, StoreGiven
<1>7. Saved'
  <2>1. \A n : TakenBack(n)' = TakenBack(n)
    BY <1>1 DEF TakenBack
  <2>2. \A b \in Actors : pc'[b] \in {"result", "next"} => b # h /\ pc'[b] = pc[b] /\ call'[b] = call[b]
    BY <1>4
  <2>. QED
    BY <1>1, <2>1, <2>2 DEF Saved, NameOf
<1>8. Settled'
  <2>0. PICK k : k = keyOf(call[h].url)
    OBVIOUS
  <2>1. \A u \in URLs : \A b \in Actors :
            b \in Recorders'[u] <=> (b \in Recorders[u] /\ b # h)
    BY <1>1, <1>4 DEF Recorders, Working
  <2>2. \A u \in URLs : h \in Recorders[u] <=> u = k
    BY <1>1, <1>2, <2>0 DEF Recorders, Working
  <2>3. \A u, y : Stored(u, y)' = Stored(u, y)
    BY DEF Stored
  <2>4. ASSUME NEW u \in URLs, u \notin contested, main # "exited",
               \A b \in Actors : b \in Recorders'[u] => pc'[b] # "answered"
        PROVE  records'[u] = last[u]
    <3>1. CASE u = k
      <4>1. records'[u] = Stored(u, ItemOf(call[h].answer))
        BY <1>1, <2>0, <2>4, <3>1 DEF TypeOK, Store, Stored
      <4>2. last[u] = Stored(u, ItemOf(call[h].answer))
        BY <1>2, <2>2, <2>4, <3>1 DEF Settled
      <4>. QED
        BY <4>1, <4>2
    <3>2. CASE u # k
      <4>1. records'[u] = records[u]
        BY <1>1, <2>0, <2>4, <3>2 DEF TypeOK, Store
      <4>2. \A b \in Actors : b \in Recorders[u] => pc[b] # "answered"
        BY <1>4, <2>1, <2>2, <2>4, <3>2
      <4>. QED
        BY <2>4, <4>1, <4>2 DEF Settled
    <3>. QED
      BY <3>1, <3>2
  <2>5. ASSUME NEW u \in URLs, u \notin contested
        PROVE  /\ \A b, c \in Actors : b \in Recorders'[u] /\ c \in Recorders'[u] => b = c
               /\ \A b \in Actors : b \in Recorders'[u] =>
                       last[u] = Stored(u, ItemOf(call'[b].answer))
    BY <1>4, <2>1, <2>5 DEF Settled
  <2>. QED
    BY <1>1, <2>3, <2>4, <2>5 DEF Settled
<1>. QED
  BY <1>5, <1>6, <1>7, <1>8

\* Running the program again.
LEMMA RestartHistory ==
    ASSUME TypeOK, Calls, History, Restart PROVE History'
<1>. USE DEF History
<1>1. /\ \A a \in Actors : pc'[a] = "idle"
      /\ records' \in {records, Blank} /\ last' = records' /\ UNCHANGED <<site, pc, call>>
  BY DEF Restart, Calls, Ended
<1>2. HeardFrom'
  BY <1>1 DEF HeardFrom
<1>3. RedirectsWereGiven'
  BY <1>1 DEF RedirectsWereGiven, Gives, Blank, Empty
<1>4. Saved'
  BY <1>1 DEF Saved
<1>5. Settled'
  BY <1>1 DEF Settled, Recorders, Working
<1>. QED
  BY <1>2, <1>3, <1>4, <1>5

\* Every step keeps what ties the cache and the files to the answers of the origin servers:
\* what is heard was given, what is recorded was heard, and what was saved is found.
LEMMA NextHistory == IInv /\ [Next]_vars => History'
<1>. SUFFICES ASSUME TypeOK, Calls, History, [Next]_vars PROVE History'
  BY DEF IInv
<1>0. DOMAIN pc = Actors /\ DOMAIN call = Actors
  BY DEF TypeOK
<1>1. ASSUME NEW a \in Actors, ProcessURL(a) PROVE History'
  <2>1. CASE Prepare(a)
    BY <1>0, <2>1, Quiet DEF Prepare, Goes, mainVars
  <2>. QED
    BY <1>1, <2>1, AskHistory, ProcessHistory, SaveFileHistory DEF ProcessURL
<1>2. ASSUME NEW h \in Handlers, Request(h) \/ Redirecter(h) \/ FileServer(h) \/ Resolve(h)
                                  \/ Downloader(h)
      PROVE  History'
  <2>1. h \in Actors /\ pc[h] # "answered" /\ pc'[h] \in {"idle", "redirecter", "files", "resolve",
                                                      "downloader", "prepare"}
        /\ UNCHANGED <<site, main, files, records, last, contested>>
    BY <1>0, <1>2 DEF Request, Redirecter, FileServer, Resolve, Downloader, Goes, Ends, Continues,
       mainVars, Actors
  <2>2. \A a \in Actors \ {h} : pc'[a] = pc[a] /\ call'[a] = call[a]
    BY <1>0, <1>2 DEF Request, Redirecter, FileServer, Resolve, Downloader, Goes, Ends, Continues,
       Actors
  <2>. QED
    BY <2>1, <2>2, Quiet
<1>3. ASSUME NEW h \in Handlers, OnDemandResult(h) \/ Next404(h) PROVE History'
  <2>1. CASE Redirects(h)
    BY <2>1, RedirectsHistory
  <2>2. CASE PassesOn(h)
    BY <1>0, <2>2, Quiet DEF PassesOn, Continues, Goes, mainVars, Actors
  <2>3. CASE BadGateway(h) \/ NotFound(h) \/ Recovers(h) \/ InternalError(h) \/ Next404(h)
    <3>1. h \in Actors /\ pc[h] # "answered" /\ pc'[h] = "idle"
          /\ UNCHANGED <<site, main, files, records, last, contested>>
      BY <1>0, <2>3 DEF BadGateway, NotFound, Recovers, InternalError, Next404, Answers,
         StorePanics, Ends, Goes, mainVars, Actors
    <3>2. \A a \in Actors \ {h} : pc'[a] = pc[a] /\ call'[a] = call[a]
      BY <1>0, <2>3 DEF BadGateway, NotFound, Recovers, InternalError, Next404, Answers, Ends,
         Goes, Actors
    <3>. QED
      BY <3>1, <3>2, Quiet
  <2>. QED
    BY <1>3, <2>1, <2>2, <2>3 DEF OnDemandResult
<1>4. CASE Start \/ Crawl
  <2>1. /\ pc[Crawler] # "answered" /\ pc' = [pc EXCEPT ![Crawler] = "prepare"]
        /\ UNCHANGED <<site, files, records, last, contested>> /\ main # "exited"
        /\ \E c : call' = [call EXCEPT ![Crawler] = c]
    BY <1>4 DEF Start, Crawl, Downloads, Goes, mainVars
  <2>2. \A a \in Actors \ {Crawler} : pc'[a] = pc[a] /\ call'[a] = call[a]
    BY <1>0, <2>1
  <2>3. pc'[Crawler] = "prepare"
    BY <1>0, <2>1 DEF Actors
  <2>. QED
    BY <2>1, <2>2, <2>3, Quiet
<1>5. ASSUME Exits, UNCHANGED <<site, files, records, last, contested>>, main # "exited"
      PROVE  History'
  BY <1>5, Quiet DEF Exits
<1>6. ASSUME Ends(Crawler), pc[Crawler] # "answered", main # "exited",
             UNCHANGED <<site, files, records, last, contested>>
      PROVE  History'
  <2>1. pc'[Crawler] = "idle" /\ \A a \in Actors \ {Crawler} : pc'[a] = pc[a] /\ call'[a] = call[a]
    BY <1>0, <1>6 DEF Ends, Goes, Actors
  <2>. QED
    BY <1>6, <2>1, Quiet
<1>7. CASE FirstResult
  BY <1>5, <1>6, <1>7 DEF FirstResult, Advances
<1>8. CASE AbsoluteURL
  BY <1>8, Quiet DEF AbsoluteURL
<1>9. CASE CrawlResult \/ CrawlEnds
  BY <1>5, <1>6, <1>9 DEF CrawlResult, CrawlEnds, Advances
<1>10. CASE AwaitWebserver
  BY <1>5, <1>10 DEF AwaitWebserver
<1>11. CASE Restart
  BY <1>11, RestartHistory
<1>12. CASE UNCHANGED vars
  BY <1>12, Quiet DEF vars, mainVars
<1>. QED
  BY <1>1, <1>2, <1>3, <1>4, <1>7, <1>8, <1>9, <1>10, <1>11, <1>12 DEF Next, ServeHTTP, Actors

-------------------------------------------------------------------------------
(* Theorems *)

\* Type correctness, with the strengthening.
THEOREM Invariant == Spec => []IInv
<1>1. IInv /\ [Next]_vars => IInv'
  BY NextType, NextHistory DEF IInv
<1>. QED
  BY <1>1, InitIInv, PTL DEF Spec

\* Every variable keeps its type, in particular the cache, into which no answer is stored
\* that Store does not know (db.go:164-189).
THEOREM TypeCorrect == Spec => []TypeOK
  BY Invariant, PTL DEF IInv

\* A redirect is replayed only for the URL whose origin server gives it (server.go:55, 75-89).
THEOREM RedirectsAreGiven == Spec => []RedirectsWereGiven
  BY Invariant, PTL DEF IInv, History

\* Unless two downloads of a URL overlap, the cache holds the last answer for it.
THEOREM LastAnswerIsRecorded == Spec => []LastAnswerRecorded
<1>1. IInv => LastAnswerRecorded
  <2>. SUFFICES ASSUME Settled, NEW u \in URLs \ contested, Working(u) = {}, main # "exited"
                PROVE  records[u] = last[u]
    BY DEF IInv, History, LastAnswerRecorded
  <2>1. Recorders[u] = {}
    BY DEF Recorders
  <2>. QED
    BY <2>1 DEF Settled
<1>. QED
  BY <1>1, Invariant, PTL

\* The file server looks for a page or an asset whose name is kept where it is stored.
LEMMA ServedName ==
    ASSUME NEW u \in URLs, NameIsKept(u), u.host = FirstHost, NEW isAPage \in BOOLEAN
    PROVE  Served(u.path) = <<u.host, GetFilePath(u, isAPage)>>
<1>1. /\ u \in Reference /\ u.path \in Seq(Segment) /\ u.path # <<>>
      /\ SortedQueryString(u.query) = <<>>
  BY WebServerAssumption DEF NameIsKept, Reference
<1>2. CASE EndsWithSlash(u.path)
  BY <1>1, <1>2 DEF Served, GetFilePath, GetPageFilePath, urlEndsWithSlash
<1>3. CASE ~EndsWithSlash(u.path)
  <2>1. Last(u.path) \in Segment
    BY <1>1 DEF Last
  <2>2. Last(u.path).qs \in Seq(Nat) /\ Last(u.path).qs \o <<>> = Last(u.path).qs
    BY <2>1, ConcatProperties DEF Segment
  <2>3. WithQuery(u) = Last(u.path)
    BY <1>1, <2>1, <2>2 DEF WithQuery, Segment
  <2>4. Last(u.path).ext # ""
    BY <1>3 DEF NameIsKept
  <2>5. [WithQuery(u) EXCEPT !.ext = IF @ = "" THEN "html" ELSE @] = Last(u.path)
    BY <2>1, <2>3, <2>4 DEF Segment
  <2>6. Append(Front(u.path), Last(u.path)) = u.path
    BY <1>1 DEF Front, Last
  <2>. QED
    BY <1>1, <1>3, <2>3, <2>5, <2>6 DEF Served, GetFilePath, GetPageFilePath, urlEndsWithName
<1>. QED
  BY <1>2, <1>3

\* What was downloaded on demand and saved is served by the file server (server.go:62-63,
\* 156-162).
THEOREM DownloadsAreServed == Spec => []DownloadedIsServed
<1>1. IInv => DownloadedIsServed
  <2>. SUFFICES ASSUME IInv, NEW h \in Handlers, NEW u \in URLs, pc[h] = "next", call[h].saved,
                       call[h].url = u, NameIsKept(u), u.host = FirstHost, call[h].dir = FirstHost,
                       ~TakenBack(Served(u.path)[2])
                PROVE  Served(u.path) \in files
    BY DEF DownloadedIsServed
  <2>1. h \in Actors /\ call[h].answer.kind \in {"page", "asset"}
    BY DEF IInv, History, HeardFrom, Actors
  <2>2. Served(u.path) = <<u.host, NameOf(call[h])>>
    BY <2>1, ServedName DEF NameOf
  <2>. QED
    BY <2>1, <2>2 DEF IInv, History, Saved
<1>. QED
  BY <1>1, Invariant, PTL
===============================================================================
