------------------------------ MODULE MCWebServer ------------------------------
(***************************************************************************)
(* A web server for two start URLs, whose pages change, move and vanish.   *)
(* There is a home page, and a page whose name has no extension.           *)
(***************************************************************************)
EXTENDS WebServer

home == <<Slash>>
bare == <<[base |-> "b", qs |-> <<>>, ext |-> ""]>>

Ref(host, path) == [host |-> host, path |-> path, query |-> <<>>]

MCQuery == {<<>>}
MCHosts == {"start", "moved", "none"}
MCURLs == {Ref(host, path) : host \in {"start", "moved"}, path \in {home, bare}}
MCRequests == {[path |-> path, query |-> <<>>] : path \in {home, bare}}
MCLocations == {Ref("moved", home), Ref("none", bare)}

Simply(kind) == [kind |-> kind, location |-> NoLocation]
To(location) == [kind |-> "redirect", location |-> location]

\* A site from the URLs it overrides; the rest are pages.
SiteOf(kinds) == [u \in MCURLs |-> IF u \in DOMAIN kinds THEN kinds[u] ELSE {Simply("page")}]

\* A page that moves, goes and comes back, as an asset too.
Changing == SiteOf(Ref("start", bare) :>
    {Simply("page"), Simply("asset"), To(NoLocation), Simply("gone")})

\* The start page moves to the other host.
Moving == SiteOf(
    Ref("start", home) :> {To(Ref("moved", home))}
    @@ Ref("moved", bare) :> {To(Ref("moved", home))})

\* The start page moves within its host, and comes back.
Wavering == SiteOf(
    Ref("start", home) :> {Simply("page"), To(Ref("none", bare))}
    @@ Ref("start", bare) :> {Simply("refused"), Simply("broken")})

\* Of two start pages one cannot always be reached, and when it can does not exist.
Failing == SiteOf(Ref("start", home) :> {Simply("error"), Simply("missing")})

MCSites ==
    {[starts |-> <<Ref("start", home)>>, answers |-> answers] :
        answers \in {Changing, Moving, Wavering}}
    \union {[starts |-> <<Ref("start", home), Ref("moved", home)>>, answers |-> Failing]}

\* Nothing but pages.
PlainSites == {[starts |-> <<Ref("start", home)>>, answers |-> SiteOf(<<>>)]}

\* Requests for the page whose name has no extension.
BareRequests == {[path |-> bare, query |-> <<>>]}
===============================================================================
