------------------------------- MODULE MCScraper -------------------------------
(***************************************************************************)
(* Small web sites for TLC.  Every site answers for the same URLs: five    *)
(* pages of the start host, one of another host, one mail address.         *)
(***************************************************************************)
EXTENDS Scraper

MCUrl == {"home", "a", "b", "c", "d", "ext", "mail"}
MCHostOf == [u \in MCUrl |-> CASE u = "ext" -> "other" [] u = "mail" -> "" [] OTHER -> "host"]
\* The foreign page has the path of page a.
MCPathOf == [u \in MCUrl |-> IF u = "ext" THEN "a" ELSE u]
MCWebUrl == MCUrl \ {"mail"}

To(u) == [to |-> u, bare |-> FALSE]
BareTo(u) == [to |-> u, bare |-> TRUE]

Answered(kind, refs) == [kind |-> kind, refs |-> refs]
Page(refs) == Answered("page", refs)
Asset == Page(<<>>)
RedirectTo(ref) == Answered("redirect", <<ref>>)
Plain(kind) == Answered(kind, <<>>)

\* A site from the pages it overrides; the rest are leaves.
SiteOf(pages, allowed) ==
    [responds |-> [u \in MCUrl |-> IF u \in DOMAIN pages THEN pages[u] ELSE {Asset}],
     allowed  |-> allowed]

-------------------------------------------------------------------------------
(* Well-behaved servers *)

\* Pages that refer to one another and to themselves, to a foreign host and to a
\* mail address; one of them is gone, or expired, or filtered out.
Mesh == [home |-> {Page(<<To("ext"), To("a"), To("b"), To("a")>>),
                  Answered("fresh", <<To("a"), To("b")>>)},
         a    |-> {Page(<<To("b"), To("home"), To("ext"), To("c")>>)},
         b    |-> {Page(<<To("a"), To("b"), To("mail")>>), Plain("gone")},
         c    |-> {Answered("fresh", <<To("home"), To("b")>>)},
         ext  |-> {Page(<<To("a")>>)}]

\* Redirects: of a page to one already known, to a new one, and in a circle.
Redirects == [home |-> {Page(<<To("a"), To("b")>>)},
              a    |-> {RedirectTo(To("b")), RedirectTo(To("c"))},
              b    |-> {RedirectTo(To("c")), Page(<<To("c"), To("a")>>)},
              c    |-> {RedirectTo(To("a")), Asset}]

\* The start page moves to another host.
Moved == [home |-> {RedirectTo(To("ext"))},
          ext  |-> {Page(<<To("home"), To("a"), To("ext")>>)}]

CalmSites ==
    {SiteOf(Mesh, MCUrl), SiteOf(Mesh, MCUrl \ {"c"}), SiteOf(Mesh, {"a"}),
     SiteOf(Redirects, MCUrl), SiteOf(Redirects, MCUrl \ {"b"}), SiteOf(Moved, MCUrl),
     SiteOf([home |-> {Plain("gone"), Plain("error"), Plain("tooMany")}], MCUrl)}

-------------------------------------------------------------------------------
(* Servers that fail *)

Troubled == [home |-> {Page(<<To("a"), To("b"), To("a")>>)},
             a    |-> {Page(<<To("c"), To("b")>>), Plain("tooMany"), Plain("unavailable")},
             b    |-> {RedirectTo(To("c")), Plain("gone"), Plain("error"), Plain("broken")},
             c    |-> {Page(<<To("ext"), To("home")>>), Plain("tooMany"), Plain("unavailable")}]

\* Bare references, as a relative redirect gives them.
Bare == [home |-> {RedirectTo(BareTo("a"))},
         a    |-> {Page(<<To("b"), To("c")>>), Plain("unavailable")},
         b    |-> {RedirectTo(BareTo("c"))},
         c    |-> {Answered("fresh", <<To("a")>>), Plain("tooMany")}]

HostileSites == {SiteOf(Troubled, MCUrl), SiteOf(Bare, MCUrl \ {"b"}), SiteOf(Bare, MCUrl)}

-------------------------------------------------------------------------------
(* Sites of the runs that end in a violation *)

\* The last answer of the crawl is a 5xx.
Overloaded == [home |-> {Page(<<To("a"), To("b")>>)},
               b    |-> {Plain("unavailable")}]
OverloadedSites == {SiteOf(Overloaded, MCUrl)}

\* Two ways to page c: home - a - c, and one step longer home - b - d - c.
TwoWays == [home |-> {Page(<<To("a"), To("b")>>)},
            a    |-> {Page(<<To("c")>>)},
            b    |-> {Page(<<To("d")>>)},
            d    |-> {Page(<<To("c")>>)}]
TwoWaysSites == {SiteOf(TwoWays, MCUrl)}

\* Page a is throttled at first, and the last answer is another.
Throttled == [home |-> {Page(<<To("a"), To("b")>>)},
              a    |-> {Plain("tooMany"), Asset}]
ThrottledSites == {SiteOf(Throttled, MCUrl)}
===============================================================================
