------------------------------ MODULE SiteSearch ------------------------------
(***************************************************************************)
(* What the crawl promises: a search of the web site from the start page.  *)
(* Only pages of the scope that a page fetched before refers to are        *)
(* fetched, one for each path, and the search is over only when nothing    *)
(* that was found is left.  In which order, by whom and from which queue   *)
(* is left open.                                                           *)
(***************************************************************************)
CONSTANTS Page, PathOf, Start

VARIABLES
    scope,    \* the pages to be copied
    refers,   \* the pages that each page may refer to
    found,    \* the pages of the scope that were referred to
    fetched,  \* the pages that were fetched
    over      \* the search has ended

vars == <<scope, refers, found, fetched, over>>

SamePath(u) == \E v \in fetched : PathOf[v] = PathOf[u]

Init ==
    /\ scope \subseteq Page /\ refers \in [Page -> SUBSET Page]
    /\ found = {} /\ fetched = {} /\ over = FALSE

\* The start page is fetched.  It may have moved, and the scope with it.
Begin ==
    /\ fetched = {} /\ ~over
    /\ fetched' = {Start}
    /\ scope' \subseteq Page
    /\ found' \subseteq refers[Start] \intersect scope'
    /\ UNCHANGED <<refers, over>>

Fetch(u) ==
    /\ u \in found /\ ~SamePath(u) /\ ~over
    /\ fetched' = fetched \union {u}
    /\ UNCHANGED <<scope, refers, found, over>>

Read(u) ==
    /\ u \in fetched /\ ~over
    /\ found \subseteq found' /\ found' \subseteq found \union (refers[u] \intersect scope)
    /\ UNCHANGED <<scope, refers, fetched, over>>

Finish ==
    /\ fetched # {} /\ ~over
    /\ \A u \in found : SamePath(u)
    /\ over' = TRUE
    /\ UNCHANGED <<scope, refers, found, fetched>>

Next == Begin \/ Finish \/ \E u \in Page : Fetch(u) \/ Read(u)

Spec == Init /\ [][Next]_vars
===============================================================================
