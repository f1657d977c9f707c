--------------------------------- MODULE Links ---------------------------------
(***************************************************************************)
(* The references of one document, an HTML page or a style sheet: which    *)
(* of them the crawl is told, how they are rewritten in the local copy,    *)
(* and which are read from the copy in a later run, when the server says   *)
(* that the document is unchanged (document/*.go, htmlindex/htmlindex.go,  *)
(* and html200, css200, html304, css304 of the download package).          *)
(*                                                                         *)
(* A page is seen through one element whose attributes hold references, a  *)
(* srcset attribute several, and an optional base element; a style sheet   *)
(* through its url() tokens.  Of its other elements a page tells only      *)
(* whether one was adjusted.  Fragments are dropped, and references that   *)
(* cannot be parsed are left out.                                          *)
(***************************************************************************)
EXTENDS FileNames

CONSTANTS
    StartHost,  \* host of the URL that the downloader was made for
    Documents,  \* URLs of documents, with their kind
    Name,       \* names of path segments
    Hosts,      \* hosts, and the two that follow
    NoHost,
    OtherScheme,\* stands for the host of a URL that has none, but a scheme of its own,
                \* as tel: and javascript: (not mailto: and data:, which are left alone)
    Elements,   \* attributes a page may contain: sequences of sequences of references
    Sheets,     \* the same for a style sheet
    Bases,      \* references a base element may contain, and NoBase
    NoBase,
    MaxSet      \* bound: references in one srcset attribute

BasePlace == <<0, 0>>

\* No segment but the last is empty.
Path == {p \in Seq(Name) : \A i \in 1 .. Len(p) - 1 : p[i] # Slash}
URL == [host : Hosts, path : Path, query : Query]

\* A reference as it is written: with a host, from the root, relative ("../" up times,
\* then a path), or a fragment, which stands for all that rewriting leaves alone.  A
\* relative reference that climbs and has no path ends with a slash.
Reference ==
    {r \in [form : {"absolute", "rooted", "relative", "fragment"}, host : Hosts,
            up : Nat, path : Path, query : Query] :
        /\ r.form = "absolute" <=> r.host # NoHost
        /\ r.host = OtherScheme => r.path # <<>>}
Nothing == [form |-> "relative", host |-> NoHost, up |-> 0, path |-> <<>>, query |-> <<>>]

ASSUME LinksAssumption ==
    /\ StartHost \in Hosts /\ NoHost \in Hosts \ {StartHost}
    /\ OtherScheme \in Hosts \ {StartHost, NoHost}
    /\ Name \subseteq Segment /\ Slash \in Name
    /\ Documents \subseteq [kind : {"html", "css"}, url : URL]
    /\ \A d \in Documents : /\ d.url.host \notin {NoHost, OtherScheme}
                            /\ d.kind = "css" => d.url.path # <<>>
    /\ Elements \subseteq Seq(Seq(Reference)) /\ Sheets \subseteq Seq(Seq(Reference))
    /\ \A n \in Elements \union Sheets : \A i \in DOMAIN n : Len(n[i]) \in 1 .. MaxSet
    /\ Bases \subseteq {r \in Reference : r.host # OtherScheme} \union {NoBase}
    /\ NoBase \notin Reference
    /\ MaxSet \in Nat

VARIABLES
    doc,    \* the document: its kind, "html" or "css", and its URL
    base,   \* the reference in its base element, or NoBase
    node,   \* its attributes, each a sequence of references, as they are now
    source, \* history: its attributes as the server sent them
    changed,\* whether rewriting has adjusted an attribute, as far as it has noticed
    stage,  \* "response", "parsed", "stored" or "reread"
    todo,   \* what is still to be rewritten: places of references, or tokens
    found,  \* the references that the crawl was told
    again   \* those that it is told when the document is unchanged

vars == <<doc, base, node, source, changed, stage, todo, found, again>>

-------------------------------------------------------------------------------
(* Resolving: the url package of Go *)

\* Going up from a directory stops at the root.
Climb(dir, up) == SubSeq(dir, 1, Len(dir) - up)

ResolveReference(from, r) ==
    CASE r.form = "absolute" -> [host |-> r.host, path |-> r.path, query |-> r.query]
      [] r.form = "rooted"   -> [host |-> from.host, path |-> r.path, query |-> r.query]
      [] r.form = "fragment" -> from
      [] r.form = "relative" /\ r.up = 0 /\ r.path = <<>> ->
            [from EXCEPT !.query = IF r.query = <<>> THEN @ ELSE r.query]
      [] OTHER ->
            [host  |-> from.host,
             path  |-> Climb(Front(from.path), r.up)
                         \o (IF r.path = <<>> THEN <<Slash>> ELSE r.path),
             query |-> r.query]

-------------------------------------------------------------------------------
(* The references of a document: Index.Index, FindReferences, CheckCSSForUrls *)

Places(n) == {p \in (DOMAIN n) \X (1 .. MaxSet) : p[2] <= Len(n[p[1]])}
Tokens(n) == {n[p[1]][p[2]] : p \in Places(n)}

\* A base element is parsed by itself: only an absolute one has a host.  The mistake: a
\* page without one is taken like that, too.
BaseURL(b) == ResolveReference([host |-> NoHost, path |-> <<>>, query |-> <<>>], b)

FindReferencesByThemselves(b, n) ==
    {ResolveReference(BaseURL(IF b = NoBase THEN Nothing ELSE b), r) : r \in Tokens(n)}

\* Everything is resolved against the base element if there is one, itself included.
FindReferences(b, n) ==
    IF b = NoBase THEN {ResolveReference(doc.url, r) : r \in Tokens(n)}
    ELSE {ResolveReference(BaseURL(b), r) : r \in Tokens(n) \union {b}}

-------------------------------------------------------------------------------
(* Rewriting: resolveURL *)

\* A path without the slash that ends it.
Trim(path) == IF EndsWithSlash(path) THEN Front(path) ELSE path

\* How many segments two paths begin with in common.
InCommon(s, t) ==
    CHOOSE n \in 0 .. Len(s) :
        /\ n <= Len(t) /\ SubSeq(s, 1, n) = SubSeq(t, 1, n)
        /\ n < Len(s) /\ n < Len(t) => s[n + 1] # t[n + 1]

\* The levels up from a page; its file name is none.  The mistakes: it is one; it is
\* taken off although the path has none left.
LevelsWithFileName(remaining) == remaining
LevelsUnchecked(remaining) == remaining - 1
Levels(remaining) == IF remaining = 0 THEN 0 ELSE remaining - 1

\* From the file of the page to the path of the target, whose last slash gets lost.
urlRelativeToOther(src, from) ==
    LET file   == GetPageFilePath(from)
        target == Trim(src.path)
        common == InCommon(target, file)
    IN  [up |-> Levels(Len(file) - common), path |-> SubSeq(target, common + 1, Len(target))]

\* From the directory of a page to the root.
urlRelativeToRoot(url) == Len(Front(url.path))

\* What points to another host is left unchanged.  The mistake: nothing is.
NothingElsewhere(r) == FALSE
PointsElsewhere(r) == r.form = "absolute" /\ r.host \notin {StartHost, OtherScheme}

\* The rest is made relative to the page on the host of the start URL, and relative to
\* the root on another.  Whatever the scheme is, it is dropped: what has one of its own
\* and no host becomes relative to the root, too.
resolveURL(from, r, relativeToRoot) ==
    LET url == ResolveReference(from, r)
        rel == urlRelativeToOther(url, from)
    IN  IF PointsElsewhere(r) THEN r
        ELSE IF url.host = StartHost
             THEN [Nothing EXCEPT !.up = rel.up, !.path = rel.path, !.query = url.query]
             ELSE [Nothing EXCEPT !.up = relativeToRoot, !.query = url.query,
                                  !.path = IF url.path = <<Slash>> THEN <<>> ELSE url.path]

Fixed(r) == resolveURL(doc.url, r, urlRelativeToRoot(doc.url))

\* The attributes before the first that begins with a fragment: there the loop returns.
Considered(n) == {i \in DOMAIN n : \A k \in 1 .. i : Head(n[k]).form # "fragment"}

\* An empty attribute is skipped; each part of a srcset is rewritten.
fixHTMLNodeURL(n) ==
    [i \in DOMAIN n |->
        IF i \in Considered(n) /\ n[i] # <<Nothing>>
        THEN [j \in DOMAIN n[i] |-> Fixed(n[i][j])] ELSE n[i]]

\* Whether fixHTMLNodeURL says that it has adjusted an attribute: it says no when it meets
\* one that is left alone, whatever it has done before.
Adjusted(n) == Considered(n) = DOMAIN n /\ fixHTMLNodeURL(n) # n

\* A node with one attribute and one reference.
FixedAlone(r) == IF r.form = "fragment" \/ r = Nothing THEN r ELSE Fixed(r)

\* Style sheets resolve against their directory.  The mistake: against the one above.
StyleParent == [doc.url EXCEPT !.path = Append(Front(Front(@)), Slash)]
StyleDirectory == [doc.url EXCEPT !.path = Append(Front(@), Slash)]
FixedToken(r) == resolveURL(StyleDirectory, r, 0)

-------------------------------------------------------------------------------
(* One download: html200 or css200 *)

Init ==
    /\ doc \in Documents
    /\ base \in (IF doc.kind = "html" THEN Bases ELSE {NoBase})
    /\ node \in (IF doc.kind = "html" THEN Elements ELSE Sheets)
    /\ source = node /\ changed = FALSE
    /\ stage = "response" /\ todo = {} /\ found = {} /\ again = {}

\* ParseHTML builds the index, and the scanner finds the tokens, before anything is
\* rewritten.  A node is in the index as often as it has references.
Parse ==
    /\ stage = "response"
    /\ stage' = "parsed"
    /\ found' = FindReferences(base, node)
    /\ todo' = IF doc.kind = "css" THEN Tokens(node)
               ELSE Places(node) \union (IF base = NoBase THEN {} ELSE {BasePlace})
    /\ UNCHANGED <<doc, base, node, source, changed, again>>

\* A node is rewritten once for each of its references, in the order of a map.
FixNode ==
    /\ stage = "parsed" /\ doc.kind = "html"
    /\ \E p \in todo \ {BasePlace} : todo' = todo \ {p}
    /\ node' = fixHTMLNodeURL(node) /\ changed' = (changed \/ Adjusted(node))
    /\ UNCHANGED <<doc, base, source, stage, found, again>>

\* The base element is a node with a reference like any other.
FixBase ==
    /\ stage = "parsed" /\ doc.kind = "html" /\ BasePlace \in todo
    /\ todo' = todo \ {BasePlace}
    /\ base' = FixedAlone(base) /\ changed' = (changed \/ base' # base)
    /\ UNCHANGED <<doc, node, source, stage, found, again>>

\* All occurrences of a token are replaced, those that are the result of replacing
\* another token included, in the order of a map.
ReplaceToken ==
    /\ stage = "parsed" /\ doc.kind = "css"
    /\ \E token \in todo :
        /\ todo' = todo \ {token}
        /\ node' = [i \in DOMAIN node |-> [j \in DOMAIN node[i] |->
                        IF node[i][j] = token THEN FixedToken(token) ELSE node[i][j]]]
    /\ UNCHANGED <<doc, base, source, changed, stage, found, again>>

\* storeDownload.  A page in which no element is said to be adjusted, neither those in view
\* nor elsewhere, is stored as it was; so its base element was not adjusted either.
Store ==
    /\ stage = "parsed" /\ todo = {}
    /\ stage' = "stored"
    /\ \E elsewhere \in BOOLEAN :
        node' = IF doc.kind = "css" \/ changed \/ elsewhere THEN node ELSE source
    /\ UNCHANGED <<doc, base, source, changed, todo, found, again>>

\* Which documents are read when the server says that they are unchanged: the names of
\* pages end with a slash or an extension.
IsRead ==
    LET path == doc.url.path
        ext  == IF path = <<>> THEN "" ELSE Last(path).ext
    IN  IF doc.kind = "css" THEN ext = "css"
        ELSE EndsWithSlash(path) \/ ext \in {"html", "htm"}

\* html304 and css304, in a later run: the stored document is read.
Reread ==
    /\ stage = "stored"
    /\ stage' = "reread"
    /\ again' = IF IsRead THEN FindReferences(base, node) ELSE {}
    /\ UNCHANGED <<doc, base, node, source, changed, todo, found>>

Done == stage = "reread" /\ UNCHANGED vars

Next == Parse \/ FixNode \/ FixBase \/ ReplaceToken \/ Store \/ Reread \/ Done

Spec == Init /\ [][Next]_vars

-------------------------------------------------------------------------------
(* Properties *)

\* The type invariant.
TypeOK ==
    /\ doc \in Documents
    /\ base = NoBase \/ base \in Reference
    /\ node \in Seq(Seq(Reference)) /\ source \in Seq(Seq(Reference))
    /\ DOMAIN node = DOMAIN source
    /\ changed \in BOOLEAN
    /\ stage \in {"response", "parsed", "stored", "reread"}
    /\ todo \subseteq (IF doc.kind = "html" THEN Places(source) \union {BasePlace}
                       ELSE Tokens(source))
    /\ found \subseteq URL /\ again \subseteq URL

\* The URL whose file rewriting starts from.
From == IF doc.kind = "css" THEN StyleDirectory ELSE doc.url

\* Three links that rewriting spoils: one with a scheme of its own loses it, one to the
\* directory in which the document is comes out empty and so leads to the document, and one
\* to or through the name of the file of the document loses that name.  A link to the
\* document itself may come out empty.
Itself(target) ==
    target.path = doc.url.path /\ (target.query = <<>> => doc.url.query = <<>>)
Spoilt(target) ==
    \/ target.host = OtherScheme
    \/ /\ \/ Trim(target.path) = Front(doc.url.path)
          \/ IsPrefix(GetPageFilePath(From), Trim(target.path))
       /\ ~Itself(target)

Targets == {ResolveReference(doc.url, r) : r \in Tokens(source)}

\* A page, or style sheet, on another host than the start page: what leads from it to the
\* host of the start page is made relative at first, and to its own host when it is
\* rewritten again; links of a style sheet have no levels up to the root.
WithoutWayBack ==
    \/ doc.url.host = StartHost
    \/ doc.kind = "html" /\ \A r \in Tokens(source) : r.host # StartHost

\* A page that is stored as it was, for an attribute that is left alone has made rewriting
\* forget the others of its element, and nothing else is said to be adjusted.
Forgotten ==
    /\ stage \in {"stored", "reread"} /\ doc.kind = "html"
    /\ Considered(source) # DOMAIN source /\ node = source

\* Rewriting a reference again changes nothing: neither the number of references of a
\* node, nor the order of the maps, nor a token that is the result of another can be
\* seen in the stored document, which is rewritten as a whole unless it was forgotten
\* (html.go:50-52, 64-77, css.go:64-69, ok.go:76-80).
FixedAsOnce ==
    stage = "stored" /\ WithoutWayBack /\ (\A t \in Targets : ~Spoilt(t)) /\ ~Forgotten =>
        node = IF doc.kind = "html" THEN fixHTMLNodeURL(source)
               ELSE [i \in DOMAIN source |->
                        [j \in DOMAIN source[i] |-> FixedToken(source[i][j])]]

\* The references of the stored document that were rewritten and lead to the site, each
\* as the pair of its target and the link that has taken its place.
Relinked ==
    IF base # NoBase \/ doc.url.host # StartHost THEN {}
    ELSE {l \in {[target |-> ResolveReference(doc.url, source[p[1]][p[2]]),
                  link |-> node[p[1]][p[2]]] : p \in {q \in Places(source) :
                                                    q[1] \in Considered(source)}} :
            l.target.host = StartHost}

SameResource(u, v) == u.host = v.host /\ Trim(u.path) = Trim(v.path) /\ u.query = v.query

\* A link that was not spoilt leads, from the page's own URL, to what the reference
\* meant, up to a slash at the end (url.go:20-42, 56-94).
LinksLeadToTargets ==
    stage = "stored" =>
        \A l \in Relinked : ~Spoilt(l.target) =>
            SameResource(ResolveReference(doc.url, l.link), l.target)

\* What a browser opens in the copy when it follows a link: the file, or the index of the
\* directory, that the path of the link names, seen from the file of the document.  A link
\* with a host leads to the site, and one from the root to that of the file system.
File == IF doc.kind = "html" THEN GetPageFilePath(doc.url) ELSE GetFilePath(doc.url, FALSE)
Opened(link) ==
    LET path == Trim(ResolveReference([doc.url EXCEPT !.path = File, !.query = <<>>], link).path)
    IN  IF link.form \in {"absolute", "rooted"} THEN {}
        ELSE {path, Append(path, [base |-> "index", qs |-> <<>>, ext |-> "html"])}

\* A link of a document that was not forgotten opens the file in which its target is
\* stored, when the target has an extension or ends with a slash, and has no query string
\* (url.go:56-94, file.go:38-70).
NamedAsStored(u) == u.query = <<>> /\ u.path # <<>> /\ (EndsWithSlash(u.path) \/ Last(u.path).ext # "")
LinksOpenFiles ==
    stage = "stored" /\ ~Forgotten =>
        \A l \in Relinked : ~Spoilt(l.target) /\ NamedAsStored(l.target) =>
            GetPageFilePath(l.target) \in Opened(l.link)

\* The copy of a document without base element, none of whose references was spoilt,
\* leads a later run to the URLs that the first was told and to no others, up to a slash
\* at the end, if it is read at all (html.go:62-118, css.go:64-69, notModified.go:19-83).
Trimmed(S) == {[u EXCEPT !.path = Trim(@)] : u \in S}
SameReferencesAgain ==
    stage = "reread" /\ IsRead /\ base = NoBase /\ doc.url.host = StartHost
        /\ (\A u \in found : ~Spoilt(u)) => Trimmed(again) = Trimmed(found)

\* References with neither host nor scheme, which the coordinator follows without any
\* check, come from documents with a base element only (htmlindex.go:29-35, checks.go:11).
BareOnlyFromBase ==
    (\E u \in found \union again : u.host = NoHost) => base # NoBase

===============================================================================
