-------------------------------- MODULE MCLinks --------------------------------
(* Documents and references for TLC: a root, a directory d, and one below it. *)
EXTENDS Links

N(b, e) == [base |-> b, qs |-> <<>>, ext |-> e]
a == N("a", "")
aHtml == N("a", "html")
index == N("index", "html")
d == N("d", "")
e == N("e", "")
pic == N("pic", "png")
indexBare == N("index", "")
style == N("s", "css")
aWithQuery == [base |-> "a", qs |-> <<1>>, ext |-> "html"]

MCQuery == {<<>>, <<1>>, <<2, 1>>, <<1, 2>>}
MCHosts == {"start", "moved", "other", "none", "scheme"}

Url(host, path, query) == [host |-> host, path |-> path, query |-> query]
Page(path, query) == [kind |-> "html", url |-> Url("start", path, query)]
Sheet(host, path, query) == [kind |-> "css", url |-> Url(host, path, query)]

\* The last but one of each kind is on the host to which the start page has moved; the
\* names of four documents are those of an index.
MCDocuments == {
    Page(<<>>, <<>>), Page(<<Slash>>, <<>>), Page(<<a>>, <<>>), Page(<<aHtml>>, <<2, 1>>),
    Page(<<d, Slash>>, <<>>), Page(<<d, Slash>>, <<1>>), Page(<<d, a>>, <<>>),
    Page(<<d, aHtml>>, <<>>), Page(<<d, e, Slash>>, <<>>),
    Page(<<d, index>>, <<>>), Page(<<d, indexBare>>, <<>>),
    [kind |-> "html", url |-> Url("moved", <<d, a>>, <<>>)], Page(<<index>>, <<1>>),
    Sheet("start", <<d, style>>, <<>>), Sheet("start", <<style>>, <<1>>),
    Sheet("start", <<d, Slash>>, <<1>>), Sheet("start", <<d, index>>, <<1>>),
    Sheet("moved", <<d, style>>, <<>>), Sheet("start", <<d, index>>, <<>>) }

Absolute(host, path, query) ==
    [form |-> "absolute", host |-> host, up |-> 0, path |-> path, query |-> query]
Rooted(path, query) == [Nothing EXCEPT !.form = "rooted", !.path = path, !.query = query]
Relative(up, path, query) == [Nothing EXCEPT !.up = up, !.path = path, !.query = query]
Fragment == [Nothing EXCEPT !.form = "fragment"]
Phone == Absolute("scheme", <<pic>>, <<>>)

MCReferences == {
    Nothing, Fragment,
    Absolute("start", <<>>, <<>>), Absolute("start", <<d, aHtml, e>>, <<>>),
    Absolute("moved", <<a>>, <<>>), Absolute("other", <<a>>, <<>>), Phone,
    Rooted(<<Slash>>, <<>>), Rooted(<<d, Slash>>, <<>>), Rooted(<<d, index>>, <<>>),
    Rooted(<<d, e, Slash>>, <<1>>), Rooted(<<d, aHtml>>, <<>>), Rooted(<<aWithQuery>>, <<>>),
    Relative(0, <<a>>, <<>>), Relative(0, <<aHtml>>, <<1, 2>>), Relative(0, <<d, Slash>>, <<>>),
    Relative(0, <<>>, <<1>>), Relative(1, <<>>, <<>>), Relative(1, <<pic>>, <<>>),
    Absolute("start", <<d, pic>>, <<>>), Relative(0,<<N("index","")>>,<<>>),
    Relative(2, <<e, pic>>, <<>>) }

\* One attribute; two, as src and data-src; one with two references, as srcset.
MCElements ==
    {<<<<r>>>> : r \in MCReferences}
    \union {<<<<r>>, <<s>>>> : r \in MCReferences, s \in MCReferences}
    \union {<<<<r, s>>>> : r \in MCReferences, s \in MCReferences}

\* Style sheets refer to assets, some of which they name in several ways.
Assets == {Relative(0, <<pic>>, <<>>), Relative(1, <<pic>>, <<>>), Rooted(<<pic>>, <<>>),
           Rooted(<<d, pic>>, <<>>), Relative(0, <<d, pic>>, <<1>>),
           Absolute("other", <<pic>>, <<>>), Absolute("start", <<d, pic>>, <<>>),
           Rooted(<<d, index>>, <<>>), Rooted(<<d, index>>, <<1>>),
           Rooted(<<d, Slash>>, <<1>>), Relative(0, <<>>, <<1>>), Phone}
MCSheets == {<<<<r, s, t>>>> : r \in Assets, s \in Assets, t \in Assets}

MCBases == {NoBase, Absolute("start", <<d, Slash>>, <<>>), Absolute("other", <<Slash>>, <<>>),
            Rooted(<<d, Slash>>, <<>>)}

MCNames == {Slash, a, aHtml, index, d, e, pic, aWithQuery, indexBare, style, N("___", "html")}
===============================================================================
