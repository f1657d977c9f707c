------------------------------- MODULE FileNames -------------------------------
(***************************************************************************)
(* The file in which the content of a URL is stored (mapping/file.go).     *)
(*                                                                         *)
(* A path is the sequence of its segments; a path that ends with a slash   *)
(* ends with the segment Slash, and the path "" is the empty sequence.  A  *)
(* segment is a name: what stands before a query string, the parameters    *)
(* that stand in it, and an extension.  So a_x=1.html is the name of base  *)
(* "a", parameters <<x=1>> and extension "html".                           *)
(***************************************************************************)
EXTENDS Integers, SequencesExt

CONSTANT
    Query  \* query strings: sequences of parameters, which are numbered in the order
           \* in which their texts sort

ASSUME QueryAssumption == Query \subseteq Seq(Nat) /\ <<>> \in Query

Segment == [base : STRING, qs : Seq(Nat), ext : STRING]
Slash == [base |-> "", qs |-> <<>>, ext |-> ""]

EndsWithSlash(path) == path # <<>> /\ Last(path) = Slash

\* The same parameters in another order are the same query string in a file name.
SortedQueryString(query) == IF query = <<>> THEN <<>> ELSE SortSeq(query, <)

\* The index of a directory.  The mistake: the slash is kept.
urlKeepsSlash(url) ==
    Append(url.path, [base |-> "index", qs |-> SortedQueryString(url.query), ext |-> "html"])
urlEndsWithSlash(url) ==
    LET qs == SortedQueryString(url.query)
    IN  Append(Front(url.path),
               [base |-> IF qs = <<>> THEN "index" ELSE "", qs |-> qs, ext |-> "html"])

\* The file name of the last segment, with the query string between name and extension.
WithQuery(url) == [Last(url.path) EXCEPT !.qs = @ \o SortedQueryString(url.query)]

urlEndsWithName(url) ==
    Append(Front(url.path),
           [WithQuery(url) EXCEPT !.ext = IF @ = "" THEN "html" ELSE @])

defaultName(url) ==
    <<[base |-> "___", qs |-> SortedQueryString(url.query), ext |-> "html"]>>

\* The file of a URL that is a page.
GetPageFilePath(url) ==
    IF url.path = <<>> THEN defaultName(url)
    ELSE IF EndsWithSlash(url.path) THEN urlEndsWithSlash(url)
    ELSE urlEndsWithName(url)

\* The file of any URL: what is not a page keeps a name without extension.
GetFilePath(url, isAPage) ==
    IF isAPage \/ url.path = <<>> \/ EndsWithSlash(url.path)
    THEN GetPageFilePath(url)
    ELSE Append(Front(url.path), WithQuery(url))

===============================================================================
