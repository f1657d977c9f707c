------------------------------ MODULE LinksProofs ------------------------------
(***************************************************************************)
(* Proofs about the references of a document, for any set of documents and *)
(* references: a rewritten link leads to where the reference led, from the *)
(* file of the document it opens the file of its target, no attribute is   *)
(* rewritten twice to different ends, a second look at the stored copy     *)
(* finds the same references, and only documents with a base element give  *)
(* references without a host.                                              *)
(***************************************************************************)
EXTENDS Links, SequenceTheorems, WellFoundedInduction, TLAPS

-------------------------------------------------------------------------------
(* Facts about sequences *)

\* What two sequences begin with in common exists: the chosen number has its properties.
LEMMA InCommonProperties ==
    ASSUME NEW S, NEW s \in Seq(S), NEW t \in Seq(S)
    PROVE  LET n == InCommon(s, t)
           IN  /\ n \in 0 .. Len(s) /\ n <= Len(t)
               /\ SubSeq(s, 1, n) = SubSeq(t, 1, n)
               /\ n < Len(s) /\ n < Len(t) => s[n + 1] # t[n + 1]
<1>. DEFINE Common == {n \in 0 .. Len(s) : n <= Len(t) /\ SubSeq(s, 1, n) = SubSeq(t, 1, n)}
            Rest == {Len(s) - n : n \in Common}
<1>1. Len(s) \in Nat /\ Len(t) \in Nat
  OBVIOUS
<1>2. 0 \in Common
  <2>1. SubSeq(s, 1, 0) = <<>> /\ SubSeq(t, 1, 0) = <<>>
    BY SubSeqEmpty
  <2>. QED
    BY <1>1, <2>1
<1>3. Rest \subseteq Nat /\ Rest # {}
  BY <1>1, <1>2
<1>4. PICK m \in Rest : \A k \in Rest : ~(k < m)
  <2>1. \E m \in Rest : \A k \in Rest : <<k, m>> \notin OpToRel(<, Nat)
    BY <1>3, NatLessThanWellFounded, WFMin
  <2>. QED
    BY <1>3, <2>1 DEF OpToRel
<1>5. PICK n \in Common : m = Len(s) - n
  BY <1>4
<1>6. ASSUME n < Len(s), n < Len(t) PROVE s[n + 1] # t[n + 1]
  <2>1. SUFFICES ASSUME s[n + 1] = t[n + 1] PROVE FALSE
    OBVIOUS
  <2>2. n \in Nat /\ SubSeq(s, 1, n) = SubSeq(t, 1, n)
    BY <1>5
  <2>3. n + 1 \in 1 .. Len(s) /\ n + 1 \in 1 .. Len(t) /\ 1 \in 1 .. Len(s) /\ 1 \in 1 .. Len(t)
    BY <1>1, <1>6, <2>2
  <2>4. /\ SubSeq(s, 1, n + 1) = SubSeq(s, 1, (n + 1) - 1) \o <<s[n + 1]>>
        /\ SubSeq(t, 1, n + 1) = SubSeq(t, 1, (n + 1) - 1) \o <<t[n + 1]>>
    BY <2>3, SubSeqRecursiveSecond
  <2>5. SubSeq(s, 1, n + 1) = SubSeq(t, 1, n + 1)
    BY <2>1, <2>2, <2>4
  <2>6. n + 1 \in Common
    BY <1>1, <1>6, <2>2, <2>5
  <2>7. Len(s) - (n + 1) \in Rest
    BY <2>6
  <2>8. ~(Len(s) - (n + 1) < Len(s) - n)
    BY <1>4, <1>5, <2>7
  <2>. QED
    BY <1>1, <2>2, <2>8
<1>. QED
  BY <1>5, <1>6 DEF InCommon

\* Cut anywhere, a sequence is its beginning and its end.
LEMMA BeginningAndEnd ==
    ASSUME NEW S, NEW s \in Seq(S), NEW n \in 0 .. Len(s)
    PROVE  /\ SubSeq(s, 1, n) \in Seq(S) /\ SubSeq(s, n + 1, Len(s)) \in Seq(S)
           /\ Len(SubSeq(s, 1, n)) = n /\ Len(SubSeq(s, n + 1, Len(s))) = Len(s) - n
           /\ SubSeq(s, 1, n) \o SubSeq(s, n + 1, Len(s)) = s
<1>1. /\ SubSeq(s, 1, n) \in Seq(S) /\ Len(SubSeq(s, 1, n)) = n
      /\ \A i \in 1 .. n : SubSeq(s, 1, n)[i] = s[i]
  BY SubSeqProperties
<1>2. /\ SubSeq(s, n + 1, Len(s)) \in Seq(S) /\ Len(SubSeq(s, n + 1, Len(s))) = Len(s) - n
      /\ \A i \in 1 .. Len(s) - n : SubSeq(s, n + 1, Len(s))[i] = s[n + i]
  BY SubSeqProperties
<1>3. PICK a, b : a = SubSeq(s, 1, n) /\ b = SubSeq(s, n + 1, Len(s))
  OBVIOUS
<1>4. /\ a \in Seq(S) /\ Len(a) = n /\ \A i \in 1 .. Len(a) : a[i] = s[i]
      /\ b \in Seq(S) /\ Len(b) = Len(s) - n /\ \A i \in 1 .. Len(b) : b[i] = s[Len(a) + i]
  BY <1>1, <1>2, <1>3
<1>5. a \o b = s
  <2>1. /\ a \o b \in Seq(S) /\ Len(a \o b) = Len(a) + Len(b)
        /\ \A i \in 1 .. Len(a) + Len(b) :
              (a \o b)[i] = IF i <= Len(a) THEN a[i] ELSE b[i - Len(a)]
    BY <1>4, ConcatProperties
  <2>2. ASSUME NEW i \in 1 .. Len(s), i <= Len(a) PROVE (a \o b)[i] = s[i]
    <3>1. i \in 1 .. Len(a) /\ i \in 1 .. Len(a) + Len(b)
      BY <1>4, <2>2
    <3>. QED
      BY <1>4, <2>1, <2>2, <3>1
  <2>3. ASSUME NEW i \in 1 .. Len(s), ~(i <= Len(a)) PROVE (a \o b)[i] = s[i]
    <3>1. i - Len(a) \in 1 .. Len(b) /\ i \in 1 .. Len(a) + Len(b) /\ Len(a) + (i - Len(a)) = i
      BY <1>4, <2>3
    <3>. QED
      BY <1>4, <2>1, <2>3, <3>1
  <2>4. \A i \in 1 .. Len(s) : (a \o b)[i] = s[i]
    BY <2>2, <2>3
  <2>5. Len(a \o b) = Len(s)
    BY <1>4, <2>1
  <2>. QED
    BY <2>1, <2>4, <2>5, SeqEqual
<1>. QED
  BY <1>3, <1>4, <1>5

\* Without its last segment a path is one shorter.
LEMMA FrontOfPath ==
    ASSUME NEW S, NEW s \in Seq(S)
    PROVE  /\ Front(s) \in Seq(S)
           /\ s = <<>> => Front(s) = <<>>
           /\ s # <<>> => Len(Front(s)) = Len(s) - 1
<1>1. CASE s = <<>>
  <2>1. SubSeq(s, 1, Len(s) - 1) = <<>>
    BY <1>1, SubSeqEmpty
  <2>. QED
    BY <1>1, <2>1 DEF Front
<1>2. CASE s # <<>>
  <2>1. Len(s) - 1 \in 0 .. Len(s)
    BY <1>2
  <2>. QED
    BY <1>2, <2>1, BeginningAndEnd DEF Front
<1>. QED
  BY <1>1, <1>2

\* What is left after climbing is a path again.
LEMMA ClimbType ==
    ASSUME NEW S, NEW s \in Seq(S), NEW up \in Nat
    PROVE  Climb(s, up) \in Seq(S)
<1>1. \A i \in 1 .. Len(s) - up : s[i] \in S
  OBVIOUS
<1>. QED
  BY <1>1, SubSeqProperties DEF Climb

\* Climbing from the directory of a path leaves a beginning of the path.
LEMMA ClimbFront ==
    ASSUME NEW S, NEW s \in Seq(S), s # <<>>, NEW n \in 0 .. Len(s) - 1
    PROVE  Climb(Front(s), Len(s) - n - 1) = SubSeq(s, 1, n)
<1>1. Front(s) = SubSeq(s, 1, Len(s) - 1) /\ Len(Front(s)) = Len(s) - 1
  BY FrontOfPath DEF Front
<1>2. Climb(Front(s), Len(s) - n - 1) = SubSeq(Front(s), 1, n)
  BY <1>1 DEF Climb
<1>3. /\ Len(SubSeq(Front(s), 1, n)) = n /\ Len(SubSeq(s, 1, n)) = n
      /\ SubSeq(Front(s), 1, n) \in Seq(S) /\ SubSeq(s, 1, n) \in Seq(S)
      /\ \A i \in 1 .. n : SubSeq(Front(s), 1, n)[i] = Front(s)[i] /\ SubSeq(s, 1, n)[i] = s[i]
  <2>1. \A i \in 1 .. n : Front(s)[i] \in S /\ s[i] \in S
    BY <1>1, FrontOfPath
  <2>. QED
    BY <2>1, SubSeqProperties
<1>4. \A i \in 1 .. n : Front(s)[i] = s[i]
  BY <1>1, SubSeqProperties
<1>. QED
  BY <1>2, <1>3, <1>4

\* The last element of what was appended to.
LEMMA LastOfAppend ==
    ASSUME NEW S, NEW f \in Seq(S), NEW x \in S
    PROVE  Last(Append(f, x)) = x
  BY AppendProperties DEF Last

\* What is appended to a path can be taken off.
LEMMA FrontOfAppend ==
    ASSUME NEW S, NEW s \in Seq(S), NEW x \in S
    PROVE  Front(Append(s, x)) = s
<1>1. PICK t \in Seq(S) : t = Append(s, x)
  BY AppendProperties
<1>2. Len(t) = Len(s) + 1 /\ \A i \in 1 .. Len(s) : t[i] = s[i]
  BY <1>1, AppendProperties
<1>3. /\ SubSeq(t, 1, Len(s)) \in Seq(S) /\ Len(SubSeq(t, 1, Len(s))) = Len(s)
      /\ \A i \in 1 .. Len(s) : SubSeq(t, 1, Len(s))[i] = t[i]
  <2>1. \A i \in 1 .. Len(s) : t[i] \in S
    BY <1>2
  <2>. QED
    BY <2>1, SubSeqProperties
<1>4. PICK f \in Seq(S) : f = SubSeq(t, 1, Len(s))
  BY <1>3
<1>5. Len(f) = Len(s) /\ \A i \in 1 .. Len(f) : f[i] = s[i]
  BY <1>2, <1>3, <1>4
<1>6. f = s
  BY <1>5, SeqEqual
<1>7. Front(t) = SubSeq(t, 1, Len(s))
  <2>1. Len(t) - 1 = Len(s)
    BY <1>2
  <2>. QED
    BY <2>1 DEF Front
<1>. QED
  BY <1>1, <1>4, <1>6, <1>7

-------------------------------------------------------------------------------
(* Paths *)

\* Paths that do not end with a slash.
Plain == {p \in Seq(Name) : \A i \in 1 .. Len(p) : p[i] # Slash}

\* Such a path stays as it is when a slash at the end is trimmed, and is what is left
\* when a slash was added.
LEMMA PlainPath ==
    ASSUME NEW p \in Plain
    PROVE  /\ p \in Path /\ p \in Seq(Name) /\ Trim(p) = p /\ ~EndsWithSlash(p)
           /\ Append(p, Slash) \in Path /\ Trim(Append(p, Slash)) = p
           /\ EndsWithSlash(Append(p, Slash)) /\ Front(Append(p, Slash)) = p
<1>1. p \in Seq(Name) /\ Slash \in Name /\ Len(p) \in Nat
  BY LinksAssumption DEF Plain
<1>2. p \in Path
  BY <1>1 DEF Plain, Path
<1>3. ~EndsWithSlash(p)
  <2>1. SUFFICES ASSUME p # <<>> PROVE p[Len(p)] # Slash
    BY DEF EndsWithSlash, Last
  <2>2. Len(p) \in 1 .. Len(p)
    BY <1>1, <2>1, EmptySeq
  <2>. QED
    BY <2>2 DEF Plain
<1>4. PICK q \in Seq(Name) : q = Append(p, Slash)
  BY <1>1, AppendProperties
<1>5. /\ Len(q) = Len(p) + 1 /\ q # <<>> /\ q[Len(q)] = Slash
      /\ \A i \in 1 .. Len(q) - 1 : q[i] # Slash
  BY <1>1, <1>4, AppendProperties DEF Plain
<1>6. q \in Path /\ EndsWithSlash(q)
  BY <1>5 DEF Path, EndsWithSlash, Last
<1>7. Front(q) = p
  BY <1>1, <1>4, FrontOfAppend
<1>. QED
  BY <1>1, <1>2, <1>3, <1>4, <1>6, <1>7 DEF Trim

\* A path is such a path, with or without a slash at its end; its directory is one, too.
LEMMA PathParts ==
    ASSUME NEW p \in Path
    PROVE  /\ p \in Seq(Name) /\ Front(p) \in Plain /\ Trim(p) \in Plain
           /\ EndsWithSlash(p) => p = Append(Front(p), Slash)
           /\ p \in {Trim(p), Append(Trim(p), Slash)}
<1>1. p \in Seq(Name) /\ Len(p) \in Nat
  BY DEF Path
<1>2. Front(p) \in Plain
  <2>1. CASE p = <<>>
    <3>1. Front(p) = <<>> /\ <<>> \in Seq(Name) /\ Len(<<>>) = 0
      BY <1>1, <2>1, FrontOfPath, EmptySeq
    <3>. QED
      BY <3>1 DEF Plain
  <2>2. CASE p # <<>>
    <3>1. PICK f \in Seq(Name) : f = Front(p) /\ Len(f) = Len(p) - 1
      BY <1>1, <2>2, FrontOfPath
    <3>2. \A i \in 1 .. Len(p) - 1 : p[i] \in Name
      BY <1>1
    <3>3. \A i \in 1 .. Len(p) - 1 : f[i] = p[i]
      <4>1. \A i \in 1 .. (Len(p) - 1) - 1 + 1 : SubSeq(p, 1, Len(p) - 1)[i] = p[1 + i - 1]
        BY <1>1, <3>2, SubSeqProperties
      <4>. QED
        BY <1>1, <3>1, <4>1 DEF Front
    <3>. QED
      BY <3>1, <3>3 DEF Path, Plain
  <2>. QED
    BY <2>1, <2>2
<1>3. ASSUME EndsWithSlash(p) PROVE p = Append(Front(p), Slash)
  <2>1. p # <<>> /\ p[Len(p)] = Slash
    BY <1>3 DEF EndsWithSlash, Last
  <2>2. PICK f \in Seq(Name), x \in Name : p = Append(f, x)
    BY <1>1, <2>1, SequenceEmptyOrAppend
  <2>3. Front(p) = f
    BY <2>2, FrontOfAppend
  <2>4. x = Slash
    BY <2>1, <2>2, AppendProperties
  <2>. QED
    BY <2>2, <2>3, <2>4
<1>4. ASSUME ~EndsWithSlash(p) PROVE p \in Plain
  <2>1. ASSUME NEW i \in 1 .. Len(p) PROVE p[i] # Slash
    <3>1. CASE i = Len(p)
      <4>1. p # <<>>
        BY <1>1, <3>1
      <4>. QED
        BY <1>4, <3>1, <4>1 DEF EndsWithSlash, Last
    <3>2. CASE i # Len(p)
      BY <1>1, <3>2 DEF Path
    <3>. QED
      BY <3>1, <3>2
  <2>. QED
    BY <1>1, <2>1 DEF Plain
<1>. QED
  BY <1>1, <1>2, <1>3, <1>4 DEF Trim

\* What is cut from such a path is one again.
LEMMA PlainCut ==
    ASSUME NEW p \in Plain
    PROVE  /\ \A up \in Nat : Climb(p, up) \in Plain
           /\ \A n \in 0 .. Len(p) : SubSeq(p, n + 1, Len(p)) \in Plain /\ SubSeq(p, 1, n) \in Plain
<1>1. p \in Seq(Name) /\ Len(p) \in Nat /\ \A i \in 1 .. Len(p) : p[i] \in Name /\ p[i] # Slash
  BY DEF Plain
<1>2. ASSUME NEW m \in Nat \ {0}, NEW n \in Int, n <= Len(p) PROVE SubSeq(p, m, n) \in Plain
  <2>1. \A i \in m .. n : p[i] \in Name
    BY <1>1, <1>2
  <2>2. PICK q : q = SubSeq(p, m, n)
    OBVIOUS
  <2>3. /\ q \in Seq(Name) /\ Len(q) = IF m <= n THEN n - m + 1 ELSE 0
        /\ \A i \in 1 .. n - m + 1 : q[i] = p[m + i - 1]
    BY <2>1, <2>2, SubSeqProperties
  <2>4. ASSUME NEW i \in 1 .. Len(q) PROVE q[i] # Slash
    <3>1. i \in 1 .. n - m + 1 /\ m + i - 1 \in 1 .. Len(p)
      BY <1>1, <1>2, <2>3
    <3>. QED
      BY <1>1, <2>3, <3>1
  <2>. QED
    BY <2>2, <2>3, <2>4 DEF Plain
<1>3. ASSUME NEW up \in Nat PROVE Climb(p, up) \in Plain
  <2>1. 1 \in Nat \ {0} /\ Len(p) - up \in Int /\ Len(p) - up <= Len(p)
    BY <1>1
  <2>2. SubSeq(p, 1, Len(p) - up) \in Plain
    BY <1>2, <2>1
  <2>. QED
    BY <2>2 DEF Climb
<1>4. ASSUME NEW n \in 0 .. Len(p)
      PROVE  SubSeq(p, n + 1, Len(p)) \in Plain /\ SubSeq(p, 1, n) \in Plain
  BY <1>1, <1>2
<1>. QED
  BY <1>3, <1>4

\* A path that continues such a path is a path.
LEMMA PlainThenPath ==
    ASSUME NEW p \in Plain, NEW q \in Path
    PROVE  p \o q \in Path
<1>1. p \in Seq(Name) /\ q \in Seq(Name) /\ Len(p) \in Nat /\ Len(q) \in Nat
  BY DEF Plain, Path
<1>2. PICK r : r = p \o q
  OBVIOUS
<1>3. /\ r \in Seq(Name) /\ Len(r) = Len(p) + Len(q)
      /\ \A i \in 1 .. Len(p) + Len(q) : r[i] = IF i <= Len(p) THEN p[i] ELSE q[i - Len(p)]
  BY <1>1, <1>2, ConcatProperties
<1>4. ASSUME NEW i \in 1 .. Len(r) - 1 PROVE r[i] # Slash
  <2>1. CASE i <= Len(p)
    <3>1. i \in 1 .. Len(p) /\ r[i] = p[i]
      BY <1>1, <1>3, <2>1
    <3>. QED
      BY <3>1 DEF Plain
  <2>2. CASE ~(i <= Len(p))
    <3>1. i - Len(p) \in 1 .. Len(q) - 1 /\ r[i] = q[i - Len(p)]
      BY <1>1, <1>3, <2>2
    <3>. QED
      BY <3>1 DEF Path
  <2>. QED
    BY <2>1, <2>2
<1>. QED
  BY <1>2, <1>3, <1>4 DEF Path

\* The root of a site, and the path that is none.
LEMMA RootPath == <<>> \in Plain /\ <<>> \in Path /\ <<Slash>> \in Path
<1>1. <<>> \in Plain
  BY EmptySeq DEF Plain
<1>2. <<Slash>> = Append(<<>>, Slash)
  OBVIOUS
<1>. QED
  BY <1>1, <1>2, PlainPath

-------------------------------------------------------------------------------
(* Resolving and rewriting give URLs and references *)

\* The file of a page is its directory and one name, however the names of its query
\* string are sorted.
LEMMA FileInDirectory ==
    ASSUME NEW url \in URL
    PROVE  \E x : GetPageFilePath(url) = Append(Front(url.path), x)
<1>1. url.path \in Seq(Name)
  BY DEF URL, Path
<1>2. CASE url.path = <<>>
  <2>1. PICK x : defaultName(url) = <<x>>
    BY DEF defaultName
  <2>2. Front(url.path) = <<>>
    BY <1>1, <1>2, FrontOfPath
  <2>3. Append(<<>>, x) = <<x>>
    OBVIOUS
  <2>. QED
    BY <1>2, <2>1, <2>2, <2>3 DEF GetPageFilePath
<1>3. CASE url.path # <<>> /\ EndsWithSlash(url.path)
  BY <1>3 DEF GetPageFilePath, urlEndsWithSlash
<1>4. CASE url.path # <<>> /\ ~EndsWithSlash(url.path)
  BY <1>4 DEF GetPageFilePath, urlEndsWithName
<1>. QED
  BY <1>2, <1>3, <1>4

\* A reference of a document leads to a URL.
LEMMA ResolveType ==
    ASSUME NEW from \in URL, NEW r \in Reference
    PROVE  ResolveReference(from, r) \in URL
<1>1. /\ from.host \in Hosts /\ from.path \in Path /\ from.query \in Query
      /\ r.host \in Hosts /\ r.up \in Nat /\ r.path \in Path /\ r.query \in Query
  BY DEF URL, Reference
<1>2. Climb(Front(from.path), r.up) \in Plain
  BY <1>1, PathParts, PlainCut
<1>3. CASE r.form = "absolute"
  BY <1>1, <1>3 DEF ResolveReference, URL
<1>4. CASE r.form = "rooted"
  BY <1>1, <1>4 DEF ResolveReference, URL
<1>5. CASE r.form = "fragment"
  BY <1>5 DEF ResolveReference
<1>6. CASE r.form = "relative" /\ r.up = 0 /\ r.path = <<>>
  BY <1>1, <1>6 DEF ResolveReference, URL
<1>7. CASE r.form = "relative" /\ ~(r.up = 0 /\ r.path = <<>>)
  <2>1. PICK q \in Path : q = (IF r.path = <<>> THEN <<Slash>> ELSE r.path)
    BY <1>1, RootPath
  <2>2. Climb(Front(from.path), r.up) \o q \in Path
    BY <1>2, PlainThenPath
  <2>. QED
    BY <1>1, <1>7, <2>1, <2>2 DEF ResolveReference, URL
<1>. QED
  BY <1>3, <1>4, <1>5, <1>6, <1>7 DEF Reference

\* A reference without scheme and host leads to the host of the document.
LEMMA HostOfReference ==
    ASSUME NEW from \in URL, NEW r \in Reference
    PROVE  ResolveReference(from, r).host = IF r.form = "absolute" THEN r.host ELSE from.host
<1>1. r.form \in {"absolute", "rooted", "relative", "fragment"}
  BY DEF Reference
<1>. QED
  BY <1>1 DEF ResolveReference, URL

\* What takes the place of a reference is a reference.
LEMMA RewrittenType ==
    ASSUME NEW from \in URL, NEW r \in Reference, NEW up \in Nat
    PROVE  resolveURL(from, r, up) \in Reference
<1>1. PICK url \in URL : url = ResolveReference(from, r)
  BY ResolveType
<1>2. url.path \in Path /\ url.query \in Query
  BY DEF URL
<1>3. PICK target \in Plain : target = Trim(url.path) /\ target \in Seq(Name)
  BY <1>2, PathParts, PlainPath
<1>4. PICK x : GetPageFilePath(from) = Append(Front(from.path), x)
  BY FileInDirectory
<1>5. Front(from.path) \in Seq(Name \union {x}) /\ target \in Seq(Name \union {x})
  <2>1. Front(from.path) \in Seq(Name)
    BY PathParts, PlainPath DEF URL
  <2>. QED
    BY <1>3, <2>1
<1>6. PICK file \in Seq(Name \union {x}) : file = GetPageFilePath(from)
  BY <1>4, <1>5
<1>7. PICK common \in Nat : common = InCommon(target, file) /\ common <= Len(file) /\ common <= Len(target)
  BY <1>5, InCommonProperties
<1>8. Levels(Len(file) - common) \in Nat
  BY <1>7 DEF Levels
<1>9. SubSeq(target, common + 1, Len(target)) \in Path
  BY <1>3, <1>7, PlainCut, PlainPath
<1>10. /\ urlRelativeToOther(url, from).up \in Nat
       /\ urlRelativeToOther(url, from).path \in Path
  BY <1>3, <1>6, <1>7, <1>8, <1>9 DEF urlRelativeToOther
<1>11. NoHost \in Hosts \ {OtherScheme} /\ <<>> \in Path /\ Nothing \in Reference
  BY LinksAssumption, QueryAssumption, RootPath DEF Nothing, Reference
<1>12. /\ [Nothing EXCEPT !.up = urlRelativeToOther(url, from).up,
                         !.path = urlRelativeToOther(url, from).path,
                         !.query = url.query] \in Reference
       /\ [Nothing EXCEPT !.up = up, !.query = url.query,
                         !.path = IF url.path = <<Slash>> THEN <<>> ELSE url.path] \in Reference
  BY <1>2, <1>10, <1>11 DEF Nothing, Reference
<1>. QED
  BY <1>1, <1>12 DEF resolveURL

\* The URL of the document, and the directory of a style sheet, are URLs.
LEMMA DocumentType ==
    ASSUME doc \in Documents
    PROVE  /\ doc.url \in URL /\ doc.url.host # NoHost /\ doc.kind \in {"html", "css"}
           /\ StyleDirectory \in URL /\ urlRelativeToRoot(doc.url) \in Nat
<1>1. doc.url \in URL /\ doc.url.host # NoHost /\ doc.kind \in {"html", "css"}
  <2>1. doc \in [kind : {"html", "css"}, url : URL]
    BY LinksAssumption
  <2>2. doc.url.host \notin {NoHost, OtherScheme}
    BY LinksAssumption
  <2>. QED
    BY <2>1, <2>2
<1>2. Front(doc.url.path) \in Plain /\ Len(Front(doc.url.path)) \in Nat
  BY <1>1, PathParts DEF URL, Plain
<1>3. StyleDirectory \in URL
  <2>1. PICK u \in URL : u = doc.url
    BY <1>1
  <2>2. PICK dir \in Path : dir = Append(Front(u.path), Slash)
    BY <1>2, <2>1, PlainPath
  <2>3. [u EXCEPT !.path = dir] \in URL
    BY DEF URL
  <2>. QED
    BY <2>1, <2>2, <2>3 DEF StyleDirectory
<1>4. urlRelativeToRoot(doc.url) \in Nat
  BY <1>2 DEF urlRelativeToRoot
<1>. QED
  BY <1>1, <1>3, <1>4

\* The references of attributes are references.
LEMMA TokensType ==
    ASSUME NEW n \in Seq(Seq(Reference))
    PROVE  Tokens(n) \subseteq Reference
<1>1. ASSUME NEW p \in Places(n) PROVE n[p[1]][p[2]] \in Reference
  <2>1. p \in (DOMAIN n) \X (1 .. MaxSet) /\ p[2] <= Len(n[p[1]])
    BY DEF Places
  <2>2. n[p[1]] \in Seq(Reference) /\ p[2] \in 1 .. Len(n[p[1]])
    BY <2>1, LinksAssumption
  <2>. QED
    BY <2>2
<1>. QED
  BY <1>1 DEF Tokens

\* A base element gives a URL against which references are resolved.
LEMMA BaseType ==
    ASSUME NEW b \in Reference
    PROVE  BaseURL(b) \in URL
<1>1. [host |-> NoHost, path |-> <<>>, query |-> <<>>] \in URL
  BY LinksAssumption, QueryAssumption, RootPath DEF URL
<1>. QED
  BY <1>1, ResolveType DEF BaseURL

\* The crawl is told URLs, and those of a document without base element have a host.
LEMMA FoundType ==
    ASSUME doc \in Documents, NEW b, b = NoBase \/ b \in Reference,
           NEW n \in Seq(Seq(Reference))
    PROVE  /\ FindReferences(b, n) \subseteq URL
           /\ b = NoBase => \A u \in FindReferences(b, n) : u.host # NoHost
<1>1. Tokens(n) \subseteq Reference /\ doc.url \in URL /\ doc.url.host # NoHost
  BY TokensType, DocumentType
<1>2. CASE b = NoBase
  <2>1. ASSUME NEW r \in Tokens(n)
        PROVE  /\ ResolveReference(doc.url, r) \in URL
               /\ ResolveReference(doc.url, r).host # NoHost
    <3>1. r \in Reference
      BY <1>1
    <3>2. r.form = "absolute" => r.host # NoHost
      BY <3>1 DEF Reference
    <3>. QED
      BY <1>1, <3>1, <3>2, ResolveType, HostOfReference
  <2>. QED
    BY <1>2, <2>1 DEF FindReferences
<1>3. CASE b # NoBase
  <2>1. b \in Reference /\ BaseURL(b) \in URL
    BY <1>3, BaseType
  <2>2. \A r \in Tokens(n) \union {b} : ResolveReference(BaseURL(b), r) \in URL
    BY <1>1, <2>1, ResolveType
  <2>. QED
    BY <1>3, <2>2 DEF FindReferences
<1>. QED
  BY <1>2, <1>3

-------------------------------------------------------------------------------
(* The invariant *)

\* Before the response is parsed nothing was rewritten, and a base element waits to be
\* rewritten only if there is one.
Beginning == stage = "response" => node = source
BaseWaits == doc.kind = "html" /\ BasePlace \in todo => base # NoBase
IInv == TypeOK /\ Beginning /\ BaseWaits /\ BareOnlyFromBase

\* The response satisfies the invariant.
LEMMA InitIInv == Init => IInv
<1>. SUFFICES ASSUME Init PROVE IInv
  OBVIOUS
<1>1. /\ doc \in Documents /\ node = source /\ stage = "response"
      /\ todo = {} /\ found = {} /\ again = {} /\ changed = FALSE
  BY DEF Init
<1>2. base = NoBase \/ base \in Reference
  BY LinksAssumption DEF Init
<1>3. node \in Seq(Seq(Reference))
  BY LinksAssumption DEF Init
<1>. QED
  BY <1>1, <1>2, <1>3 DEF IInv, TypeOK, Beginning, BaseWaits, BareOnlyFromBase

\* Every step keeps the invariant.
LEMMA NextIInv == IInv /\ [Next]_vars => IInv'
<1>. SUFFICES ASSUME IInv, [Next]_vars PROVE IInv'
  OBVIOUS
<1>. USE DEF IInv
<1>1. /\ doc.url \in URL /\ doc.kind \in {"html", "css"}
      /\ StyleDirectory \in URL /\ urlRelativeToRoot(doc.url) \in Nat
  BY DocumentType DEF TypeOK
<1>2. \A r \in Reference : /\ Fixed(r) \in Reference /\ FixedToken(r) \in Reference
                          /\ FixedAlone(r) \in Reference
  BY <1>1, RewrittenType DEF Fixed, FixedToken, FixedAlone
<1>3. /\ FindReferences(base, node) \subseteq URL
      /\ base = NoBase => \A u \in FindReferences(base, node) : u.host # NoHost
  BY FoundType DEF TypeOK
<1>4. CASE Parse
  <2>1. /\ stage = "response" /\ stage' = "parsed" /\ node = source
        /\ found' = FindReferences(base, node)
        /\ doc' = doc /\ base' = base /\ node' = node /\ source' = source /\ again' = again
        /\ changed' = changed
    BY <1>4 DEF Parse, Beginning
  <2>2. todo' \subseteq (IF doc.kind = "html" THEN Places(source) \union {BasePlace}
                         ELSE Tokens(source))
    BY <1>1, <1>4, <2>1 DEF Parse
  <2>3. TypeOK'
    BY <1>3, <2>1, <2>2 DEF TypeOK
  <2>4. Beginning'
    BY <2>1 DEF Beginning
  <2>5. BaseWaits'
    <3>1. BasePlace \notin Places(node)
      <4>1. 0 \notin DOMAIN node
        BY DEF TypeOK
      <4>. QED
        BY <4>1 DEF Places, BasePlace
    <3>. QED
      BY <1>4, <2>1, <3>1 DEF Parse, BaseWaits
  <2>6. BareOnlyFromBase'
    BY <1>3, <2>1 DEF BareOnlyFromBase
  <2>. QED
    BY <2>3, <2>4, <2>5, <2>6
<1>5. CASE FixNode
  <2>1. /\ stage' = stage /\ stage = "parsed" /\ todo' \subseteq todo
        /\ node' = fixHTMLNodeURL(node)
        /\ doc' = doc /\ base' = base /\ source' = source /\ found' = found /\ again' = again
        /\ changed' = (changed \/ Adjusted(node))
    BY <1>5 DEF FixNode
  <2>2. node' \in Seq(Seq(Reference)) /\ DOMAIN node' = DOMAIN node
    <3>1. node \in Seq(Seq(Reference))
      BY DEF TypeOK
    <3>2. ASSUME NEW i \in DOMAIN node
          PROVE  [j \in DOMAIN node[i] |-> Fixed(node[i][j])] \in Seq(Reference)
                   /\ node[i] \in Seq(Reference)
      <4>1. PICK m \in Seq(Reference) : m = node[i]
        BY <3>1
      <4>2. \A j \in 1 .. Len(m) : Fixed(m[j]) \in Reference
        BY <1>2
      <4>3. [j \in 1 .. Len(m) |-> Fixed(m[j])] \in Seq(Reference)
        BY <4>2
      <4>. QED
        BY <4>1, <4>3
    <3>3. PICK len \in Nat : DOMAIN node = 1 .. len
      BY <3>1
    <3>4. \A i \in 1 .. len : fixHTMLNodeURL(node)[i] \in Seq(Reference)
      BY <3>2, <3>3 DEF fixHTMLNodeURL
    <3>5. fixHTMLNodeURL(node) = [i \in 1 .. len |-> fixHTMLNodeURL(node)[i]]
      BY <3>3 DEF fixHTMLNodeURL
    <3>. QED
      BY <2>1, <3>3, <3>4, <3>5
  <2>3. TypeOK'
    <3>1. Adjusted(node) \in BOOLEAN
      BY DEF Adjusted
    <3>. QED
      BY <2>1, <2>2, <3>1 DEF TypeOK
  <2>4. Beginning' /\ BaseWaits' /\ BareOnlyFromBase'
    BY <2>1 DEF Beginning, BaseWaits, BareOnlyFromBase
  <2>. QED
    BY <2>3, <2>4
<1>6. CASE FixBase
  <2>1. /\ stage' = stage /\ stage = "parsed" /\ todo' \subseteq todo
        /\ base' = FixedAlone(base) /\ changed' = (changed \/ base' # base)
        /\ doc.kind = "html" /\ BasePlace \in todo
        /\ doc' = doc /\ node' = node /\ source' = source /\ found' = found /\ again' = again
    BY <1>6 DEF FixBase
  <2>2. base \in Reference /\ base # NoBase
    BY <2>1 DEF TypeOK, BaseWaits
  <2>3. base' \in Reference /\ base' # NoBase
    BY <1>2, <2>1, <2>2, LinksAssumption
  <2>4. TypeOK'
    BY <2>1, <2>3 DEF TypeOK
  <2>5. Beginning' /\ BaseWaits' /\ BareOnlyFromBase'
    BY <2>1, <2>3 DEF Beginning, BaseWaits, BareOnlyFromBase
  <2>. QED
    BY <2>4, <2>5
<1>7. CASE ReplaceToken
  <2>1. PICK token \in todo :
          /\ todo' = todo \ {token}
          /\ node' = [i \in DOMAIN node |-> [j \in DOMAIN node[i] |->
                          IF node[i][j] = token THEN FixedToken(token) ELSE node[i][j]]]
    BY <1>7 DEF ReplaceToken
  <2>2. /\ stage' = stage /\ stage = "parsed" /\ doc.kind = "css"
        /\ doc' = doc /\ base' = base /\ source' = source /\ found' = found /\ again' = again
        /\ changed' = changed
    BY <1>7 DEF ReplaceToken
  <2>3. token \in Reference
    BY <2>1, <2>2, TokensType DEF TypeOK
  <2>4. node' \in Seq(Seq(Reference)) /\ DOMAIN node' = DOMAIN node
    <3>1. node \in Seq(Seq(Reference))
      BY DEF TypeOK
    <3>2. ASSUME NEW i \in DOMAIN node
          PROVE  [j \in DOMAIN node[i] |->
                     IF node[i][j] = token THEN FixedToken(token) ELSE node[i][j]]
                   \in Seq(Reference)
      <4>1. PICK m \in Seq(Reference) : m = node[i]
        BY <3>1
      <4>2. \A j \in 1 .. Len(m) :
              (IF m[j] = token THEN FixedToken(token) ELSE m[j]) \in Reference
        BY <1>2, <2>3
      <4>3. [j \in 1 .. Len(m) |-> IF m[j] = token THEN FixedToken(token) ELSE m[j]]
              \in Seq(Reference)
        BY <4>2
      <4>. QED
        BY <4>1, <4>3
    <3>3. PICK len \in Nat : DOMAIN node = 1 .. len
      BY <3>1
    <3>. QED
      BY <2>1, <3>2, <3>3
  <2>5. TypeOK'
    BY <2>1, <2>2, <2>4 DEF TypeOK
  <2>6. Beginning' /\ BaseWaits' /\ BareOnlyFromBase'
    BY <2>1, <2>2 DEF Beginning, BaseWaits, BareOnlyFromBase
  <2>. QED
    BY <2>5, <2>6
<1>8. CASE Store
  <2>1. /\ stage' = "stored" /\ node' \in {node, source}
        /\ UNCHANGED <<doc, base, source, changed, todo, found, again>>
    BY <1>8 DEF Store
  <2>. QED
    BY <2>1 DEF TypeOK, Beginning, BaseWaits, BareOnlyFromBase
<1>9. CASE Reread
  <2>1. /\ stage' = "reread" /\ (again' = FindReferences(base, node) \/ again' = {})
        /\ doc' = doc /\ base' = base /\ node' = node /\ source' = source
        /\ todo' = todo /\ found' = found /\ changed' = changed
    BY <1>9 DEF Reread
  <2>2. TypeOK'
    BY <1>3, <2>1 DEF TypeOK
  <2>3. Beginning' /\ BaseWaits' /\ BareOnlyFromBase'
    BY <1>3, <2>1 DEF Beginning, BaseWaits, BareOnlyFromBase
  <2>. QED
    BY <2>2, <2>3
<1>10. CASE UNCHANGED vars
  BY <1>10 DEF vars, TypeOK, Beginning, BaseWaits, BareOnlyFromBase
<1>. QED
  BY <1>4, <1>5, <1>6, <1>7, <1>8, <1>9, <1>10 DEF Next, Done

\* The invariant holds for every document, whatever it contains.
THEOREM Invariant == Spec => []IInv
<1>. QED
  BY InitIInv, NextIInv, PTL DEF Spec

\* Whatever is rewritten, and in whatever order, is a document with as many attributes,
\* and the crawl is told URLs (html.go:44-118, css.go:18-72).
THEOREM TypeCorrect == Spec => []TypeOK
<1>1. IInv => TypeOK
  BY DEF IInv
<1>. QED
  BY Invariant, <1>1, PTL

\* The coordinator follows a reference without host only if it comes from a document
\* with a base element, in the first run and when the copy is read again
\* (htmlindex.go:29-35, checks.go:11).
THEOREM BareReferences == Spec => []BareOnlyFromBase
<1>1. IInv => BareOnlyFromBase
  BY DEF IInv
<1>. QED
  BY Invariant, <1>1, PTL

-------------------------------------------------------------------------------
(* Where a rewritten link leads *)

\* From the directory of a file, the levels up and the rest of the path lead to a path
\* that does not go through the file.
LEMMA UpAndDown ==
    ASSUME NEW S, NEW file \in Seq(S), NEW target \in Seq(S), file # <<>>,
           ~IsPrefix(file, target),
           NEW n, n = InCommon(target, file)
    PROVE  /\ n \in 0 .. Len(target) /\ n < Len(file)
           /\ Climb(Front(file), Levels(Len(file) - n)) = SubSeq(target, 1, n)
           /\ Levels(Len(file) - n) = 0 /\ n = Len(target) => target = Front(file)
<1>1. /\ n \in 0 .. Len(target) /\ n <= Len(file)
      /\ SubSeq(target, 1, n) = SubSeq(file, 1, n)
  BY InCommonProperties
<1>2. n < Len(file)
  BY <1>1 DEF IsPrefix
<1>3. Levels(Len(file) - n) = Len(file) - n - 1
  BY <1>1, <1>2 DEF Levels
<1>4. Climb(Front(file), Len(file) - n - 1) = SubSeq(file, 1, n)
  <2>1. n \in 0 .. Len(file) - 1
    BY <1>1, <1>2
  <2>. QED
    BY <2>1, ClimbFront
<1>5. ASSUME Levels(Len(file) - n) = 0, n = Len(target) PROVE target = Front(file)
  <2>1. n = Len(file) - 1
    BY <1>1, <1>2, <1>3, <1>5
  <2>2. SubSeq(target, 1, Len(target)) = target
    BY BeginningAndEnd, SubSeqFull
  <2>. QED
    BY <1>1, <1>5, <2>1, <2>2 DEF Front
<1>. QED
  BY <1>1, <1>2, <1>3, <1>4, <1>5

\* A sequence and one that it begins with have all of the latter in common.
LEMMA InCommonWithBeginning ==
    ASSUME NEW S, NEW s \in Seq(S), NEW t \in Seq(S), Len(s) <= Len(t),
           \A i \in 1 .. Len(s) : s[i] = t[i]
    PROVE  InCommon(s, t) = Len(s)
<1>1. PICK n : n = InCommon(s, t)
  OBVIOUS
<1>2. n \in 0 .. Len(s) /\ n <= Len(t) /\ (n < Len(s) /\ n < Len(t) => s[n + 1] # t[n + 1])
  BY <1>1, InCommonProperties
<1>3. ASSUME n < Len(s) PROVE FALSE
  <2>1. n < Len(t) /\ n + 1 \in 1 .. Len(s)
    BY <1>2, <1>3
  <2>. QED
    BY <1>2, <1>3, <2>1
<1>. QED
  BY <1>1, <1>2, <1>3

\* What is left of a sequence behind its end.
LEMMA BehindTheEnd ==
    ASSUME NEW S, NEW s \in Seq(S)
    PROVE  SubSeq(s, Len(s) + 1, Len(s)) = <<>>
<1>1. Len(s) \in Int /\ Len(s) + 1 \in Int /\ Len(s) < Len(s) + 1
  OBVIOUS
<1>. QED
  BY <1>1, SubSeqEmpty

\* The levels up and the rest of the way from a file to a target: none if that is the
\* directory of the file or the file; else they lead to the target, if the way does not
\* go through the file.
LEMMA WayToTarget ==
    ASSUME NEW S, NEW file \in Seq(S), file # <<>>, NEW target \in Seq(S),
           NEW n, n = InCommon(target, file)
    PROVE  LET rest == SubSeq(target, n + 1, Len(target))
           IN  /\ n \in 0 .. Len(target) /\ n <= Len(file) /\ Levels(Len(file) - n) \in Nat
               /\ target = Front(file) \/ target = file =>
                    Levels(Len(file) - n) = 0 /\ rest = <<>>
               /\ target # Front(file) /\ ~IsPrefix(file, target) =>
                    /\ ~(Levels(Len(file) - n) = 0 /\ rest = <<>>)
                    /\ Climb(Front(file), Levels(Len(file) - n)) \o rest = target
<1>1. PICK dir \in Seq(S), x \in S : file = Append(dir, x)
  BY SequenceEmptyOrAppend
<1>2. /\ Len(file) = Len(dir) + 1 /\ Front(file) = dir
      /\ \A i \in 1 .. Len(dir) : file[i] = dir[i]
  BY <1>1, AppendProperties, FrontOfAppend
<1>3. PICK rest : rest = SubSeq(target, n + 1, Len(target))
  OBVIOUS
<1>4. n \in 0 .. Len(target) /\ n <= Len(file)
  BY InCommonProperties
<1>5. Len(target) \in Nat /\ Len(file) \in Nat /\ Len(dir) \in Nat
  OBVIOUS
<1>6. Levels(Len(file) - n) \in Nat
  BY <1>4, <1>5 DEF Levels
<1>7. ASSUME target = dir \/ target = file PROVE Levels(Len(file) - n) = 0 /\ rest = <<>>
  <2>1. Len(target) <= Len(file) /\ \A i \in 1 .. Len(target) : target[i] = file[i]
    BY <1>2, <1>5, <1>7
  <2>2. n = Len(target)
    BY <2>1, InCommonWithBeginning
  <2>3. Len(file) - n \in {0, 1}
    BY <1>2, <1>5, <1>7, <2>2
  <2>4. Levels(Len(file) - n) = 0
    BY <2>3 DEF Levels
  <2>5. rest = <<>>
    BY <1>3, <2>2, BehindTheEnd
  <2>. QED
    BY <2>4, <2>5
<1>8. ASSUME target # dir, ~IsPrefix(file, target)
      PROVE  /\ ~(Levels(Len(file) - n) = 0 /\ rest = <<>>)
             /\ Climb(dir, Levels(Len(file) - n)) \o rest = target
  <2>1. /\ Climb(Front(file), Levels(Len(file) - n)) = SubSeq(target, 1, n)
        /\ Levels(Len(file) - n) = 0 /\ n = Len(target) => target = Front(file)
    BY <1>8, UpAndDown
  <2>2. Len(rest) = Len(target) - n /\ SubSeq(target, 1, n) \o rest = target
    BY <1>3, <1>4, BeginningAndEnd
  <2>3. rest = <<>> => n = Len(target)
    <3>1. rest = <<>> => Len(rest) = 0
      OBVIOUS
    <3>. QED
      BY <1>4, <1>5, <2>2, <3>1
  <2>. QED
    BY <1>2, <1>8, <2>1, <2>2, <2>3
<1>. QED
  BY <1>2, <1>3, <1>4, <1>6, <1>7, <1>8

\* So is the link from a page to a URL.
LEMMA RelativeLink ==
    ASSUME NEW from \in URL, NEW url \in URL
    PROVE  LET target == Trim(url.path)
               file == GetPageFilePath(from)
               dir == Front(from.path)
               rel == urlRelativeToOther(url, from)
           IN  /\ rel = [up |-> rel.up, path |-> rel.path]
               /\ rel.up \in Nat /\ rel.path \in Plain
               /\ target = dir \/ target = file => rel.up = 0 /\ rel.path = <<>>
               /\ target # dir /\ ~IsPrefix(file, target) =>
                    /\ ~(rel.up = 0 /\ rel.path = <<>>)
                    /\ Climb(dir, rel.up) \o rel.path = target
<1>1. PICK target \in Plain : target = Trim(url.path) /\ target \in Seq(Name)
  BY PathParts, PlainPath DEF URL
<1>2. PICK dir \in Seq(Name) : dir = Front(from.path)
  BY PathParts, PlainPath DEF URL
<1>3. PICK x : GetPageFilePath(from) = Append(dir, x)
  BY <1>2, FileInDirectory
<1>4. PICK S : S = Name \union {x}
  OBVIOUS
<1>5. dir \in Seq(S) /\ target \in Seq(S) /\ x \in S
  BY <1>1, <1>2, <1>4
<1>6. PICK file \in Seq(S) : file = GetPageFilePath(from) /\ file # <<>> /\ Front(file) = dir
  <2>1. PICK file : file = Append(dir, x)
    OBVIOUS
  <2>2. file \in Seq(S) /\ file # <<>> /\ Front(file) = dir
    BY <1>5, <2>1, AppendProperties, FrontOfAppend
  <2>. QED
    BY <1>3, <2>1, <2>2
<1>7. PICK n, rest : n = InCommon(target, file) /\ rest = SubSeq(target, n + 1, Len(target))
  OBVIOUS
<1>8. /\ n \in 0 .. Len(target) /\ n <= Len(file) /\ Levels(Len(file) - n) \in Nat
      /\ target = Front(file) \/ target = file => Levels(Len(file) - n) = 0 /\ rest = <<>>
      /\ target # Front(file) /\ ~IsPrefix(file, target) =>
           /\ ~(Levels(Len(file) - n) = 0 /\ rest = <<>>)
           /\ Climb(Front(file), Levels(Len(file) - n)) \o rest = target
  BY <1>5, <1>6, <1>7, WayToTarget
<1>9. rest \in Plain
  BY <1>1, <1>7, <1>8, PlainCut
<1>10. PICK rel : rel = urlRelativeToOther(url, from)
  OBVIOUS
<1>11. rel = [up |-> Levels(Len(file) - n), path |-> rest]
  BY <1>1, <1>6, <1>7, <1>10 DEF urlRelativeToOther
<1>12. rel.up = Levels(Len(file) - n) /\ rel.path = rest
  BY <1>11
<1>13. /\ rel = [up |-> rel.up, path |-> rel.path] /\ rel.up \in Nat /\ rel.path \in Plain
       /\ target = dir \/ target = file => rel.up = 0 /\ rel.path = <<>>
       /\ target # dir /\ ~IsPrefix(file, target) =>
            /\ ~(rel.up = 0 /\ rel.path = <<>>)
            /\ Climb(dir, rel.up) \o rel.path = target
  BY <1>6, <1>8, <1>9, <1>11, <1>12
<1>. QED
  BY <1>1, <1>2, <1>6, <1>10, <1>13

\* A link that ends with levels up gets a slash at its end, which does not matter.
LEMMA EndOfLink ==
    ASSUME NEW p \in Plain, NEW q \in Plain,
           NEW whole, whole = p \o (IF q = <<>> THEN <<Slash>> ELSE q)
    PROVE  /\ whole \in {p \o q, Append(p \o q, Slash)}
           /\ p \o q \in Plain /\ Trim(whole) = p \o q
<1>1. p \in Seq(Name) /\ q \in Seq(Name) /\ Slash \in Name /\ Len(p) \in Nat /\ Len(q) \in Nat
  BY LinksAssumption DEF Plain
<1>2. p \o q \in Plain
  <2>1. PICK r : r = p \o q
    OBVIOUS
  <2>2. /\ r \in Seq(Name) /\ Len(r) = Len(p) + Len(q)
        /\ \A i \in 1 .. Len(p) + Len(q) : r[i] = IF i <= Len(p) THEN p[i] ELSE q[i - Len(p)]
    BY <1>1, <2>1, ConcatProperties
  <2>3. ASSUME NEW i \in 1 .. Len(r) PROVE r[i] # Slash
    <3>1. CASE i <= Len(p)
      <4>1. i \in 1 .. Len(p) /\ r[i] = p[i]
        BY <1>1, <2>2, <3>1
      <4>. QED
        BY <4>1 DEF Plain
    <3>2. CASE ~(i <= Len(p))
      <4>1. i - Len(p) \in 1 .. Len(q) /\ r[i] = q[i - Len(p)]
        BY <1>1, <2>2, <3>2
      <4>. QED
        BY <4>1 DEF Plain
    <3>. QED
      BY <3>1, <3>2
  <2>. QED
    BY <2>1, <2>2, <2>3 DEF Plain
<1>3. CASE q = <<>>
  <2>1. p \o q = p /\ whole = Append(p, Slash)
    BY <1>1, <1>3, ConcatEmptySeq, AppendIsConcat
  <2>. QED
    BY <1>2, <2>1, PlainPath
<1>4. CASE q # <<>>
  BY <1>2, <1>4, PlainPath
<1>. QED
  BY <1>3, <1>4

\* Where a link with levels up or a path leads.
Link(up, path, query) == [Nothing EXCEPT !.up = up, !.path = path, !.query = query]
LEMMA ResolveLink ==
    ASSUME NEW from \in URL, NEW up \in Nat, NEW path \in Plain, NEW query,
           ~(up = 0 /\ path = <<>>)
    PROVE  LET url == ResolveReference(from, Link(up, path, query))
               way == Climb(Front(from.path), up) \o path
           IN  /\ url.host = from.host /\ url.query = query
               /\ url.path = way \/ url.path = Append(way, Slash)
               /\ Trim(url.path) = way
<1>1. PICK link : link = Link(up, path, query)
  OBVIOUS
<1>2. link.form = "relative" /\ link.up = up /\ link.path = path /\ link.query = query
  BY <1>1 DEF Link, Nothing
<1>3. PICK climb \in Plain : climb = Climb(Front(from.path), up)
  BY PathParts, PlainCut DEF URL
<1>4. PICK whole : whole = climb \o (IF path = <<>> THEN <<Slash>> ELSE path)
  OBVIOUS
<1>5. PICK url : url = ResolveReference(from, link)
  OBVIOUS
<1>6. url = [host |-> from.host, path |-> whole, query |-> query]
  BY <1>2, <1>3, <1>4, <1>5 DEF ResolveReference
<1>7. whole \in {climb \o path, Append(climb \o path, Slash)} /\ Trim(whole) = climb \o path
  BY <1>4, EndOfLink
<1>8. url.path = whole
  BY <1>6
<1>. QED
  BY <1>1, <1>3, <1>5, <1>6, <1>7, <1>8

\* A reference that leads to the site, but neither to the directory in which the page is
\* nor through the name of the page's own file, is replaced by a link that leads there
\* from the page, up to a slash at the end: for every page, reference and query string,
\* at any depth (url.go:20-42, 56-94).
THEOREM LinkLeadsBack ==
    ASSUME NEW from \in URL, NEW r \in Reference, NEW up \in Nat,
           NEW was, was = ResolveReference(from, r),
           from.host = StartHost, was.host = StartHost,
           Trim(was.path) # Front(from.path),
           ~IsPrefix(GetPageFilePath(from), Trim(was.path))
    PROVE  LET now == ResolveReference(from, resolveURL(from, r, up))
           IN  /\ now.host = was.host /\ now.query = was.query
               /\ now.path \in {Trim(was.path), Append(Trim(was.path), Slash)}
<1>1. was \in URL
  BY ResolveType
<1>2. PICK rel : rel = urlRelativeToOther(was, from)
  OBVIOUS
<1>3. /\ rel.up \in Nat /\ rel.path \in Plain /\ ~(rel.up = 0 /\ rel.path = <<>>)
      /\ Climb(Front(from.path), rel.up) \o rel.path = Trim(was.path)
  BY <1>1, <1>2, RelativeLink
<1>4. ~PointsElsewhere(r)
  BY HostOfReference DEF PointsElsewhere
<1>5. resolveURL(from, r, up) = Link(rel.up, rel.path, was.query)
  <2>1. resolveURL(from, r, up) =
          LET way == urlRelativeToOther(was, from)
          IN  [Nothing EXCEPT !.up = way.up, !.path = way.path, !.query = was.query]
    BY <1>4 DEF resolveURL
  <2>. QED
    BY <1>2, <2>1 DEF Link
<1>6. PICK levels \in Nat : levels = rel.up
  BY <1>3
<1>7. PICK path \in Plain : path = rel.path
  BY <1>3
<1>8. PICK link, now : link = Link(levels, path, was.query) /\ now = ResolveReference(from, link)
  OBVIOUS
<1>9. PICK way : way = Climb(Front(from.path), levels) \o path
  OBVIOUS
<1>10. ~(levels = 0 /\ path = <<>>)
  BY <1>3, <1>6, <1>7
<1>11. /\ now.host = from.host /\ now.query = was.query
       /\ now.path = way \/ now.path = Append(way, Slash)
  BY <1>8, <1>9, <1>10, ResolveLink
<1>12. way = Trim(was.path)
  BY <1>3, <1>6, <1>7, <1>9
<1>. QED
  BY <1>5, <1>6, <1>7, <1>8, <1>11, <1>12

-------------------------------------------------------------------------------
(* What takes the place of a reference *)

\* What a reference is rewritten to, in a page or in a style sheet, and the references
\* that rewriting once and twice give the same for.
Rewritten(r) == IF doc.kind = "css" THEN FixedToken(r) ELSE Fixed(r)
Stable(r) == Rewritten(Rewritten(r)) = Rewritten(r)

\* Rewriting starts from a URL in the directory of the document.
LEMMA FromType ==
    ASSUME doc \in Documents
    PROVE  /\ doc.url \in URL /\ doc.url.path \in Path /\ From \in URL
           /\ From.host = doc.url.host /\ From.query = doc.url.query
           /\ Front(From.path) = Front(doc.url.path) /\ Front(doc.url.path) \in Plain
           /\ doc.kind = "html" => From = doc.url
           /\ doc.kind = "css" => Trim(From.path) = Front(doc.url.path)
           /\ doc.kind \in {"html", "css"} /\ urlRelativeToRoot(doc.url) \in Nat
<1>1. /\ doc.url \in URL /\ doc.kind \in {"html", "css"} /\ StyleDirectory \in URL
      /\ urlRelativeToRoot(doc.url) \in Nat
  BY DocumentType
<1>2. PICK dir \in Plain : dir = Front(doc.url.path)
  BY <1>1, PathParts DEF URL
<1>3. Front(Append(dir, Slash)) = dir /\ Trim(Append(dir, Slash)) = dir
  BY PlainPath
<1>4. PICK u \in URL : u = doc.url
  BY <1>1
<1>5. /\ StyleDirectory.host = u.host /\ StyleDirectory.query = u.query
      /\ StyleDirectory.path = Append(dir, Slash) /\ u.path \in Path
  BY <1>2, <1>4 DEF StyleDirectory, URL
<1>. QED
  BY <1>1, <1>2, <1>3, <1>4, <1>5 DEF From

\* A link is a reference to the host of the document.
LEMMA LinkType ==
    ASSUME NEW up \in Nat, NEW path \in Path, NEW query \in Query
    PROVE  /\ Link(up, path, query) \in Reference /\ ~PointsElsewhere(Link(up, path, query))
           /\ Link(up, path, query).form = "relative"
<1>1. NoHost \in Hosts \ {OtherScheme}
  BY LinksAssumption
<1>. QED
  BY <1>1 DEF Link, Nothing, Reference, PointsElsewhere

\* What does not point to another host is rewritten to the link from the document.
LEMMA RewrittenOnSite ==
    ASSUME doc \in Documents, doc.url.host = StartHost,
           NEW r \in Reference, ~PointsElsewhere(r), r.host # OtherScheme
    PROVE  LET url == ResolveReference(From, r)
               rel == urlRelativeToOther(url, From)
           IN  /\ url \in URL /\ url.host = StartHost
               /\ Rewritten(r) = Link(rel.up, rel.path, url.query)
<1>1. PICK url \in URL : url = ResolveReference(From, r)
  BY FromType, ResolveType
<1>2. url.host = StartHost
  BY <1>1, FromType, HostOfReference DEF PointsElsewhere
<1>3. ASSUME NEW root
      PROVE  resolveURL(From, r, root) =
               LET rel == urlRelativeToOther(url, From)
               IN  Link(rel.up, rel.path, url.query)
  BY <1>1, <1>2 DEF resolveURL, Link
<1>4. Rewritten(r) \in {resolveURL(From, r, 0), resolveURL(From, r, urlRelativeToRoot(doc.url))}
  <2>1. CASE doc.kind = "css"
    BY <2>1 DEF Rewritten, FixedToken, From
  <2>2. CASE doc.kind # "css"
    BY <2>2 DEF Rewritten, Fixed, From
  <2>. QED
    BY <2>1, <2>2
<1>. QED
  BY <1>1, <1>2, <1>3, <1>4

\* What points to another host stays as it is.
LEMMA RewrittenElsewhere ==
    ASSUME NEW r, PointsElsewhere(r)
    PROVE  Rewritten(r) = r /\ Stable(r)
BY DEF Rewritten, FixedToken, Fixed, resolveURL, Stable

\* A path that goes through the file of the document, and is that of the document, is
\* the file.
LEMMA ThroughItself ==
    ASSUME NEW S, NEW p \in Seq(S), NEW file \in Seq(S),
           Len(p) <= Len(file), IsPrefix(file, p)
    PROVE  p = file
<1>1. /\ Len(file) <= Len(p) /\ Len(p) \in Nat /\ Len(file) \in Nat
      /\ SubSeq(file, 1, Len(file)) = SubSeq(p, 1, Len(file))
  BY DEF IsPrefix
<1>2. Len(file) = Len(p)
  BY <1>1
<1>. QED
  BY <1>1, <1>2, SubSeqFull

\* Without its slash a path is at most one segment longer than its directory.
LEMMA TrimmedLength ==
    ASSUME NEW p \in Path
    PROVE  Len(Trim(p)) <= Len(Front(p)) + 1
<1>1. p \in Seq(Name) /\ Len(p) \in Nat
  BY DEF Path
<1>2. CASE p = <<>>
  <2>1. Trim(p) = <<>> /\ Front(p) = <<>> /\ Len(<<>>) = 0
    BY <1>1, <1>2, FrontOfPath, EmptySeq DEF Trim, EndsWithSlash
  <2>. QED
    BY <2>1
<1>3. CASE p # <<>>
  <2>1. Len(Front(p)) = Len(p) - 1
    BY <1>1, <1>3, FrontOfPath
  <2>. QED
    BY <1>1, <2>1 DEF Trim
<1>. QED
  BY <1>2, <1>3

\* The link that takes the place of a reference to the site which is not spoilt: an empty
\* one that leads to the document itself, or the way to the target; and it stays as it is
\* when it is rewritten again.
LEMMA LinkForms ==
    ASSUME doc \in Documents, doc.url.host = StartHost,
           NEW r \in Reference, ~PointsElsewhere(r),
           NEW target, target = ResolveReference(doc.url, r), ~Spoilt(target)
    PROVE  /\ target \in URL /\ target.host = StartHost
           /\ Stable(r)
           /\ \/ Rewritten(r) = Link(0, <<>>, target.query) /\ Itself(target)
              \/ \E up \in Nat, path \in Plain :
                    /\ Rewritten(r) = Link(up, path, target.query) /\ ~(up = 0 /\ path = <<>>)
                    /\ Climb(Front(doc.url.path), up) \o path = Trim(target.path)
<1>1. /\ doc.url \in URL /\ doc.url.path \in Path /\ From \in URL
      /\ From.host = doc.url.host /\ From.query = doc.url.query
      /\ Front(From.path) = Front(doc.url.path) /\ Front(doc.url.path) \in Plain
      /\ doc.kind = "html" => From = doc.url
      /\ doc.kind = "css" => Trim(From.path) = Front(doc.url.path)
      /\ doc.kind \in {"html", "css"}
  BY FromType
<1>2. target \in URL
  BY <1>1, ResolveType
<1>3. target.host = StartHost /\ r.host # OtherScheme
  <2>1. r.host # OtherScheme
    <3>1. r.host = OtherScheme => target.host = OtherScheme
      BY <1>1, HostOfReference, LinksAssumption DEF Reference
    <3>. QED
      BY <3>1 DEF Spoilt
  <2>. QED
    BY <1>1, <2>1, HostOfReference DEF PointsElsewhere
<1>4. PICK src \in URL : src = ResolveReference(From, r)
  BY <1>1, ResolveType
<1>5. PICK dir \in Plain : dir = Front(doc.url.path)
  BY <1>1
<1>6. PICK file : file = GetPageFilePath(From)
  OBVIOUS
<1>7. PICK rel : rel = urlRelativeToOther(src, From)
  OBVIOUS
<1>8. Rewritten(r) = Link(rel.up, rel.path, src.query)
  BY <1>3, <1>4, <1>7, RewrittenOnSite
<1>9. /\ rel.up \in Nat /\ rel.path \in Plain
      /\ Trim(src.path) = dir \/ Trim(src.path) = file => rel.up = 0 /\ rel.path = <<>>
      /\ Trim(src.path) # dir /\ ~IsPrefix(file, Trim(src.path)) =>
           ~(rel.up = 0 /\ rel.path = <<>>) /\ Climb(dir, rel.up) \o rel.path = Trim(src.path)
  BY <1>1, <1>4, <1>5, <1>6, <1>7, RelativeLink
<1>10. ASSUME NEW url, url.path = src.path \/ Trim(url.path) = Trim(src.path)
       PROVE  urlRelativeToOther(url, From) = rel
  BY <1>7, <1>10 DEF urlRelativeToOther
<1>11. /\ Rewritten(r) \in Reference /\ ~PointsElsewhere(Rewritten(r))
       /\ Rewritten(r).host # OtherScheme
  <2>1. src.query \in Query /\ rel.path \in Path
    BY <1>9, PlainPath DEF URL
  <2>2. Link(rel.up, rel.path, src.query).host # OtherScheme
    BY LinksAssumption DEF Link, Nothing
  <2>. QED
    BY <1>8, <1>9, <2>1, <2>2, LinkType
<1>12. src.query = target.query
  BY <1>1, <1>4 DEF ResolveReference, Reference, URL
\* From the second time on, a link is rewritten to what it is rewritten to.
<1>13. ASSUME NEW url, url = ResolveReference(From, Rewritten(r)),
              urlRelativeToOther(url, From).up = rel.up,
              urlRelativeToOther(url, From).path = rel.path, url.query = target.query
       PROVE  Stable(r)
  <2>1. Rewritten(Rewritten(r)) =
          Link(urlRelativeToOther(url, From).up, urlRelativeToOther(url, From).path, url.query)
    BY <1>11, <1>13, RewrittenOnSite
  <2>. QED
    BY <1>8, <1>12, <1>13, <2>1 DEF Stable
\* The link to the document itself.
<1>14. ASSUME rel.up = 0, rel.path = <<>>, Itself(target),
              Trim(From.path) = dir \/ Trim(From.path) = file
       PROVE  Stable(r) /\ Rewritten(r) = Link(0, <<>>, target.query)
  <2>1. Rewritten(r) = Link(0, <<>>, target.query)
    BY <1>8, <1>12, <1>14
  <2>2. PICK link : link = Link(0, <<>>, target.query)
    OBVIOUS
  <2>3. link.form = "relative" /\ link.up = 0 /\ link.path = <<>> /\ link.query = target.query
    BY <2>2 DEF Link, Nothing
  <2>4. PICK from \in URL : from = From
    BY <1>1
  <2>5. PICK url : url = ResolveReference(from, link)
    OBVIOUS
  <2>6. url = [from EXCEPT !.query = IF link.query = <<>> THEN @ ELSE link.query]
    BY <2>3, <2>5 DEF ResolveReference
  <2>7. url.path = from.path /\ url.query = target.query
    <3>1. target.query = <<>> => from.query = <<>>
      BY <1>1, <1>14, <2>4 DEF Itself
    <3>. QED
      BY <2>3, <2>6, <3>1 DEF URL
  <2>8. urlRelativeToOther(url, From).up = 0 /\ urlRelativeToOther(url, From).path = <<>>
    <3>1. url \in URL
      BY <1>1, <1>11, <2>1, <2>2, <2>4, <2>5, ResolveType
    <3>2. Trim(url.path) = dir \/ Trim(url.path) = file
      BY <1>14, <2>4, <2>7
    <3>. QED
      BY <1>1, <1>5, <1>6, <3>1, <3>2, RelativeLink
  <2>. QED
    BY <1>13, <1>14, <2>1, <2>2, <2>4, <2>5, <2>7, <2>8
\* A reference without path, in a style sheet.
<1>15. CASE doc.kind = "css" /\ (r.form = "fragment"
                                  \/ (r.form = "relative" /\ r.up = 0 /\ r.path = <<>>))
  <2>1. src.path = From.path
    BY <1>1, <1>4, <1>15 DEF ResolveReference, URL
  <2>2. target.path = doc.url.path
    BY <1>1, <1>15 DEF ResolveReference, URL
  <2>3. target.query = <<>> => doc.url.query = <<>>
    BY <1>1, <1>15 DEF ResolveReference, URL
  <2>4. Itself(target)
    BY <2>2, <2>3 DEF Itself
  <2>5. rel.up = 0 /\ rel.path = <<>>
    BY <1>1, <1>5, <1>9, <1>15, <2>1
  <2>. QED
    BY <1>1, <1>2, <1>3, <1>5, <1>14, <1>15, <2>4, <2>5
<1>16. CASE ~(doc.kind = "css" /\ (r.form = "fragment"
                                    \/ (r.form = "relative" /\ r.up = 0 /\ r.path = <<>>)))
  <2>1. src = target
    <3>1. CASE doc.kind = "html"
      BY <1>1, <1>4, <3>1
    <3>2. CASE doc.kind = "css"
      BY <1>1, <1>4, <1>16, <3>2 DEF ResolveReference, Reference
    <3>. QED
      BY <1>1, <3>1, <3>2
  <2>2. CASE Trim(target.path) = dir \/ IsPrefix(file, Trim(target.path))
    <3>1. Itself(target) /\ target.path = doc.url.path
      BY <1>5, <1>6, <2>2 DEF Spoilt, Itself
    <3>2. Trim(target.path) = dir \/ Trim(target.path) = file
      <4>1. SUFFICES ASSUME IsPrefix(file, Trim(target.path)) PROVE Trim(target.path) = file
        BY <2>2
      <4>2. PICK p \in Plain : p = Trim(target.path)
        BY <1>1, <3>1, PathParts
      <4>3. Len(p) <= Len(dir) + 1
        BY <1>1, <1>5, <3>1, <4>2, TrimmedLength
      <4>4. PICK x : file = Append(dir, x)
        BY <1>1, <1>5, <1>6, FileInDirectory
      <4>5. PICK S : S = Name \union {x}
        OBVIOUS
      <4>6. p \in Seq(S) /\ dir \in Seq(S) /\ x \in S
        BY <4>2, <4>5 DEF Plain
      <4>7. file \in Seq(S) /\ Len(file) = Len(dir) + 1
        BY <4>4, <4>6, AppendProperties
      <4>. QED
        BY <4>1, <4>2, <4>3, <4>6, <4>7, ThroughItself
    <3>3. rel.up = 0 /\ rel.path = <<>>
      BY <1>9, <2>1, <3>2
    <3>4. Trim(From.path) = dir \/ Trim(From.path) = file
      BY <1>1, <1>5, <3>1, <3>2
    <3>. QED
      BY <1>2, <1>3, <1>14, <3>1, <3>3, <3>4
  <2>3. CASE Trim(target.path) # dir /\ ~IsPrefix(file, Trim(target.path))
    <3>1. /\ ~(rel.up = 0 /\ rel.path = <<>>)
          /\ Climb(dir, rel.up) \o rel.path = Trim(target.path)
      BY <1>9, <2>1, <2>3
    <3>2. Rewritten(r) = Link(rel.up, rel.path, target.query)
      BY <1>8, <1>12
    <3>3. PICK url : url = ResolveReference(From, Rewritten(r))
      OBVIOUS
    <3>4. url.query = target.query /\ Trim(url.path) = Climb(dir, rel.up) \o rel.path
      <4>1. PICK up \in Nat : up = rel.up
        BY <1>9
      <4>2. PICK path \in Plain : path = rel.path
        BY <1>9
      <4>3. PICK from \in URL : from = From
        BY <1>1
      <4>4. PICK way : way = Climb(Front(from.path), up) \o path
        OBVIOUS
      <4>5. ~(up = 0 /\ path = <<>>) /\ url = ResolveReference(from, Link(up, path, target.query))
        BY <3>1, <3>2, <3>3, <4>1, <4>2, <4>3
      <4>6. url.query = target.query /\ Trim(url.path) = way
        BY <4>4, <4>5, ResolveLink
      <4>. QED
        BY <1>1, <1>5, <4>1, <4>2, <4>3, <4>4, <4>6
    <3>5. url.query = target.query /\ urlRelativeToOther(url, From) = rel
      BY <1>10, <2>1, <3>1, <3>4
    <3>6. Stable(r)
      BY <1>13, <3>3, <3>5
    <3>. QED
      BY <1>2, <1>3, <1>5, <1>9, <3>1, <3>2, <3>6
  <2>. QED
    BY <2>2, <2>3
<1>. QED
  BY <1>15, <1>16

\* On another host than that of the start page, what is not absolute is rewritten to a
\* link to the root and from there.
LEMMA RewrittenOffSite ==
    ASSUME doc \in Documents, doc.kind = "html", doc.url.host # StartHost,
           NEW r \in Reference, r.form # "absolute"
    PROVE  LET url == ResolveReference(doc.url, r)
           IN  /\ url \in URL
               /\ Rewritten(r) = Link(Len(Front(doc.url.path)),
                                      IF url.path = <<Slash>> THEN <<>> ELSE url.path, url.query)
<1>1. PICK url \in URL : url = ResolveReference(doc.url, r)
  BY FromType, ResolveType
<1>2. url.host # StartHost /\ ~PointsElsewhere(r)
  BY <1>1, FromType, HostOfReference DEF PointsElsewhere
<1>3. Rewritten(r) = resolveURL(doc.url, r, Len(Front(doc.url.path)))
  BY DEF Rewritten, Fixed, urlRelativeToRoot
<1>. QED
  BY <1>1, <1>2, <1>3 DEF resolveURL, Link

\* There, too, rewriting again changes nothing, if nothing leads back to the start page.
LEMMA StableOffSite ==
    ASSUME doc \in Documents, doc.kind = "html", doc.url.host # StartHost,
           NEW r \in Reference, r.host # StartHost, ~Spoilt(ResolveReference(doc.url, r))
    PROVE  Stable(r)
<1>1. CASE r.form = "absolute"
  <2>1. r.host # OtherScheme
    BY <1>1, FromType, HostOfReference DEF Spoilt
  <2>. QED
    BY <1>1, <2>1, RewrittenElsewhere DEF PointsElsewhere
<1>2. CASE r.form # "absolute"
  <2>1. PICK dir \in Plain : dir = Front(doc.url.path) /\ dir \in Seq(Name) /\ Len(dir) \in Nat
    BY FromType, PlainPath DEF Plain
  <2>2. PICK target \in URL : target = ResolveReference(doc.url, r)
    BY FromType, ResolveType
  <2>3. PICK path \in Path : path = (IF target.path = <<Slash>> THEN <<>> ELSE target.path)
    BY RootPath DEF URL
  <2>4. PICK link \in Reference : link = Link(Len(dir), path, target.query)
    BY <2>1, LinkType DEF URL
  <2>5. /\ link.form = "relative" /\ link.up = Len(dir) /\ link.path = path
        /\ link.query = target.query
    BY <2>4 DEF Link, Nothing
  <2>6. Rewritten(r) = link
    BY <1>2, <2>1, <2>2, <2>3, <2>4, RewrittenOffSite
  <2>7. PICK url \in URL : url = ResolveReference(doc.url, link)
    BY FromType, ResolveType
  <2>8. Rewritten(link) = Link(Len(dir), IF url.path = <<Slash>> THEN <<>> ELSE url.path, url.query)
    BY <2>1, <2>5, <2>7, RewrittenOffSite
  <2>9. CASE Len(dir) = 0 /\ path = <<>>
    <3>1. dir = <<>>
      BY <2>1, <2>9
    <3>2. Trim(target.path) = <<>>
      <4>1. target.path = <<>> \/ target.path = <<Slash>>
        BY <2>3, <2>9
      <4>2. Trim(<<>>) = <<>>
        BY RootPath, PlainPath
      <4>3. <<Slash>> = Append(<<>>, Slash)
        OBVIOUS
      <4>. QED
        BY <4>1, <4>2, <4>3, RootPath, PlainPath
    <3>3. target.path = doc.url.path /\ (target.query = <<>> => doc.url.query = <<>>)
      BY <2>1, <2>2, <3>1, <3>2 DEF Spoilt, Itself
    <3>4. url.path = doc.url.path /\ url.query = target.query
      <4>1. PICK from \in URL : from = doc.url
        BY FromType
      <4>2. url = [from EXCEPT !.query = IF link.query = <<>> THEN @ ELSE link.query]
        BY <2>5, <2>7, <2>9, <4>1 DEF ResolveReference
      <4>. QED
        BY <2>5, <3>3, <4>1, <4>2 DEF URL
    <3>. QED
      BY <2>3, <2>4, <2>6, <2>8, <3>3, <3>4 DEF Stable
  <2>10. CASE ~(Len(dir) = 0 /\ path = <<>>)
    <3>1. Climb(dir, Len(dir)) = <<>>
      <4>1. Len(dir) - Len(dir) = 0 /\ 0 < 1
        BY <2>1
      <4>. QED
        BY <4>1, SubSeqEmpty DEF Climb
    <3>2. PICK rest \in Seq(Name) : rest = (IF path = <<>> THEN <<Slash>> ELSE path)
      BY RootPath DEF Path
    <3>3. <<>> \o rest = rest
      BY <3>2, ConcatEmptySeq
    <3>4. url.path = rest /\ url.query = target.query
      BY <2>1, <2>5, <2>7, <2>10, <3>1, <3>2, <3>3 DEF ResolveReference
    <3>5. path = (IF url.path = <<Slash>> THEN <<>> ELSE url.path)
      BY <2>3, <3>2, <3>4
    <3>. QED
      BY <2>4, <2>6, <2>8, <3>4, <3>5 DEF Stable
  <2>. QED
    BY <2>9, <2>10
<1>. QED
  BY <1>1, <1>2

-------------------------------------------------------------------------------
(* The second invariant: what stands at each place *)

\* The attributes that rewriting passes over.
Exempt(i) == doc.kind = "html" /\ (i \notin Considered(source) \/ source[i] = <<Nothing>>)

\* A token waits by itself; the nodes of a page wait until one place is dealt with.
Waits(r) ==
    IF doc.kind = "css" THEN r \in todo ELSE node = source /\ Places(source) \subseteq todo

SourceGiven == source \in Elements \union Sheets
Shape == \A i \in DOMAIN source : DOMAIN node[i] = DOMAIN source[i]
Heads == doc.kind = "html" => Considered(node) = Considered(source)
\* What was not noticed was not changed, unless an attribute is left alone.
Flagged == doc.kind = "html" /\ Considered(source) = DOMAIN source /\ ~changed => node = source
Replaced ==
    stage # "response" /\ ~Forgotten =>
        \A i \in DOMAIN source :
            /\ Exempt(i) => node[i] = source[i]
            /\ ~Exempt(i) =>
                  \A j \in DOMAIN source[i] : Stable(source[i][j]) =>
                      \/ node[i][j] = Rewritten(source[i][j])
                      \/ node[i][j] = source[i][j] /\ Waits(source[i][j])
Finished == stage \in {"stored", "reread"} => todo = {}
Told ==
    /\ stage # "response" /\ base = NoBase => found = Targets
    /\ stage = "reread" /\ IsRead /\ base = NoBase =>
         again = {ResolveReference(doc.url, r) : r \in Tokens(node)}
RInv == SourceGiven /\ Shape /\ Heads /\ Flagged /\ Replaced /\ Finished /\ Told

\* A place holds a token, and each token stands at a place.
LEMMA PlaceOf ==
    ASSUME SourceGiven
    PROVE  /\ source \in Seq(Seq(Reference))
           /\ \A i \in DOMAIN source : /\ source[i] \in Seq(Reference) /\ source[i] # <<>>
                                       /\ Len(source[i]) \in 1 .. MaxSet
           /\ \A i \in DOMAIN source : \A j \in DOMAIN source[i] :
                 /\ <<i, j>> \in Places(source)
                 /\ source[i][j] \in Tokens(source) /\ source[i][j] \in Reference
           /\ \A p \in Places(source) : p[1] \in DOMAIN source /\ p[2] \in DOMAIN source[p[1]]
<1>1. /\ source \in Seq(Seq(Reference))
      /\ \A i \in DOMAIN source : Len(source[i]) \in 1 .. MaxSet
  BY LinksAssumption DEF SourceGiven
<1>2. ASSUME NEW i \in DOMAIN source PROVE source[i] \in Seq(Reference) /\ source[i] # <<>>
  <2>1. source[i] \in Seq(Reference)
    BY <1>1
  <2>2. Len(source[i]) # 0
    BY <1>1
  <2>. QED
    BY <2>1, <2>2
<1>3. ASSUME NEW i \in DOMAIN source, NEW j \in DOMAIN source[i]
      PROVE  /\ <<i, j>> \in Places(source)
             /\ source[i][j] \in Tokens(source) /\ source[i][j] \in Reference
  <2>1. j \in 1 .. Len(source[i]) /\ source[i][j] \in Reference
    BY <1>2
  <2>2. j \in 1 .. MaxSet /\ j <= Len(source[i])
    BY <1>1, <2>1, LinksAssumption
  <2>3. <<i, j>> \in Places(source)
    BY <2>2 DEF Places
  <2>. QED
    BY <2>1, <2>3 DEF Tokens
<1>4. ASSUME NEW p \in Places(source)
      PROVE  p[1] \in DOMAIN source /\ p[2] \in DOMAIN source[p[1]]
  <2>1. p[1] \in DOMAIN source /\ p[2] \in 1 .. MaxSet /\ p[2] <= Len(source[p[1]])
    BY DEF Places
  <2>2. DOMAIN source[p[1]] = 1 .. Len(source[p[1]]) /\ Len(source[p[1]]) \in Nat
    BY <1>2, <2>1
  <2>. QED
    BY <2>1, <2>2, LinksAssumption
<1>. QED
  BY <1>1, <1>2, <1>3, <1>4

\* Rewriting an attribute of a page, and what it does not change.
LEMMA FixedNode ==
    ASSUME NEW n \in Seq(Seq(Reference)), \A i \in DOMAIN n : n[i] # <<>>,
           doc \in Documents
    PROVE  /\ DOMAIN fixHTMLNodeURL(n) = DOMAIN n
           /\ \A i \in DOMAIN n :
                /\ DOMAIN fixHTMLNodeURL(n)[i] = DOMAIN n[i]
                /\ i \in Considered(n) /\ n[i] # <<Nothing>> =>
                     \A j \in DOMAIN n[i] : fixHTMLNodeURL(n)[i][j] = Fixed(n[i][j])
                /\ i \notin Considered(n) \/ n[i] = <<Nothing>> => fixHTMLNodeURL(n)[i] = n[i]
           /\ Considered(fixHTMLNodeURL(n)) = Considered(n)
<1>1. PICK m : m = fixHTMLNodeURL(n)
  OBVIOUS
<1>2. /\ DOMAIN m = DOMAIN n
      /\ \A i \in DOMAIN n :
            m[i] = IF i \in Considered(n) /\ n[i] # <<Nothing>>
                   THEN [j \in DOMAIN n[i] |-> Fixed(n[i][j])] ELSE n[i]
  BY <1>1 DEF fixHTMLNodeURL
<1>3. \A i \in DOMAIN n :
        /\ DOMAIN m[i] = DOMAIN n[i]
        /\ i \in Considered(n) /\ n[i] # <<Nothing>> =>
             \A j \in DOMAIN n[i] : m[i][j] = Fixed(n[i][j])
        /\ i \notin Considered(n) \/ n[i] = <<Nothing>> => m[i] = n[i]
  BY <1>2
<1>4. ASSUME NEW r \in Reference, r.form # "fragment" PROVE Fixed(r).form # "fragment"
  BY <1>4 DEF Fixed, resolveURL, Nothing
<1>5. PICK len \in Nat : DOMAIN n = 1 .. len
  OBVIOUS
<1>6. ASSUME NEW k \in DOMAIN n
      PROVE  Head(m[k]).form = "fragment" <=> Head(n[k]).form = "fragment"
  <2>1. CASE k \in Considered(n) /\ n[k] # <<Nothing>>
    <3>1. k \in 1 .. k
      BY <1>5
    <3>2. Head(n[k]).form # "fragment"
      BY <2>1, <3>1 DEF Considered
    <3>3. n[k] \in Seq(Reference) /\ n[k] # <<>>
      OBVIOUS
    <3>4. 1 \in DOMAIN n[k] /\ Head(n[k]) = n[k][1] /\ n[k][1] \in Reference
      BY <3>3
    <3>5. Head(m[k]) = m[k][1]
      <4>1. PICK s \in Seq(Reference) : s = n[k]
        BY <3>3
      <4>2. m[k] = [j \in 1 .. Len(s) |-> Fixed(s[j])]
        BY <1>2, <2>1, <4>1
      <4>3. \A j \in 1 .. Len(s) : Fixed(s[j]) \in Reference
        <5>1. doc.url \in URL /\ urlRelativeToRoot(doc.url) \in Nat
          BY DocumentType
        <5>2. \A j \in 1 .. Len(s) : s[j] \in Reference
          OBVIOUS
        <5>. QED
          BY <5>1, <5>2, RewrittenType DEF Fixed
      <4>4. m[k] \in Seq(Reference) /\ Len(m[k]) = Len(s) /\ Len(s) # 0
        BY <3>3, <4>1, <4>2, <4>3
      <4>. QED
        BY <4>4
    <3>6. m[k][1] = Fixed(n[k][1])
      BY <1>3, <2>1, <3>4
    <3>. QED
      BY <1>4, <3>2, <3>4, <3>5, <3>6
  <2>2. CASE ~(k \in Considered(n) /\ n[k] # <<Nothing>>)
    BY <1>3, <2>2
  <2>. QED
    BY <2>1, <2>2
<1>7. Considered(m) = Considered(n)
  <2>1. \A i \in DOMAIN n : \A k \in 1 .. i : k \in DOMAIN n
    BY <1>5
  <2>. QED
    BY <1>2, <1>6, <2>1 DEF Considered
<1>. QED
  BY <1>1, <1>2, <1>3, <1>7

\* What depends on the document and on its source alone stays as it is in every step.
LEMMA SameDocument ==
    ASSUME doc' = doc, source' = source
    PROVE  /\ \A r : Rewritten(r)' = Rewritten(r) /\ (Stable(r)' <=> Stable(r))
           /\ \A i : Exempt(i)' <=> Exempt(i)
           /\ Targets' = Targets
<1>1. \A r : Rewritten(r)' = Rewritten(r)
  BY DEF Rewritten, FixedToken, Fixed, StyleDirectory
<1>2. \A r : Stable(r)' <=> Stable(r)
  BY DEF Stable, Rewritten, FixedToken, Fixed, StyleDirectory
<1>3. \A i : Exempt(i)' <=> Exempt(i)
  BY DEF Exempt
<1>4. Targets' = Targets
  BY DEF Targets
<1>. QED
  BY <1>1, <1>2, <1>3, <1>4

\* The response satisfies the second invariant.
LEMMA InitRInv == Init => RInv
<1>. SUFFICES ASSUME Init PROVE RInv
  OBVIOUS
<1>1. node = source /\ stage = "response" /\ node \in Elements \union Sheets
  BY DEF Init
<1>. QED
  BY <1>1 DEF RInv, SourceGiven, Shape, Heads, Flagged, Replaced, Finished, Told

\* Every step keeps it: a place holds its reference as long as that waits, and then what
\* it is rewritten to, if rewriting again would change nothing.
LEMMA NextRInv == IInv /\ IInv' /\ RInv /\ [Next]_vars => RInv'
<1>. SUFFICES ASSUME IInv, IInv', RInv, [Next]_vars PROVE RInv'
  OBVIOUS
<1>. USE DEF RInv
<1>1. doc \in Documents /\ doc.kind \in {"html", "css"} /\ node \in Seq(Seq(Reference))
  BY DocumentType DEF IInv, TypeOK
<1>2. doc' = doc /\ source' = source
  BY DEF Next, Parse, FixNode, FixBase, ReplaceToken, Store, Reread, Done, vars
<1>3. /\ \A r : Rewritten(r)' = Rewritten(r) /\ (Stable(r)' <=> Stable(r))
      /\ \A i : Exempt(i)' <=> Exempt(i)
      /\ Targets' = Targets
  BY <1>2, SameDocument
<1>4. SourceGiven'
  BY <1>2 DEF SourceGiven
<1>5. /\ source \in Seq(Seq(Reference))
      /\ \A i \in DOMAIN source : source[i] \in Seq(Reference) /\ source[i] # <<>>
      /\ \A i \in DOMAIN source : \A j \in DOMAIN source[i] :
            <<i, j>> \in Places(source) /\ source[i][j] \in Tokens(source)
  BY PlaceOf
<1>6. DOMAIN node = DOMAIN source
  BY DEF IInv, TypeOK
<1>7. CASE Parse
  <2>1. /\ stage = "response" /\ stage' = "parsed" /\ node = source
        /\ node' = node /\ base' = base /\ found' = FindReferences(base, node)
    BY <1>7 DEF Parse, IInv, Beginning
  <2>2. Shape' /\ Heads' /\ Flagged' /\ Finished'
    BY <1>2, <2>1 DEF Shape, Heads, Flagged, Finished
  <2>3. Told'
    <3>1. base = NoBase => found' = Targets
      BY <2>1 DEF FindReferences, Targets
    <3>. QED
      BY <1>3, <2>1, <3>1 DEF Told
  <2>4. todo' = IF doc.kind = "css" THEN Tokens(source)
                ELSE Places(source) \union (IF base = NoBase THEN {} ELSE {BasePlace})
    BY <1>7, <2>1 DEF Parse
  <2>5. ASSUME NEW i \in DOMAIN source, NEW j \in DOMAIN source[i]
        PROVE  node'[i][j] = source[i][j] /\ Waits(source[i][j])'
    BY <1>2, <1>5, <2>1, <2>4, <2>5 DEF Waits
  <2>6. Replaced'
    BY <1>2, <2>1, <2>5 DEF Replaced
  <2>. QED
    BY <1>4, <2>2, <2>3, <2>6
<1>8. CASE FixNode
  <2>1. /\ stage = "parsed" /\ stage' = "parsed" /\ doc.kind = "html"
        /\ node' = fixHTMLNodeURL(node) /\ base' = base /\ found' = found
        /\ changed' = (changed \/ Adjusted(node)) /\ ~Forgotten
    BY <1>8 DEF FixNode, Forgotten
  <2>2. \A i \in DOMAIN node : node[i] # <<>>
    <3>1. ASSUME NEW i \in DOMAIN node PROVE node[i] # <<>>
      <4>1. DOMAIN node[i] = DOMAIN source[i] /\ source[i] \in Seq(Reference) /\ source[i] # <<>>
        BY <1>5, <1>6 DEF Shape
      <4>2. 1 \in DOMAIN source[i]
        BY <4>1
      <4>. QED
        BY <4>1, <4>2
    <3>. QED
      BY <3>1
  <2>3. /\ DOMAIN node' = DOMAIN node
        /\ \A i \in DOMAIN node :
             /\ DOMAIN node'[i] = DOMAIN node[i]
             /\ i \in Considered(node) /\ node[i] # <<Nothing>> =>
                  \A j \in DOMAIN node[i] : node'[i][j] = Fixed(node[i][j])
             /\ i \notin Considered(node) \/ node[i] = <<Nothing>> => node'[i] = node[i]
        /\ Considered(node') = Considered(node)
    BY <1>1, <2>1, <2>2, FixedNode
  <2>4. Shape' /\ Heads' /\ Finished'
    BY <1>2, <1>6, <2>1, <2>3 DEF Shape, Heads, Finished
  <2>10. Flagged'
    <3>1. SUFFICES ASSUME Considered(source) = DOMAIN source, ~changed' PROVE node' = source
      BY <1>2 DEF Flagged, Considered
    <3>2. ~changed /\ ~Adjusted(node)
      BY <2>1, <3>1
    <3>3. node = source
      BY <2>1, <3>1, <3>2 DEF Flagged
    <3>4. fixHTMLNodeURL(node) = node
      BY <3>1, <3>2, <3>3 DEF Adjusted
    <3>. QED
      BY <2>1, <3>3, <3>4
  <2>5. Told'
    BY <1>3, <2>1 DEF Told
  <2>6. Considered(node) = Considered(source)
    BY <2>1 DEF Heads
  <2>7. ASSUME NEW i \in DOMAIN source, Exempt(i) PROVE node'[i] = source[i]
    <3>1. node[i] = source[i]
      BY <2>1, <2>7 DEF Replaced
    <3>2. i \notin Considered(node) \/ node[i] = <<Nothing>>
      BY <2>6, <2>7, <3>1 DEF Exempt
    <3>. QED
      BY <1>6, <2>3, <3>1, <3>2
  <2>8. ASSUME NEW i \in DOMAIN source, ~Exempt(i),
               NEW j \in DOMAIN source[i], Stable(source[i][j])
        PROVE  node'[i][j] = Rewritten(source[i][j])
    <3>1. i \in Considered(node) /\ source[i] # <<Nothing>>
      BY <2>1, <2>6, <2>8 DEF Exempt
    <3>2. i \in DOMAIN node /\ j \in DOMAIN node[i]
      BY <1>6 DEF Shape
    <3>3. \A r : Rewritten(r) = Fixed(r)
      BY <2>1 DEF Rewritten
    <3>4. CASE node[i][j] = Rewritten(source[i][j])
      <4>1. Fixed(node[i][j]) = node[i][j]
        BY <2>8, <3>3, <3>4 DEF Stable
      <4>2. node'[i][j] = node[i][j]
        BY <2>3, <3>1, <3>2, <4>1
      <4>. QED
        BY <3>4, <4>2
    <3>5. CASE node[i][j] = source[i][j] /\ Waits(source[i][j])
      <4>1. node = source
        BY <2>1, <3>5 DEF Waits
      <4>2. node'[i][j] = Fixed(node[i][j])
        BY <2>3, <3>1, <3>2, <4>1
      <4>. QED
        BY <3>3, <4>1, <4>2
    <3>. QED
      BY <2>1, <2>8, <3>4, <3>5 DEF Replaced
  <2>9. Replaced'
    BY <1>2, <1>3, <2>7, <2>8 DEF Replaced
  <2>. QED
    BY <1>4, <2>4, <2>5, <2>9, <2>10
<1>9. CASE FixBase
  <2>1. /\ stage = "parsed" /\ stage' = "parsed" /\ doc.kind = "html" /\ node' = node
        /\ todo' = todo \ {BasePlace} /\ BasePlace \in todo /\ base' = FixedAlone(base)
        /\ (~changed' => ~changed) /\ ~Forgotten
    BY <1>9 DEF FixBase, Forgotten
  <2>2. base' # NoBase
    <3>1. base \in Reference
      BY <2>1 DEF IInv, TypeOK, BaseWaits
    <3>2. FixedAlone(base) \in Reference
      BY <1>1, <3>1, DocumentType, RewrittenType DEF Fixed, FixedAlone
    <3>. QED
      BY <2>1, <3>2, LinksAssumption
  <2>3. Shape' /\ Heads' /\ Flagged' /\ Finished' /\ Told'
    BY <1>2, <2>1, <2>2 DEF Shape, Heads, Flagged, Finished, Told
  <2>4. ASSUME NEW r, Waits(r) PROVE Waits(r)'
    <3>1. BasePlace \notin Places(source)
      <4>1. 0 \notin DOMAIN source
        BY <1>5
      <4>. QED
        BY <4>1 DEF Places, BasePlace
    <3>. QED
      BY <1>2, <2>1, <2>4, <3>1 DEF Waits
  <2>5. Replaced'
    BY <1>2, <1>3, <2>1, <2>4 DEF Replaced
  <2>. QED
    BY <1>4, <2>3, <2>5
<1>10. CASE ReplaceToken
  <2>1. PICK token \in todo :
          /\ todo' = todo \ {token}
          /\ node' = [i \in DOMAIN node |-> [j \in DOMAIN node[i] |->
                          IF node[i][j] = token THEN FixedToken(token) ELSE node[i][j]]]
    BY <1>10 DEF ReplaceToken
  <2>2. /\ stage = "parsed" /\ stage' = "parsed" /\ doc.kind = "css" /\ base' = base /\ found' = found
        /\ ~Forgotten
    BY <1>10 DEF ReplaceToken, Forgotten
  <2>3. /\ DOMAIN node' = DOMAIN node
        /\ \A i \in DOMAIN node : /\ DOMAIN node'[i] = DOMAIN node[i]
                                  /\ \A j \in DOMAIN node[i] : node'[i][j] =
                                        IF node[i][j] = token THEN FixedToken(token) ELSE node[i][j]
    BY <2>1
  <2>4. Shape' /\ Heads' /\ Flagged' /\ Finished'
    BY <1>2, <1>6, <2>2, <2>3 DEF Shape, Heads, Flagged, Finished
  <2>5. Told'
    BY <1>3, <2>2 DEF Told
  <2>6. ASSUME NEW i \in DOMAIN source, NEW j \in DOMAIN source[i], Stable(source[i][j])
        PROVE  \/ node'[i][j] = Rewritten(source[i][j])
               \/ node'[i][j] = source[i][j] /\ Waits(source[i][j])'
    <3>1. i \in DOMAIN node /\ j \in DOMAIN node[i]
      BY <1>6 DEF Shape
    <3>2. \A r : Rewritten(r) = FixedToken(r)
      BY <2>2 DEF Rewritten
    <3>3. ~Exempt(i)
      BY <2>2 DEF Exempt
    <3>4. CASE node[i][j] = Rewritten(source[i][j])
      <4>1. FixedToken(node[i][j]) = node[i][j]
        BY <2>6, <3>2, <3>4 DEF Stable
      <4>. QED
        BY <2>3, <3>1, <3>4, <4>1
    <3>5. CASE node[i][j] = source[i][j] /\ Waits(source[i][j])
      <4>1. source[i][j] \in todo
        BY <2>2, <3>5 DEF Waits
      <4>2. CASE source[i][j] = token
        BY <2>3, <3>1, <3>2, <3>5, <4>2
      <4>3. CASE source[i][j] # token
        <5>1. node'[i][j] = source[i][j]
          BY <2>3, <3>1, <3>5, <4>3
        <5>2. Waits(source[i][j])'
          BY <1>2, <2>1, <2>2, <4>1, <4>3 DEF Waits
        <5>. QED
          BY <5>1, <5>2
      <4>. QED
        BY <4>2, <4>3
    <3>. QED
      BY <2>2, <2>6, <3>3, <3>4, <3>5 DEF Replaced
  <2>7. \A i : ~Exempt(i)
    BY <2>2 DEF Exempt
  <2>8. Replaced'
    BY <1>2, <1>3, <2>6, <2>7 DEF Replaced
  <2>. QED
    BY <1>4, <2>4, <2>5, <2>8
<1>11. CASE Store
  <2>1. /\ stage = "parsed" /\ stage' = "stored" /\ todo = {}
        /\ node' \in {node, source} /\ (doc.kind = "css" \/ changed => node' = node)
        /\ UNCHANGED <<doc, base, source, changed, todo, found, again>>
    BY <1>11 DEF Store
  <2>2. Shape' /\ Heads' /\ Flagged' /\ Finished' /\ Told'
    BY <1>3, <2>1 DEF Shape, Heads, Flagged, Finished, Told
  <2>3. ASSUME ~Forgotten' PROVE node' = node
    <3>1. CASE doc.kind = "css" \/ changed
      BY <2>1, <3>1
    <3>2. CASE doc.kind = "html" /\ ~changed /\ Considered(source) = DOMAIN source
      BY <2>1, <3>2 DEF Flagged
    <3>3. CASE doc.kind = "html" /\ Considered(source) # DOMAIN source
      BY <2>1, <2>3, <3>3 DEF Forgotten, Considered
    <3>. QED
      BY <1>1, <3>1, <3>2, <3>3
  <2>4. Replaced'
    <3>1. SUFFICES ASSUME ~Forgotten' PROVE Replaced'
      BY DEF Replaced
    <3>2. node' = node /\ ~Forgotten
      BY <2>1, <2>3, <3>1 DEF Forgotten
    <3>3. \A r : Waits(r)' <=> Waits(r)
      BY <2>1, <3>2 DEF Waits
    <3>. QED
      BY <1>2, <1>3, <2>1, <3>2, <3>3 DEF Replaced
  <2>. QED
    BY <1>4, <2>2, <2>4
<1>12. CASE Reread
  <2>1. /\ stage = "stored" /\ stage' = "reread"
        /\ again' = IF IsRead THEN FindReferences(base, node) ELSE {}
        /\ UNCHANGED <<doc, base, node, source, changed, todo, found>>
        /\ Forgotten' <=> Forgotten
    BY <1>12 DEF Reread, Forgotten, Considered
  <2>2. Shape' /\ Heads' /\ Flagged' /\ Finished'
    BY <2>1 DEF Shape, Heads, Flagged, Finished
  <2>3. Told'
    BY <1>3, <2>1 DEF Told, FindReferences, IsRead
  <2>4. \A r : Waits(r)' <=> Waits(r)
    BY <2>1 DEF Waits
  <2>5. Replaced'
    BY <1>2, <1>3, <2>1, <2>4 DEF Replaced
  <2>. QED
    BY <1>4, <2>2, <2>3, <2>5
<1>13. CASE UNCHANGED vars
  <2>1. /\ UNCHANGED <<doc, base, node, source, changed, stage, todo, found, again>>
        /\ Forgotten' <=> Forgotten
    BY <1>13 DEF vars, Forgotten, Considered
  <2>2. Shape' /\ Heads' /\ Flagged' /\ Finished'
    BY <2>1 DEF Shape, Heads, Flagged, Finished
  <2>3. Told'
    BY <1>3, <2>1 DEF Told, IsRead
  <2>4. \A r : Waits(r)' <=> Waits(r)
    BY <2>1 DEF Waits
  <2>5. Replaced'
    BY <1>2, <1>3, <2>1, <2>4 DEF Replaced
  <2>. QED
    BY <1>4, <2>2, <2>3, <2>5
<1>. QED
  BY <1>7, <1>8, <1>9, <1>10, <1>11, <1>12, <1>13 DEF Next, Done

\* It holds for every document.
THEOREM RewritingInvariant == Spec => []RInv
<1>1. IInv /\ RInv /\ [Next]_vars => (IInv /\ RInv)'
  BY NextIInv, NextRInv
<1>. QED
  BY InitIInv, InitRInv, <1>1, PTL DEF Spec

\* So a stored document holds what its references were rewritten to, unless it was
\* forgotten.
LEMMA StoredPlace ==
    ASSUME RInv, stage \in {"stored", "reread"}, ~Forgotten,
           NEW i \in DOMAIN source, NEW j \in DOMAIN source[i]
    PROVE  /\ Exempt(i) => node[i] = source[i]
           /\ ~Exempt(i) /\ Stable(source[i][j]) => node[i][j] = Rewritten(source[i][j])
<1>1. todo = {} /\ stage # "response"
  BY DEF RInv, Finished
<1>2. <<i, j>> \in Places(source)
  BY PlaceOf DEF RInv
<1>3. ~Waits(source[i][j])
  BY <1>1, <1>2 DEF Waits
<1>. QED
  BY <1>1, <1>3 DEF RInv, Replaced

-------------------------------------------------------------------------------
(* The properties *)

\* What is on the site and not spoilt, or on another host without a way back, is rewritten
\* once and for all.
LEMMA StableUnlessSpoilt ==
    ASSUME doc \in Documents, NEW r \in Reference,
           NEW target, target = ResolveReference(doc.url, r), ~Spoilt(target),
           doc.url.host # StartHost => doc.kind = "html" /\ r.host # StartHost
    PROVE  Stable(r)
<1>1. CASE doc.url.host # StartHost
  BY <1>1, StableOffSite
<1>2. CASE doc.url.host = StartHost /\ PointsElsewhere(r)
  BY <1>2, RewrittenElsewhere
<1>3. CASE doc.url.host = StartHost /\ ~PointsElsewhere(r)
  BY <1>3, LinkForms
<1>. QED
  BY <1>1, <1>2, <1>3

\* What is in the stored document does not depend on how often a node was rewritten, nor
\* on the order of the tokens, if no link was spoilt and the page was not forgotten: for
\* every document, with any number of references (html.go:50-52, 64-118, css.go:64-69).
THEOREM RewrittenAsOnce == Spec => []FixedAsOnce
<1>1. IInv /\ RInv => FixedAsOnce
  <2>. SUFFICES ASSUME IInv, RInv, stage = "stored", WithoutWayBack,
                       \A t \in Targets : ~Spoilt(t), ~Forgotten
                PROVE  node = IF doc.kind = "html" THEN fixHTMLNodeURL(source)
                              ELSE [i \in DOMAIN source |->
                                       [j \in DOMAIN source[i] |-> FixedToken(source[i][j])]]
    BY DEF FixedAsOnce
  <2>1. /\ doc \in Documents /\ node \in Seq(Seq(Reference)) /\ DOMAIN node = DOMAIN source
        /\ doc.kind \in {"html", "css"}
    BY DocumentType DEF IInv, TypeOK
  <2>2. /\ source \in Seq(Seq(Reference))
        /\ \A i \in DOMAIN source : source[i] \in Seq(Reference) /\ source[i] # <<>>
        /\ \A i \in DOMAIN source : \A j \in DOMAIN source[i] :
              source[i][j] \in Tokens(source) /\ source[i][j] \in Reference
    BY PlaceOf DEF RInv
  <2>3. ASSUME NEW i \in DOMAIN source, NEW j \in DOMAIN source[i] PROVE Stable(source[i][j])
    <3>1. PICK r \in Reference : r = source[i][j] /\ r \in Tokens(source)
      BY <2>2
    <3>2. PICK target : target = ResolveReference(doc.url, r) /\ ~Spoilt(target)
      BY <3>1 DEF Targets
    <3>3. CASE doc.url.host = StartHost
      <4>1. doc \in Documents
        BY <2>1
      <4>. QED
        BY <3>1, <3>2, <3>3, <4>1, StableUnlessSpoilt
    <3>4. CASE doc.url.host # StartHost
      <4>1. doc.kind = "html" /\ \A t \in Tokens(source) : t.host # StartHost
        BY <3>4 DEF WithoutWayBack
      <4>2. doc \in Documents /\ doc.kind = "html" /\ r.host # StartHost
        BY <2>1, <3>1, <4>1
      <4>. QED
        BY <3>1, <3>2, <4>2, StableUnlessSpoilt
    <3>. QED
      BY <3>1, <3>3, <3>4
  <2>4. ASSUME NEW i \in DOMAIN source
        PROVE  /\ Exempt(i) => node[i] = source[i]
               /\ ~Exempt(i) => node[i] = [j \in DOMAIN source[i] |-> Rewritten(source[i][j])]
    <3>1. source[i] # <<>> /\ source[i] \in Seq(Reference)
      BY <2>2
    <3>2. 1 \in DOMAIN source[i]
      BY <3>1
    <3>3. PICK attribute \in Seq(Reference) : attribute = node[i]
      BY <2>1
    <3>4. DOMAIN attribute = DOMAIN source[i]
      BY <3>3 DEF RInv, Shape
    <3>5. /\ Exempt(i) => node[i] = source[i]
          /\ ~Exempt(i) => \A j \in DOMAIN source[i] : attribute[j] = Rewritten(source[i][j])
      BY <2>3, <3>2, <3>3, StoredPlace
    <3>6. attribute = [j \in DOMAIN attribute |-> attribute[j]]
      OBVIOUS
    <3>. QED
      BY <3>3, <3>4, <3>5, <3>6
  <2>5. node = [i \in DOMAIN source |-> node[i]]
    BY <2>1
  <2>6. CASE doc.kind = "html"
    <3>1. \A r : Rewritten(r) = Fixed(r)
      BY <2>6 DEF Rewritten
    <3>2. ASSUME NEW i \in DOMAIN source PROVE node[i] = fixHTMLNodeURL(source)[i]
      <4>1. /\ i \in Considered(source) /\ source[i] # <<Nothing>> =>
                  fixHTMLNodeURL(source)[i] = [j \in DOMAIN source[i] |-> Fixed(source[i][j])]
            /\ ~(i \in Considered(source) /\ source[i] # <<Nothing>>) =>
                  fixHTMLNodeURL(source)[i] = source[i]
        <5>1. PICK m : m = fixHTMLNodeURL(source)
          OBVIOUS
        <5>2. m[i] = IF i \in Considered(source) /\ source[i] # <<Nothing>>
                     THEN [j \in DOMAIN source[i] |-> Fixed(source[i][j])] ELSE source[i]
          BY <5>1 DEF fixHTMLNodeURL
        <5>. QED
          BY <5>1, <5>2
      <4>2. CASE Exempt(i)
        BY <2>4, <4>1, <4>2 DEF Exempt
      <4>3. CASE ~Exempt(i)
        <5>1. node[i] = [j \in DOMAIN source[i] |-> Rewritten(source[i][j])]
          BY <2>4, <4>3
        <5>2. node[i] = [j \in DOMAIN source[i] |-> Fixed(source[i][j])]
          BY <3>1, <5>1
        <5>. QED
          BY <2>6, <4>1, <4>3, <5>2 DEF Exempt
      <4>. QED
        BY <4>2, <4>3
    <3>3. fixHTMLNodeURL(source) = [i \in DOMAIN source |-> fixHTMLNodeURL(source)[i]]
      BY DEF fixHTMLNodeURL
    <3>. QED
      BY <2>5, <2>6, <3>2, <3>3
  <2>7. CASE doc.kind = "css"
    <3>1. \A r : Rewritten(r) = FixedToken(r)
      BY <2>7 DEF Rewritten
    <3>2. \A i \in DOMAIN source :
            node[i] = [j \in DOMAIN source[i] |-> FixedToken(source[i][j])]
      BY <2>4, <2>7, <3>1 DEF Exempt
    <3>. QED
      BY <2>5, <2>7, <3>2
  <2>. QED
    BY <2>1, <2>6, <2>7
<1>. QED
  BY Invariant, RewritingInvariant, <1>1, PTL

\* Where an empty link leads.
LEMMA ResolveEmpty ==
    ASSUME NEW from \in URL, NEW query
    PROVE  LET url == ResolveReference(from, Link(0, <<>>, query))
           IN  /\ url.host = from.host /\ url.path = from.path
               /\ url.query = IF query = <<>> THEN from.query ELSE query
<1>1. PICK link : link = Link(0, <<>>, query)
  OBVIOUS
<1>2. link.form = "relative" /\ link.up = 0 /\ link.path = <<>> /\ link.query = query
  BY <1>1 DEF Link, Nothing
<1>3. ResolveReference(from, link) = [from EXCEPT !.query = IF query = <<>> THEN @ ELSE query]
  BY <1>2 DEF ResolveReference
<1>. QED
  BY <1>1, <1>3 DEF URL

\* The link that takes the place of a reference leads from the document to its target.
LEMMA RewrittenLeadsBack ==
    ASSUME doc \in Documents, doc.url.host = StartHost,
           NEW r \in Reference, ~PointsElsewhere(r),
           NEW target, target = ResolveReference(doc.url, r), ~Spoilt(target)
    PROVE  SameResource(ResolveReference(doc.url, Rewritten(r)), target)
<1>1. doc.url \in URL
  BY FromType
<1>2. /\ target \in URL /\ target.host = StartHost
      /\ \/ Rewritten(r) = Link(0, <<>>, target.query) /\ Itself(target)
         \/ \E up \in Nat, path \in Plain :
               /\ Rewritten(r) = Link(up, path, target.query) /\ ~(up = 0 /\ path = <<>>)
               /\ Climb(Front(doc.url.path), up) \o path = Trim(target.path)
  BY LinkForms
<1>3. PICK url : url = ResolveReference(doc.url, Rewritten(r))
  OBVIOUS
<1>4. CASE Rewritten(r) = Link(0, <<>>, target.query) /\ Itself(target)
  <2>1. /\ url.host = doc.url.host /\ url.path = doc.url.path
        /\ url.query = IF target.query = <<>> THEN doc.url.query ELSE target.query
    BY <1>1, <1>3, <1>4, ResolveEmpty
  <2>. QED
    BY <1>2, <1>3, <1>4, <2>1 DEF Itself, SameResource
<1>5. CASE \E up \in Nat, path \in Plain :
              /\ Rewritten(r) = Link(up, path, target.query) /\ ~(up = 0 /\ path = <<>>)
              /\ Climb(Front(doc.url.path), up) \o path = Trim(target.path)
  <2>1. PICK up \in Nat, path \in Plain :
          /\ Rewritten(r) = Link(up, path, target.query) /\ ~(up = 0 /\ path = <<>>)
          /\ Climb(Front(doc.url.path), up) \o path = Trim(target.path)
    BY <1>5
  <2>2. PICK from \in URL : from = doc.url
    BY <1>1
  <2>3. PICK way : way = Climb(Front(from.path), up) \o path
    OBVIOUS
  <2>4. PICK query : query = target.query
    OBVIOUS
  <2>5. ~(up = 0 /\ path = <<>>) /\ url = ResolveReference(from, Link(up, path, query))
    BY <1>3, <2>1, <2>2, <2>4
  <2>6. url.host = from.host /\ url.query = query /\ Trim(url.path) = way
    <3>1. url.query = query /\ Trim(url.path) = way
      BY <2>3, <2>5, ResolveLink
    <3>2. url.host = from.host
      BY <2>3, <2>5, ResolveLink
    <3>. QED
      BY <3>1, <3>2
  <2>7. way = Trim(target.path)
    BY <2>1, <2>2, <2>3
  <2>. QED
    BY <1>2, <1>3, <2>2, <2>4, <2>6, <2>7 DEF SameResource
<1>. QED
  BY <1>2, <1>4, <1>5

\* What a rewritten reference of a page without base element is, at its place.
LEMMA RelinkedPlace ==
    ASSUME IInv, RInv, stage = "stored", ~Forgotten, NEW l \in Relinked, ~Spoilt(l.target)
    PROVE  /\ doc \in Documents /\ doc.url.host = StartHost
           /\ \/ l.link = Nothing /\ l.target = doc.url
              \/ \E r \in Reference : /\ ~PointsElsewhere(r)
                                      /\ l.target = ResolveReference(doc.url, r)
                                      /\ l.link = Rewritten(r)
<1>1. doc \in Documents /\ doc.url.host = StartHost /\ l.target.host = StartHost
  BY DEF IInv, TypeOK, Relinked
<1>2. PICK p \in Places(source) :
        /\ p[1] \in Considered(source)
        /\ l = [target |-> ResolveReference(doc.url, source[p[1]][p[2]]),
                link |-> node[p[1]][p[2]]]
  BY DEF Relinked
<1>3. PICK i \in DOMAIN source : i = p[1]
  BY PlaceOf DEF RInv
<1>4. PICK j \in DOMAIN source[i] : j = p[2]
  BY <1>3, PlaceOf DEF RInv
<1>5. PICK r \in Reference : r = source[i][j]
  BY PlaceOf DEF RInv
<1>6. l.target = ResolveReference(doc.url, r) /\ l.link = node[i][j] /\ i \in Considered(source)
  BY <1>2, <1>3, <1>4, <1>5
<1>7. ~PointsElsewhere(r)
  BY <1>1, <1>6, FromType, HostOfReference DEF PointsElsewhere
<1>8. CASE Exempt(i)
  <2>1. source[i] = <<Nothing>>
    BY <1>6, <1>8 DEF Exempt
  <2>2. node[i] = source[i]
    BY <1>8, StoredPlace
  <2>3. r = Nothing /\ l.link = Nothing
    BY <1>4, <1>5, <1>6, <2>1, <2>2
  <2>4. l.target = doc.url
    <3>1. PICK from \in URL : from = doc.url
      BY <1>1, FromType
    <3>2. ResolveReference(from, r) = [from EXCEPT !.query = @]
      BY <2>3 DEF ResolveReference, Nothing
    <3>. QED
      BY <1>6, <3>1, <3>2 DEF URL
  <2>. QED
    BY <1>1, <2>3, <2>4
<1>9. CASE ~Exempt(i)
  <2>1. Stable(r)
    <3>1. PICK target : target = ResolveReference(doc.url, r) /\ ~Spoilt(target)
      BY <1>6
    <3>2. doc \in Documents /\ doc.url.host = StartHost
      BY <1>1
    <3>. QED
      BY <3>1, <3>2, StableUnlessSpoilt
  <2>2. node[i][j] = Rewritten(r)
    BY <1>5, <1>9, <2>1, StoredPlace
  <2>. QED
    BY <1>1, <1>6, <1>7, <2>2
<1>. QED
  BY <1>8, <1>9

\* Followed from the URL of its page, a link of a stored document that was not spoilt
\* leads to what the reference meant, up to a slash at the end (url.go:20-42, 56-94).
THEOREM LinksLead == Spec => []LinksLeadToTargets
<1>1. IInv /\ RInv => LinksLeadToTargets
  <2>. SUFFICES ASSUME IInv, RInv, stage = "stored", NEW l \in Relinked, ~Spoilt(l.target)
                PROVE  SameResource(ResolveReference(doc.url, l.link), l.target)
    BY DEF LinksLeadToTargets
  \* In a page stored as it was, a link is the reference itself.
  <2>0. CASE Forgotten
    <3>1. PICK p \in Places(source) :
            l = [target |-> ResolveReference(doc.url, source[p[1]][p[2]]),
                 link |-> node[p[1]][p[2]]]
      BY DEF Relinked
    <3>2. l.target = ResolveReference(doc.url, l.link)
      BY <2>0, <3>1 DEF Forgotten
    <3>. QED
      BY <3>2 DEF SameResource
  <2>. SUFFICES ASSUME ~Forgotten
                PROVE  SameResource(ResolveReference(doc.url, l.link), l.target)
    BY <2>0
  <2>1. /\ doc \in Documents /\ doc.url.host = StartHost
        /\ \/ l.link = Nothing /\ l.target = doc.url
           \/ \E r \in Reference : /\ ~PointsElsewhere(r)
                                   /\ l.target = ResolveReference(doc.url, r)
                                   /\ l.link = Rewritten(r)
    BY RelinkedPlace
  <2>2. CASE l.link = Nothing /\ l.target = doc.url
    <3>1. PICK from \in URL : from = doc.url
      BY <2>1, FromType
    <3>2. ResolveReference(from, Nothing) = [from EXCEPT !.query = @]
      BY DEF ResolveReference, Nothing
    <3>3. ResolveReference(doc.url, l.link) = doc.url
      BY <2>2, <3>1, <3>2 DEF URL
    <3>. QED
      BY <2>2, <3>3 DEF SameResource
  <2>3. CASE \E r \in Reference : /\ ~PointsElsewhere(r)
                                  /\ l.target = ResolveReference(doc.url, r)
                                  /\ l.link = Rewritten(r)
    BY <2>1, <2>3, RewrittenLeadsBack
  <2>. QED
    BY <2>1, <2>2, <2>3
<1>. QED
  BY Invariant, RewritingInvariant, <1>1, PTL

\* A later run is told by the copy what the first was told, up to a slash at the end, if
\* no link was spoilt, and none lost a scheme of its own: for every page on the site
\* without base element, and every style sheet (html.go:62-118, css.go:64-69,
\* notModified.go:19-83).
THEOREM ToldTheSameAgain == Spec => []SameReferencesAgain
<1>1. IInv /\ RInv => SameReferencesAgain
  <2>. SUFFICES ASSUME IInv, RInv, stage = "reread", IsRead, base = NoBase,
                       doc.url.host = StartHost, \A u \in found : ~Spoilt(u)
                PROVE  Trimmed(again) = Trimmed(found)
    BY DEF SameReferencesAgain
  <2>1. /\ doc \in Documents /\ node \in Seq(Seq(Reference)) /\ DOMAIN node = DOMAIN source
    BY DEF IInv, TypeOK
  <2>2. /\ found = {ResolveReference(doc.url, r) : r \in Tokens(source)}
        /\ again = {ResolveReference(doc.url, r) : r \in Tokens(node)}
    BY DEF RInv, Told, Targets
  <2>0. CASE Forgotten
    BY <2>0, <2>2 DEF Forgotten
  <2>. SUFFICES ASSUME ~Forgotten PROVE Trimmed(again) = Trimmed(found)
    BY <2>0
  <2>3. Places(node) = Places(source)
    <3>1. ASSUME NEW i \in DOMAIN source PROVE Len(node[i]) = Len(source[i])
      <4>1. PICK s \in Seq(Reference) : s = source[i]
        BY PlaceOf DEF RInv
      <4>2. PICK t \in Seq(Reference) : t = node[i]
        BY <2>1
      <4>3. DOMAIN s = DOMAIN t
        BY <4>1, <4>2 DEF RInv, Shape
      <4>4. Len(s) = Len(t)
        BY <4>3
      <4>. QED
        BY <4>1, <4>2, <4>4
    <3>. QED
      BY <2>1, <3>1 DEF Places
  <2>4. ASSUME NEW p \in Places(source)
        PROVE  LET then == ResolveReference(doc.url, source[p[1]][p[2]])
                   now  == ResolveReference(doc.url, node[p[1]][p[2]])
               IN  then \in URL /\ now \in URL /\ SameResource(now, then)
    <3>1. PICK i \in DOMAIN source : i = p[1]
      BY PlaceOf DEF RInv
    <3>2. PICK j \in DOMAIN source[i] : j = p[2]
      BY <3>1, PlaceOf DEF RInv
    <3>3. PICK r \in Reference : r = source[i][j] /\ r \in Tokens(source)
      BY PlaceOf DEF RInv
    <3>4. PICK link \in Reference : link = node[i][j]
      <4>1. PICK s \in Seq(Reference) : s = node[i]
        BY <2>1
      <4>2. j \in DOMAIN s
        BY <4>1 DEF RInv, Shape
      <4>3. s[j] \in Reference
        BY <4>2
      <4>. QED
        BY <4>1, <4>3
    <3>5. PICK then \in URL : then = ResolveReference(doc.url, r)
      BY <2>1, FromType, ResolveType
    <3>6. PICK now \in URL : now = ResolveReference(doc.url, link)
      BY <2>1, FromType, ResolveType
    <3>7. ~Spoilt(then)
      BY <2>2, <3>3, <3>5
    <3>8. CASE Exempt(i)
      <4>1. link = r
        BY <3>3, <3>4, <3>8, StoredPlace
      <4>. QED
        BY <3>1, <3>2, <3>3, <3>4, <3>5, <3>6, <4>1 DEF SameResource
    <3>9. CASE ~Exempt(i)
      <4>1. Stable(r)
        BY <2>1, <3>5, <3>7, StableUnlessSpoilt
      <4>2. link = Rewritten(r)
        BY <3>3, <3>4, <3>9, <4>1, StoredPlace
      <4>3. CASE PointsElsewhere(r)
        <5>1. link = r
          BY <4>2, <4>3, RewrittenElsewhere
        <5>. QED
          BY <3>1, <3>2, <3>3, <3>4, <3>5, <3>6, <5>1 DEF SameResource
      <4>4. CASE ~PointsElsewhere(r)
        <5>1. SameResource(ResolveReference(doc.url, Rewritten(r)), then)
          BY <2>1, <3>5, <3>7, <4>4, RewrittenLeadsBack
        <5>. QED
          BY <3>1, <3>2, <3>3, <3>4, <3>5, <3>6, <4>2, <5>1
      <4>. QED
        BY <4>3, <4>4
    <3>. QED
      BY <3>8, <3>9
  <2>5. ASSUME NEW u \in URL, NEW v \in URL, SameResource(u, v)
        PROVE  [u EXCEPT !.path = Trim(@)] = [v EXCEPT !.path = Trim(@)]
    BY <2>5 DEF SameResource, URL
  <2>. DEFINE Then(p) == ResolveReference(doc.url, source[p[1]][p[2]])
              Now(p) == ResolveReference(doc.url, node[p[1]][p[2]])
              Cut(u) == [u EXCEPT !.path = Trim(@)]
  <2>6. found = {Then(p) : p \in Places(source)} /\ again = {Now(p) : p \in Places(source)}
    BY <2>2, <2>3 DEF Tokens
  <2>7. \A p \in Places(source) : Cut(Now(p)) = Cut(Then(p))
    BY <2>4, <2>5
  <2>8. Trimmed(found) = {Cut(u) : u \in found} /\ Trimmed(again) = {Cut(u) : u \in again}
    BY DEF Trimmed
  <2>. HIDE DEF Then, Now, Cut
  <2>9. /\ Trimmed(found) = {Cut(Then(p)) : p \in Places(source)}
        /\ Trimmed(again) = {Cut(Now(p)) : p \in Places(source)}
    BY <2>6, <2>8
  <2>. QED
    BY <2>7, <2>9
<1>. QED
  BY Invariant, RewritingInvariant, <1>1, PTL

\* The file of a target, by its path: the index of a directory, or what has an extension.
LEMMA StoredAs ==
    ASSUME NEW url \in URL, NamedAsStored(url)
    PROVE  GetPageFilePath(url) \in
             {Trim(url.path),
              Append(Trim(url.path), [base |-> "index", qs |-> <<>>, ext |-> "html"])}
<1>1. url.path \in Path /\ url.path # <<>> /\ SortedQueryString(url.query) = <<>>
  BY DEF NamedAsStored, SortedQueryString, URL
<1>2. CASE EndsWithSlash(url.path)
  <2>1. GetPageFilePath(url) =
          Append(Front(url.path), [base |-> "index", qs |-> <<>>, ext |-> "html"])
    BY <1>1, <1>2 DEF GetPageFilePath, urlEndsWithSlash
  <2>. QED
    BY <1>2, <2>1 DEF Trim
<1>3. CASE ~EndsWithSlash(url.path)
  <2>1. PICK f \in Seq(Name), x \in Name : url.path = Append(f, x)
    BY <1>1, PathParts, SequenceEmptyOrAppend
  <2>2. Front(url.path) = f
    BY <2>1, FrontOfAppend
  <2>3. Last(url.path) = x
    BY <2>1, AppendProperties DEF Last
  <2>4. x.ext # "" /\ x \in Segment
    BY <1>3, <2>3, LinksAssumption DEF NamedAsStored
  <2>5. WithQuery(url) = x
    <3>1. PICK qs \in Seq(Nat) : qs = x.qs
      BY <2>4 DEF Segment
    <3>2. qs \o <<>> = qs
      BY ConcatEmptySeq
    <3>3. x.qs \o <<>> = x.qs
      BY <3>1, <3>2
    <3>. QED
      BY <1>1, <2>3, <2>4, <3>3 DEF WithQuery, Segment
  <2>6. [WithQuery(url) EXCEPT !.ext = IF @ = "" THEN "html" ELSE @] = x
    BY <2>4, <2>5 DEF Segment
  <2>7. GetPageFilePath(url) = Append(f, x)
    BY <1>1, <1>3, <2>2, <2>6 DEF GetPageFilePath, urlEndsWithName
  <2>. QED
    BY <1>3, <2>1, <2>7 DEF Trim
<1>. QED
  BY <1>2, <1>3

\* The name of the file of a page is none that a slash hides.
LEMMA PageFile ==
    ASSUME NEW url \in URL
    PROVE  \E x : GetPageFilePath(url) = Append(Front(url.path), x) /\ x # Slash
<1>0. ASSUME NEW x, x.ext # "" PROVE x # Slash
  <2>1. Slash.ext = ""
    BY DEF Slash
  <2>. QED
    BY <1>0, <2>1
<1>1. CASE url.path = <<>>
  <2>1. PICK x : x = [base |-> "___", qs |-> SortedQueryString(url.query), ext |-> "html"]
    OBVIOUS
  <2>2. Front(url.path) = <<>>
    BY <1>1, FrontOfPath DEF URL, Path
  <2>3. Append(<<>>, x) = <<x>>
    OBVIOUS
  <2>4. x # Slash
    BY <1>0, <2>1
  <2>5. GetPageFilePath(url) = <<x>>
    BY <1>1, <2>1 DEF GetPageFilePath, defaultName
  <2>. QED
    BY <2>2, <2>3, <2>4, <2>5
<1>2. CASE url.path # <<>> /\ EndsWithSlash(url.path)
  <2>1. PICK qs : qs = SortedQueryString(url.query)
    OBVIOUS
  <2>2. PICK prefix : prefix = (IF qs = <<>> THEN "index" ELSE "")
    OBVIOUS
  <2>3. PICK x : x = [base |-> prefix, qs |-> qs, ext |-> "html"]
    OBVIOUS
  <2>4. x # Slash
    <3>1. x.ext = "html"
      BY <2>3
    <3>. QED
      BY <1>0, <3>1
  <2>5. GetPageFilePath(url) = Append(Front(url.path), x)
    BY <1>2, <2>1, <2>2, <2>3 DEF GetPageFilePath, urlEndsWithSlash
  <2>. QED
    BY <2>4, <2>5
<1>3. CASE url.path # <<>> /\ ~EndsWithSlash(url.path)
  <2>1. PICK last \in Segment : last = Last(url.path)
    <3>1. Len(url.path) \in 1 .. Len(url.path) /\ url.path \in Seq(Name)
      BY <1>3 DEF URL, Path
    <3>. QED
      BY <3>1, LinksAssumption DEF Last
  <2>2. PICK x : x = [WithQuery(url) EXCEPT !.ext = IF @ = "" THEN "html" ELSE @]
    OBVIOUS
  <2>3. x.ext # ""
    BY <2>1, <2>2 DEF WithQuery, Segment
  <2>4. GetPageFilePath(url) = Append(Front(url.path), x)
    BY <1>3, <2>2 DEF GetPageFilePath, urlEndsWithName
  <2>. QED
    BY <1>0, <2>3, <2>4
<1>. QED
  BY <1>1, <1>2, <1>3

\* The file of the document is in its directory; it is that of a page, if the path is
\* that of a directory or ends with an extension.
LEMMA OwnFile ==
    ASSUME doc \in Documents
    PROVE  \E x : File = Append(Front(doc.url.path), x)
<1>1. PICK url \in URL : url = doc.url
  BY FromType
<1>2. CASE doc.kind = "html"
  BY <1>1, <1>2, PageFile DEF File
<1>3. CASE doc.kind # "html"
  BY <1>1, <1>3, PageFile DEF File, GetFilePath
<1>. QED
  BY <1>2, <1>3

\* A name with an extension is the name of a page, too (file.go:38-70).
LEMMA NamedLikeAPage ==
    ASSUME NEW url \in URL, url.path # <<>>, ~EndsWithSlash(url.path), Last(url.path).ext # ""
    PROVE  GetPageFilePath(url) = Append(Front(url.path), WithQuery(url))
<1>0. url.path \in Path /\ url.path # <<>>
  BY DEF URL
<1>1. PICK f \in Seq(Name), x \in Name : url.path = Append(f, x)
  BY <1>0, PathParts, SequenceEmptyOrAppend
<1>2. Last(url.path) = x
  BY <1>1, LastOfAppend
<1>3. x.ext # "" /\ x \in Segment
  BY <1>2, LinksAssumption
<1>4. PICK name : name = WithQuery(url)
  OBVIOUS
<1>5. PICK qs : qs = x.qs \o SortedQueryString(url.query)
  OBVIOUS
<1>6. name = [base |-> x.base, qs |-> qs, ext |-> x.ext]
  BY <1>2, <1>3, <1>4, <1>5 DEF WithQuery, Segment
<1>7. [name EXCEPT !.ext = IF @ = "" THEN "html" ELSE @] = name
  BY <1>3, <1>6
<1>8. GetPageFilePath(url) = urlEndsWithName(url)
  BY DEF GetPageFilePath
<1>. QED
  BY <1>4, <1>7, <1>8 DEF urlEndsWithName

\* The copy of a document whose URL has a name with an extension is stored like a page.
LEMMA OwnFileNamed ==
    ASSUME doc \in Documents, doc.url.path # <<>>,
           EndsWithSlash(doc.url.path) \/ Last(doc.url.path).ext # ""
    PROVE  File = GetPageFilePath(doc.url)
<1>1. PICK url \in URL : url = doc.url
  BY FromType
<1>2. CASE doc.kind = "html" \/ EndsWithSlash(url.path)
  BY <1>1, <1>2 DEF File, GetFilePath
<1>3. CASE doc.kind # "html" /\ ~EndsWithSlash(url.path)
  <2>1. GetPageFilePath(url) = Append(Front(url.path), WithQuery(url))
    BY <1>1, <1>3, NamedLikeAPage
  <2>. QED
    BY <1>1, <1>3, <2>1 DEF File, GetFilePath
<1>. QED
  BY <1>2, <1>3

\* From the copy of a document that was not forgotten, a link that was not spoilt is
\* relative and opens the file in which its target is stored, if that is named as the link
\* is (url.go:56-94, file.go:38-70).
THEOREM LinksOpen == Spec => []LinksOpenFiles
<1>1. IInv /\ RInv => LinksOpenFiles
  <2>. SUFFICES ASSUME IInv, RInv, stage = "stored", ~Forgotten, NEW l \in Relinked,
                       ~Spoilt(l.target), NamedAsStored(l.target)
                PROVE  GetPageFilePath(l.target) \in Opened(l.link)
    BY DEF LinksOpenFiles
  <2>1. /\ doc \in Documents /\ doc.url.host = StartHost
        /\ \/ l.link = Nothing /\ l.target = doc.url
           \/ \E r \in Reference : /\ ~PointsElsewhere(r)
                                   /\ l.target = ResolveReference(doc.url, r)
                                   /\ l.link = Rewritten(r)
    BY RelinkedPlace
  <2>2. /\ doc.url \in URL /\ doc.url.path \in Path /\ Front(doc.url.path) \in Plain
        /\ doc.kind \in {"html", "css"}
    BY <2>1, FromType
  <2>3. l.target.query = <<>> /\ l.target.path # <<>>
    BY DEF NamedAsStored
  <2>4. PICK dir \in Plain : dir = Front(doc.url.path)
    BY <2>2
  <2>5. PICK from : from = [doc.url EXCEPT !.path = File, !.query = <<>>]
    OBVIOUS
  <2>6. /\ from = [host |-> doc.url.host, path |-> File, query |-> <<>>]
        /\ from.path = File /\ from.query = <<>>
    BY <2>2, <2>5 DEF URL
  <2>7. PICK index : index = [base |-> "index", qs |-> <<>>, ext |-> "html"]
    OBVIOUS
  <2>8. PICK path : path = Trim(ResolveReference(from, l.link).path)
    OBVIOUS
  <2>9. l.link.form = "relative" => Opened(l.link) = {path, Append(path, index)}
    BY <2>5, <2>7, <2>8 DEF Opened
  \* The link to the document itself opens its own file.
  <2>10. ASSUME l.link.form = "relative", l.link.up = 0, l.link.path = <<>>, l.link.query = <<>>,
                l.target.path = doc.url.path, doc.url.query = <<>>
         PROVE  GetPageFilePath(l.target) \in Opened(l.link)
    <3>1. ResolveReference(from, l.link).path = File
      <4>1. ResolveReference(from, l.link) = [from EXCEPT !.query = @]
        BY <2>10 DEF ResolveReference
      <4>. QED
        BY <2>6, <4>1
    <3>2. GetPageFilePath(l.target) = GetPageFilePath(doc.url)
      BY <2>3, <2>10 DEF GetPageFilePath, defaultName, urlEndsWithSlash, urlEndsWithName, WithQuery
    <3>3. File = GetPageFilePath(doc.url)
      BY <2>1, <2>3, <2>10, OwnFileNamed DEF NamedAsStored
    <3>4. PICK x : GetPageFilePath(doc.url) = Append(dir, x) /\ x # Slash
      BY <2>2, <2>4, PageFile
    <3>5. Trim(File) = File
      <4>1. PICK S : S = Name \union {x}
        OBVIOUS
      <4>2. dir \in Seq(S) /\ x \in S
        BY <4>1 DEF Plain
      <4>3. PICK f \in Seq(S) : f = Append(dir, x)
        BY <4>2, AppendProperties
      <4>4. Last(f) = x
        BY <4>2, <4>3, AppendProperties DEF Last
      <4>. QED
        BY <3>3, <3>4, <4>3, <4>4 DEF Trim, EndsWithSlash
    <3>. QED
      BY <2>8, <2>9, <2>10, <3>1, <3>2, <3>3, <3>5
  <2>11. CASE l.link = Nothing /\ l.target = doc.url
    BY <2>3, <2>10, <2>11 DEF Nothing
  <2>12. CASE \E r \in Reference : /\ ~PointsElsewhere(r)
                                   /\ l.target = ResolveReference(doc.url, r)
                                   /\ l.link = Rewritten(r)
    <3>1. PICK r \in Reference : /\ ~PointsElsewhere(r)
                                 /\ l.target = ResolveReference(doc.url, r)
                                 /\ l.link = Rewritten(r)
      BY <2>12
    <3>2. PICK target : target = l.target
      OBVIOUS
    <3>3. /\ target \in URL
          /\ \/ Rewritten(r) = Link(0, <<>>, target.query) /\ Itself(target)
             \/ \E up \in Nat, rest \in Plain :
                   /\ Rewritten(r) = Link(up, rest, target.query) /\ ~(up = 0 /\ rest = <<>>)
                   /\ Climb(Front(doc.url.path), up) \o rest = Trim(target.path)
      BY <2>1, <3>1, <3>2, LinkForms
    <3>4. CASE Rewritten(r) = Link(0, <<>>, target.query) /\ Itself(target)
      BY <2>3, <2>10, <3>1, <3>2, <3>4 DEF Itself, Link, Nothing
    <3>5. CASE \E up \in Nat, rest \in Plain :
                  /\ Rewritten(r) = Link(up, rest, target.query) /\ ~(up = 0 /\ rest = <<>>)
                  /\ Climb(Front(doc.url.path), up) \o rest = Trim(target.path)
      <4>1. PICK up \in Nat, rest \in Plain :
              /\ l.link = Link(up, rest, <<>>) /\ ~(up = 0 /\ rest = <<>>)
              /\ Climb(dir, up) \o rest = Trim(target.path)
        BY <2>3, <2>4, <3>1, <3>2, <3>5
      <4>2. Front(from.path) = dir
        <5>1. PICK x : File = Append(dir, x)
          BY <2>1, <2>4, OwnFile
        <5>2. PICK S : S = Name \union {x}
          OBVIOUS
        <5>3. dir \in Seq(S) /\ x \in S
          BY <5>2 DEF Plain
        <5>. QED
          BY <2>6, <5>1, <5>3, FrontOfAppend
      <4>3. PICK whole : whole = Climb(dir, up) \o (IF rest = <<>> THEN <<Slash>> ELSE rest)
        OBVIOUS
      <4>4. Trim(whole) = Climb(dir, up) \o rest
        <5>1. Climb(dir, up) \in Plain
          BY PlainCut
        <5>. QED
          BY <4>3, <5>1, EndOfLink
      <4>5. ResolveReference(from, l.link).path = whole
        <5>1. PICK link : link = Link(up, rest, <<>>)
          OBVIOUS
        <5>2. link.form = "relative" /\ link.up = up /\ link.path = rest
          BY <5>1 DEF Link, Nothing
        <5>3. ResolveReference(from, link) = [host |-> from.host, path |-> whole, query |-> link.query]
          BY <4>1, <4>2, <4>3, <5>2 DEF ResolveReference
        <5>. QED
          BY <4>1, <5>1, <5>3
      <4>6. path = Trim(target.path)
        BY <2>8, <4>1, <4>4, <4>5
      <4>7. GetPageFilePath(target) \in {Trim(target.path), Append(Trim(target.path), index)}
        BY <2>7, <3>2, <3>3, StoredAs
      <4>8. l.link.form = "relative"
        BY <4>1 DEF Link, Nothing
      <4>. QED
        BY <2>9, <3>2, <4>6, <4>7, <4>8
    <3>. QED
      BY <3>3, <3>4, <3>5
  <2>. QED
    BY <2>1, <2>11, <2>12
<1>. QED
  BY Invariant, RewritingInvariant, <1>1, PTL
===============================================================================
