--------------------------- MODULE CompletenessProofs ---------------------------
(***************************************************************************)
(* Proofs of what the crawl fetches, for any number of workers and any     *)
(* sites that hand out no bare references: that a depth limit loses only   *)
(* what some way leads to too deep, and that at unlimited depth the crawl  *)
(* is complete and implements the search of module SiteSearch.             *)
(*                                                                         *)
(* Every reference that was obtained is on its way to the coordinator or   *)
(* recorded, every path that is recorded was fetched, waits for it or was  *)
(* too deep, and nothing waits or is on its way that was not obtained.     *)
(* No depth exceeds the number of URLs recorded so far, so that a limit    *)
(* above the number of URLs refuses none.                                  *)
(***************************************************************************)
EXTENDS VisitProofs

-------------------------------------------------------------------------------
(* The invariant *)

\* No limit on the depth: the default of MaxDepth exceeds the number of URLs
\* (config.go:51-53).
Unlimited == IsFiniteSet(Url) /\ MaxDepth > Cardinality(Url)

\* Of two URLs with one host and one path the filters accept both or neither (filter.go:37).
FiltersByPath ==
    \A u, v \in Url : HostOf[u] = HostOf[v] /\ PathOf[u] = PathOf[v]
                        => (u \in site.allowed <=> v \in site.allowed)

\* The start page has not moved to a URL of another host with the path it had.
NotMovedInPlace ==
    HostOf[StartURL] = scHost
    \/ \A u \in Url : HostOf[u] = scHost => PathOf[u] # PathOf[StartURL]

\* A URL waits in the queue, or in the hands of the coordinator; a reference is still
\* before the filters.
Waits(u) ==
    \/ \E i \in 1 .. Len(queue) : queue[i].url = u
    \/ \E i \in pushed + 1 .. Len(cur.included) : cur.included[i] = u
UnreadAt(u, depth) ==
    \/ depth = cur.depth /\ u \in Targets(cur.refs)
    \/ \E i \in 1 .. Len(results) :
            depth = results[i].depth + 1 /\ u \in Targets(results[i].refs)
    \/ \E w \in Workers :
            pc[w] = "send" /\ depth = out[w].depth + 1 /\ u \in Targets(out[w].refs)
Unread(u) == \E depth : UnreadAt(u, depth)

\* The recorded keys are keys of URLs, hence no more than these, but for the start page
\* that has moved.
Keys == {Key(u) : u \in Url} \union {<<"path", PathOf[StartURL]>>}
KeysOK == IsFiniteSet(processed) /\ processed \subseteq Keys

\* No path is longer than the number of URLs recorded on the way.
ShallowOK ==
    /\ \A i \in 1 .. Len(queue) : queue[i].depth < Cardinality(processed)
    /\ \A i \in 1 .. Len(results) : results[i].depth < Cardinality(processed)
    /\ \A w \in Workers : /\ pc[w] \in {"get", "got"} => item[w].depth < Cardinality(processed)
                          /\ pc[w] = "send" => out[w].depth < Cardinality(processed)
    /\ cur.depth <= Cardinality(processed)
    /\ cur.included # <<>> => cur.depth < Cardinality(processed)
    /\ \A a \in answered : a.next \in Int /\ a.next <= Cardinality(processed)

\* What was obtained is recorded or not yet read, and what is recorded was fetched, waits
\* for it or was too deep.
AnsweredOK ==
    /\ phase = "start" => answered = {}
    /\ phase # "start" /\ StartURL \in site.allowed => visits[StartURL] > 0
    /\ \A a \in answered : Unbare(a.refs)
    /\ \A a \in answered : \A u \in Targets(a.refs) : Eligible(u) => Recorded(u) \/ Unread(u)
Covers(v, u) == HostOf[v] = scHost /\ PathOf[v] = PathOf[u] /\ (visits[v] > 0 \/ Waits(v))
RecordedOK ==
    \A u \in Url : Eligible(u) /\ Recorded(u) =>
        PathOf[u] = PathOf[StartURL] \/ TooDeep(u) \/ \E v \in Url : Covers(v, u)

\* The coordinator has something in hand only while it handles a result.
HandsOK == coord # "handle" => cur = NoCur

Followed == KeysOK /\ ShallowOK /\ AnsweredOK /\ RecordedOK /\ HandsOK
FollowInv == VisitInv /\ Accounting /\ (Absolute /\ FiltersByPath => Followed)
-------------------------------------------------------------------------------
(* Facts about keys and references *)

\* There is at most one key more than there are URLs: that of the start page.
LEMMA KeysCounted ==
    ASSUME IsFiniteSet(Url)
    PROVE  IsFiniteSet(Keys) /\ Cardinality(Keys) <= Cardinality(Url) + 1
<1>. DEFINE Image == {Key(u) : u \in Url}
<1>1. IsFiniteSet(Image) /\ Cardinality(Image) <= Cardinality(Url)
  <2>. DEFINE key == [u \in Url |-> Key(u)]
  <2>1. key \in Surjection(Url, Image)
    BY DEF Surjection
  <2>. QED
    BY <2>1, FS_Surjection
<1>2. Cardinality(Image) \in Nat /\ Cardinality(Url) \in Nat
  BY <1>1, FS_CardinalityType
<1>3. PICK key : key = <<"path", PathOf[StartURL]>>
  OBVIOUS
<1>4. Keys = Image \union {key}
  BY <1>3 DEF Keys
<1>. HIDE DEF Image
<1>5. CASE key \in Image
  <2>1. Keys = Image
    BY <1>4, <1>5
  <2>. QED
    BY <1>1, <1>2, <2>1
<1>6. CASE key \notin Image
  <2>1. IsFiniteSet(Keys) /\ Cardinality(Keys) = Cardinality(Image) + 1
    BY <1>1, <1>4, <1>6, FS_AddElement
  <2>. QED
    BY <1>1, <1>2, <2>1
<1>. QED
  BY <1>5, <1>6

\* The targets of references that wait to be read: the first and the rest.
LEMMA TargetsOfTail ==
    ASSUME NEW refs \in Seq(Ref), refs # <<>>
    PROVE  Targets(refs) = {Head(refs).to} \union Targets(Tail(refs))
<1>1. /\ Len(refs) \in Nat \ {0} /\ DOMAIN refs = 1 .. Len(refs) /\ Head(refs) = refs[1]
      /\ Tail(refs) \in Seq(Ref) /\ Len(Tail(refs)) = Len(refs) - 1
      /\ DOMAIN Tail(refs) = 1 .. Len(refs) - 1
      /\ \A i \in 1 .. Len(refs) - 1 : Tail(refs)[i] = refs[i + 1]
  BY HeadTailProperties, EmptySeq
<1>2. ASSUME NEW i \in DOMAIN refs
      PROVE  refs[i].to \in {Head(refs).to} \union Targets(Tail(refs))
  <2>1. CASE i = 1
    BY <1>1, <2>1
  <2>2. CASE i # 1
    <3>1. i - 1 \in 1 .. Len(refs) - 1 /\ (i - 1) + 1 = i
      BY <1>1, <2>2
    <3>. QED
      BY <1>1, <3>1 DEF Targets
  <2>. QED
    BY <2>1, <2>2
<1>3. ASSUME NEW i \in DOMAIN Tail(refs) PROVE Tail(refs)[i].to \in Targets(refs)
  <2>1. i + 1 \in DOMAIN refs /\ Tail(refs)[i] = refs[i + 1]
    BY <1>1
  <2>. QED
    BY <2>1 DEF Targets
<1>4. Head(refs).to \in Targets(refs)
  <2>1. 1 \in DOMAIN refs
    BY <1>1
  <2>. QED
    BY <1>1, <2>1 DEF Targets
<1>. QED
  BY <1>2, <1>3, <1>4 DEF Targets

\* What waited may be fetched, and the rest keep waiting, in steps that record nothing.
LEMMA StillRecorded ==
    ASSUME RecordedOK, UNCHANGED <<site, scHost, processed>>, answered \subseteq answered',
           \A u \in Url : visits[u] > 0 => visits'[u] > 0,
           \A u \in Url : HostOf[u] = scHost /\ Waits(u) => visits'[u] > 0 \/ Waits(u)'
    PROVE  RecordedOK'
<1>0. \A u : TooDeep(u) => TooDeep(u)'
  BY DEF TooDeep, Key
<1>. SUFFICES ASSUME NEW u \in Url, Eligible(u), Recorded(u), PathOf[u] # PathOf[StartURL],
                     ~TooDeep(u)
              PROVE  \E v \in Url : /\ HostOf[v] = scHost' /\ PathOf[v] = PathOf[u]
                                    /\ visits'[v] > 0 \/ Waits(v)'
  BY <1>0 DEF RecordedOK, Covers, Eligible, Recorded
<1>1. PICK v \in Url : Covers(v, u)
  BY DEF RecordedOK
<1>. QED
  BY <1>1 DEF Covers

\* What is unread may not get lost in a step that obtains nothing.
LEMMA StillAnswered ==
    ASSUME AnsweredOK, UNCHANGED <<site, scHost, processed, answered>>, phase' = phase,
           \A u \in Url : visits[u] > 0 => visits'[u] > 0,
           \A u : Unread(u) => Unread(u)'
    PROVE  AnsweredOK'
<1>1. StartURL \in Url
  BY ScraperAssumption
<1>2. \A u : Eligible(u)' => Eligible(u)
  BY DEF Eligible
<1>3. \A u : Recorded(u) => Recorded(u)'
  BY DEF Recorded
<1>. QED
  BY <1>1, <1>2, <1>3 DEF AnsweredOK, Unbare
-------------------------------------------------------------------------------
(* What was told *)

\* What waits or is on its way was told before, and what is being downloaded was told and
\* counts as fetched.
ToldOK ==
    /\ \A u : Waits(u) => Told(u)
    /\ \A u, depth : UnreadAt(u, depth) => ToldAt(u, depth)
    /\ \A w \in Workers : pc[w] \in {"get", "got"} => Told(item[w].url) /\ visits[item[w].url] > 0

\* Until the start page is fetched there is nothing to do.
Begun == visits[StartURL] > 0 \/ (coord = "receive" /\ todo = 0 /\ answered = {})

\* A step keeps this if nothing new waits or is unread that it does not obtain.
LEMMA StillTold ==
    ASSUME TypeOK, ToldOK, answered \subseteq answered',
           \A u \in Url : visits[u] > 0 => visits'[u] > 0,
           \A u : Waits(u)' => Waits(u) \/ Unread(u),
           \A u, d : UnreadAt(u, d)' => UnreadAt(u, d) \/ ToldAt(u, d)',
           \A w \in Workers : pc'[w] \in {"get", "got"} =>
                \/ visits'[item'[w].url] > 0 /\ Told(item[w].url)'
                \/ pc[w] \in {"get", "got"} /\ item'[w] = item[w]
    PROVE  ToldOK'
<1>1. \A u : Told(u) => Told(u)'
  BY DEF Told
<1>2. \A w \in Workers : item[w].url \in Url
  BY DEF TypeOK, Item
<1>3. \A w \in Workers : pc'[w] \in {"get", "got"} => Told(item[w].url)' /\ visits'[item'[w].url] > 0
  BY <1>1, <1>2 DEF ToldOK
<1>4. \A u : Waits(u)' => Told(u)'
  <2>1. \A u, d : ToldAt(u, d) => Told(u)
    BY DEF Told, ToldAt
  <2>2. \A u : Unread(u) => Told(u)
    BY <2>1 DEF ToldOK, Unread
  <2>. QED
    BY <1>1, <2>2 DEF ToldOK
<1>5. \A u, d : UnreadAt(u, d)' => ToldAt(u, d)'
  <2>1. \A u, d : ToldAt(u, d) => ToldAt(u, d)'
    BY DEF ToldAt
  <2>. QED
    BY <2>1 DEF ToldOK
<1>. QED
  BY <1>3, <1>4, <1>5 DEF ToldOK

\* What is noted has the references of the result.
LEMMA Noted ==
    ASSUME NEW i, NEW r, Note(i, r)
    PROVE  LET res == ResultOf(i, r)
           IN  /\ answered \subseteq answered'
               /\ \E a \in answered' : a.next = res.depth + 1 /\ a.refs = res.refs
<1>1. PICK res : res = ResultOf(i, r)
  OBVIOUS
<1>2. PICK entry : entry = [url |-> i.url, kind |-> r.kind, next |-> res.depth + 1,
                            refs |-> res.refs]
  OBVIOUS
<1>3. entry.refs = res.refs /\ entry.next = res.depth + 1
  BY <1>2
<1>4. answered' = answered \union {entry}
  BY <1>1, <1>2 DEF Note
<1>. QED
  BY <1>1, <1>3, <1>4

\* The start page is the first that tells.
LEMMA StartTold ==
    ASSUME TypeOK, ToldOK, StartFetch
    PROVE  ToldOK'
<1>1. /\ visits' = [visits EXCEPT ![StartURL] = @ + 1] /\ StartURL \in Url
      /\ UNCHANGED <<queue, cur, pushed, pc, item, out>>
  BY ScraperAssumption DEF StartFetch, workVars
<1>2. \A u \in Url : visits[u] > 0 => visits'[u] > 0
  BY <1>1 DEF TypeOK
<1>3. PICK r \in Outcomes(StartURL) :
        \/ results' = <<ResultOf(NoItem, r)>> /\ Note(NoItem, r)
        \/ results' = results /\ answered' = answered
  BY DEF StartFetch
<1>4. CASE results' = results /\ answered' = answered
  <2>1. \A u, d : (Waits(u)' => Waits(u)) /\ (UnreadAt(u, d)' => UnreadAt(u, d))
    BY <1>1, <1>4 DEF Waits, UnreadAt
  <2>. QED
    BY <1>1, <1>2, <1>4, <2>1, StillTold
<1>5. CASE results' = <<ResultOf(NoItem, r)>> /\ Note(NoItem, r)
  <2>1. PICK res : res = ResultOf(NoItem, r)
    OBVIOUS
  <2>2. \A i \in 1 .. Len(results') : results'[i] = res
    BY <1>5, <2>1
  <2>3. /\ answered \subseteq answered'
        /\ \E a \in answered' : a.next = res.depth + 1 /\ a.refs = res.refs
    BY <1>5, <2>1, Noted
  <2>4. \A u \in Targets(res.refs) : ToldAt(u, res.depth + 1)'
    <3>1. PICK d : d = res.depth + 1
      OBVIOUS
    <3>. QED
      BY <2>3, <3>1 DEF ToldAt
  <2>5. \A u : Waits(u)' => Waits(u)
    BY <1>1 DEF Waits
  <2>6. \A u, d : UnreadAt(u, d)' => UnreadAt(u, d) \/ ToldAt(u, d)'
    BY <1>1, <2>2, <2>4 DEF UnreadAt
  <2>. QED
    BY <1>1, <1>2, <2>3, <2>5, <2>6, StillTold
<1>. QED
  BY <1>3, <1>4, <1>5

\* What is taken was waiting, and is fetched.
LEMMA TakingTold ==
    ASSUME TypeOK, ToldOK, NEW w \in Workers, Take(w)
    PROVE  ToldOK'
<1>1. /\ queue # <<>> /\ queue' = Tail(queue)
      /\ item' = [item EXCEPT ![w] = Head(queue)] /\ pc' = [pc EXCEPT ![w] = "get"]
      /\ visits' = [visits EXCEPT ![Head(queue).url] = @ + 1]
      /\ UNCHANGED <<results, cur, pushed, out, answered>>
  BY DEF Take, Goes, mainVars, coordVars
<1>2. /\ Head(queue) \in Item
      /\ \A i \in 1 .. Len(queue') : queue'[i] = queue[i + 1] /\ i + 1 \in 1 .. Len(queue)
  <2>1. queue \in Seq(Item) /\ queue # <<>>
    BY <1>1 DEF TypeOK
  <2>2. /\ Len(Tail(queue)) = Len(queue) - 1 /\ Len(queue) \in Nat \ {0}
        /\ \A i \in 1 .. Len(Tail(queue)) : Tail(queue)[i] = queue[i + 1]
        /\ Head(queue) \in Item
    BY <2>1, HeadTailProperties, EmptySeq
  <2>. QED
    BY <1>1, <2>2
<1>3. PICK first \in Url : first = Head(queue).url
  BY <1>2 DEF Item
<1>4. \A u \in Url : visits'[u] = IF u = first THEN visits[u] + 1 ELSE visits[u]
  BY <1>1, <1>3 DEF TypeOK
<1>5. visits'[first] > 0 /\ \A u \in Url : visits[u] > 0 => visits'[u] > 0
  <2>1. \A u \in Url : visits[u] \in Nat
    BY DEF TypeOK
  <2>. QED
    BY <1>4, <2>1
<1>6. \A u : Waits(u)' => Waits(u)
  BY <1>1, <1>2 DEF Waits
<1>7. \A v \in Workers : pc'[v] \in {"get", "got"} =>
        \/ visits'[item'[v].url] > 0 /\ Told(item[v].url)'
        \/ pc[v] \in {"get", "got"} /\ item'[v] = item[v]
  <2>1. Head(queue) = queue[1] /\ 1 \in 1 .. Len(queue)
    <3>1. queue \in Seq(Item) /\ queue # <<>>
      BY <1>1 DEF TypeOK
    <3>2. Len(queue) \in Nat \ {0} /\ Head(queue) = queue[1]
      BY <3>1, EmptySeq
    <3>. QED
      BY <3>2
  <2>2. Told(first)'
    BY <1>1, <1>3, <2>1 DEF Waits, ToldOK, Told
  <2>3. \A v \in Workers : \/ pc'[v] \in {"get", "got"} /\ item'[v] = Head(queue)
                           \/ pc'[v] = pc[v] /\ item'[v] = item[v]
    BY <1>1 DEF TypeOK
  <2>. QED
    BY <1>3, <1>5, <2>2, <2>3
<1>8. \A v \in Workers : pc'[v] = "send" => pc[v] = "send"
  BY <1>1 DEF TypeOK
<1>9. \A u, d : UnreadAt(u, d)' => UnreadAt(u, d)
  BY <1>1, <1>8 DEF UnreadAt
<1>. QED
  BY <1>1, <1>5, <1>6, <1>7, <1>9, StillTold

\* An answer tells what it refers to.
LEMMA AnsweringTold ==
    ASSUME TypeOK, ToldOK, NEW w \in Workers, Answer(w)
    PROVE  ToldOK'
<1>1. PICK r \in Answers(item[w].url) :
        out' = [out EXCEPT ![w] = ResultOf(item[w], r)] /\ Note(item[w], r)
  BY DEF Answer, Look, TypeOK, Received
<1>2. /\ pc' = [pc EXCEPT ![w] = "send"]
      /\ UNCHANGED <<queue, results, cur, pushed, item, visits>>
  BY DEF Answer, Look, Goes, mainVars, coordVars
<1>3. PICK res : res = ResultOf(item[w], r)
  OBVIOUS
<1>4. \A v \in Workers : /\ pc'[v] = IF v = w THEN "send" ELSE pc[v]
                         /\ out'[v] = IF v = w THEN res ELSE out[v]
  BY <1>1, <1>2, <1>3 DEF TypeOK
<1>5. /\ answered \subseteq answered'
      /\ \E a \in answered' : a.next = res.depth + 1 /\ a.refs = res.refs
  BY <1>1, <1>3, Noted
<1>6. \A u \in Targets(res.refs) : ToldAt(u, res.depth + 1)'
  <2>1. PICK d : d = res.depth + 1
    OBVIOUS
  <2>. QED
    BY <1>5, <2>1 DEF ToldAt
<1>7. \A u : Waits(u)' => Waits(u)
  BY <1>2 DEF Waits
<1>8. \A u, d : UnreadAt(u, d)' => UnreadAt(u, d) \/ ToldAt(u, d)'
  BY <1>2, <1>4, <1>6 DEF UnreadAt
<1>. QED
  BY <1>2, <1>4, <1>5, <1>7, <1>8, StillTold

\* What is sent was in the result of the worker.
LEMMA SendingTold ==
    ASSUME TypeOK, ToldOK, NEW w \in Workers, Send(w)
    PROVE  ToldOK'
<1>1. /\ pc[w] = "send" /\ pc' = [pc EXCEPT ![w] = "check"]
      /\ UNCHANGED <<queue, cur, pushed, visits, answered>>
      /\ results' = Append(results, out[w])
      /\ item' = [item EXCEPT ![w] = NoItem] /\ out' = [out EXCEPT ![w] = NoResult]
  BY DEF Send, Goes, mainVars, coordVars, histVars
<1>2. \A i \in 1 .. Len(results') :
        \/ i \in 1 .. Len(results) /\ results'[i] = results[i]
        \/ results'[i] = out[w]
  <2>1. results \in Seq(Result) /\ out[w] \in Result
    BY DEF TypeOK
  <2>2. /\ Len(results) \in Nat /\ Len(results') = Len(results) + 1
        /\ \A i \in 1 .. Len(results) : results'[i] = results[i]
        /\ results'[Len(results) + 1] = out[w]
    BY <1>1, <2>1, AppendProperties, LenProperties
  <2>3. \A i \in 1 .. Len(results') : i \in 1 .. Len(results) \/ i = Len(results) + 1
    BY <2>2
  <2>. QED
    BY <2>2, <2>3
<1>3. \A v \in Workers : pc'[v] = "check" \/ (v # w /\ UNCHANGED <<pc[v], item[v], out[v]>>)
  BY <1>1 DEF TypeOK
<1>4. \A u : Waits(u)' => Waits(u)
  BY <1>1 DEF Waits
<1>5. \A u, d : UnreadAt(u, d)' => UnreadAt(u, d)
  BY <1>1, <1>2, <1>3 DEF UnreadAt
<1>. QED
  BY <1>1, <1>3, <1>4, <1>5, StillTold

\* The coordinator moves what it was told from hand to hand.
LEMMA CoordinatingTold ==
    ASSUME TypeOK, ToldOK, coord # "handle" => pushed = 0, Coordinator
    PROVE  ToldOK'
<1>1. UNCHANGED <<pc, item, out, visits, answered>>
  BY DEF Coordinator, Receive, Partition, Push, Settle, workVars, histVars
<1>. SUFFICES /\ \A u : Waits(u)' => Waits(u) \/ Unread(u)
              /\ \A u, d : UnreadAt(u, d)' => UnreadAt(u, d)
  BY <1>1, StillTold
<1>2. CASE Receive
  <2>1. /\ results # <<>> /\ results' = Tail(results) /\ queue' = queue /\ pushed' = 0
        /\ cur'.refs = Head(results).refs /\ cur'.included = <<>>
        /\ cur'.depth = Head(results).depth + 1
    BY <1>2 DEF Receive
  <2>2. /\ Head(results) = results[1] /\ 1 \in 1 .. Len(results)
        /\ \A i \in 1 .. Len(results') : results'[i] = results[i + 1] /\ i + 1 \in 1 .. Len(results)
    <3>1. results \in Seq(Result) /\ results # <<>>
      BY <2>1 DEF TypeOK
    <3>2. /\ Len(Tail(results)) = Len(results) - 1 /\ Len(results) \in Nat \ {0}
          /\ \A i \in 1 .. Len(Tail(results)) : Tail(results)[i] = results[i + 1]
      BY <3>1, HeadTailProperties, EmptySeq
    <3>3. Head(results) = results[1]
      BY <3>1
    <3>. QED
      BY <2>1, <3>2, <3>3
  <2>3. pushed' + 1 .. Len(cur'.included) = {}
    BY <2>1
  <2>4. \A u : Waits(u)' => Waits(u)
    BY <2>1, <2>3 DEF Waits
  <2>5. \A u, d : UnreadAt(u, d)' => UnreadAt(u, d)
    BY <1>1, <2>1, <2>2 DEF UnreadAt
  <2>. QED
    BY <2>4, <2>5
<1>3. CASE Partition
  <2>1. PICK ref : ref = Head(cur.refs)
    OBVIOUS
  <2>2. /\ cur.refs # <<>> /\ cur'.refs = Tail(cur.refs)
        /\ cur'.included \in {cur.included, Append(cur.included, ref.to)}
        /\ cur'.depth = cur.depth /\ UNCHANGED <<queue, results, pushed>>
    BY <1>3, <2>1 DEF Partition, TypeOK
  <2>3. Targets(cur.refs) = {ref.to} \union Targets(cur'.refs)
    BY <2>1, <2>2, TargetsOfTail DEF TypeOK
  <2>4. \A u, d : UnreadAt(u, d)' => UnreadAt(u, d)
    BY <1>1, <2>2, <2>3 DEF UnreadAt
  <2>5. ASSUME NEW i \in pushed + 1 .. Len(cur'.included)
        PROVE  \/ i \in pushed + 1 .. Len(cur.included) /\ cur'.included[i] = cur.included[i]
               \/ cur'.included[i] = ref.to
    <3>1. CASE cur'.included = cur.included
      BY <2>5, <3>1
    <3>2. CASE cur'.included = Append(cur.included, ref.to)
      <4>1. cur.included \in Seq(Url) /\ pushed \in Nat /\ ref.to \in Url
        <5>1. cur.refs \in Seq(Ref) /\ cur.included \in Seq(Url) /\ pushed \in Nat
          BY DEF TypeOK
        <5>2. ref \in Ref
          BY <2>1, <2>2, <5>1, HeadTailProperties, EmptySeq
        <5>. QED
          BY <5>1, <5>2 DEF Ref
      <4>2. /\ Len(cur.included) \in Nat /\ Len(cur'.included) = Len(cur.included) + 1
            /\ \A j \in 1 .. Len(cur.included) : cur'.included[j] = cur.included[j]
            /\ cur'.included[Len(cur.included) + 1] = ref.to
        BY <3>2, <4>1, AppendProperties, LenProperties
      <4>3. i \in pushed + 1 .. Len(cur.included) \/ i = Len(cur.included) + 1
        BY <4>1, <4>2
      <4>4. pushed + 1 .. Len(cur.included) \subseteq 1 .. Len(cur.included)
        BY <4>1, <4>2
      <4>. QED
        BY <4>2, <4>3, <4>4
    <3>. QED
      BY <2>2, <3>1, <3>2
  <2>6. \A u : Waits(u)' => Waits(u) \/ Unread(u)
    BY <2>2, <2>3, <2>5 DEF Waits, Unread, UnreadAt
  <2>. QED
    BY <2>4, <2>6
<1>4. CASE Push
  <2>1. /\ pushed < Len(cur.included) /\ pushed' = pushed + 1 /\ UNCHANGED <<results, cur>>
        /\ queue' = Append(queue, [url |-> cur.included[pushed + 1], depth |-> cur.depth])
    BY <1>4 DEF Push
  <2>2. /\ pushed \in Nat /\ Len(cur.included) \in Nat /\ cur.included \in Seq(Url)
        /\ pushed + 1 \in 1 .. Len(cur.included)
    BY <2>1, LenProperties DEF TypeOK
  <2>3. PICK first \in Url : first = cur.included[pushed + 1]
    BY <2>2, ElementOfSeq
  <2>4. PICK it \in Item : it = [url |-> first, depth |-> cur.depth]
    BY DEF Item, TypeOK
  <2>5. \A i \in 1 .. Len(queue') :
          (i \in 1 .. Len(queue) /\ queue'[i] = queue[i]) \/ queue'[i].url = first
    <3>1. queue \in Seq(Item) /\ queue' = Append(queue, it)
      BY <2>1, <2>3, <2>4 DEF TypeOK
    <3>2. /\ Len(queue) \in Nat /\ Len(queue') = Len(queue) + 1
          /\ \A i \in 1 .. Len(queue) : queue'[i] = queue[i]
          /\ queue'[Len(queue) + 1] = it
      BY <3>1, AppendProperties, LenProperties
    <3>3. \A i \in 1 .. Len(queue') : i \in 1 .. Len(queue) \/ i = Len(queue) + 1
      BY <3>2
    <3>. QED
      BY <2>4, <3>2, <3>3
  <2>6. pushed + 1 \in pushed + 1 .. Len(cur.included)
        /\ pushed' + 1 .. Len(cur'.included) \subseteq pushed + 1 .. Len(cur.included)
    BY <2>1, <2>2
  <2>7. \A u : Waits(u)' => Waits(u)
    BY <2>1, <2>3, <2>5, <2>6 DEF Waits
  <2>8. \A u, d : UnreadAt(u, d)' => UnreadAt(u, d)
    BY <1>1, <2>1 DEF UnreadAt
  <2>. QED
    BY <2>7, <2>8
<1>5. CASE Settle
  <2>1. cur' = NoCur /\ pushed' = 0 /\ UNCHANGED <<queue, results>>
    BY <1>5 DEF Settle
  <2>2. pushed' + 1 .. Len(cur'.included) = {} /\ Targets(cur'.refs) = {}
    BY <2>1 DEF NoCur, Targets
  <2>3. \A u : Waits(u)' => Waits(u)
    BY <2>1, <2>2 DEF Waits
  <2>4. \A u, d : UnreadAt(u, d)' => UnreadAt(u, d)
    BY <1>1, <2>1, <2>2 DEF UnreadAt
  <2>. QED
    BY <2>3, <2>4
<1>. QED
  BY <1>2, <1>3, <1>4, <1>5 DEF Coordinator

\* Whatever else a step does, it moves only what was told.
LEMMA NextTold ==
    ASSUME Accounting, ToldOK, [Next]_vars
    PROVE  ToldOK'
<1>1. TypeOK /\ (coord # "handle" => pushed = 0)
  BY DEF Accounting, CoordinatorOK
<1>2. CASE StartFetch
  BY <1>1, <1>2, StartTold
<1>3. ASSUME NEW w \in Workers, Take(w) \/ Answer(w) \/ Send(w) PROVE ToldOK'
  BY <1>1, <1>3, TakingTold, AnsweringTold, SendingTold
<1>4. CASE Coordinator
  BY <1>1, <1>4, CoordinatingTold
<1>5. ASSUME \/ StartExcluded \/ PoolWait \/ Cancel \/ UNCHANGED vars
             \/ \E w \in Workers : Enter(w) \/ Leave(w) \/ Fetch(w) \/ Retry(w) \/ Fail(w)
      PROVE  ToldOK'
  <2>1. UNCHANGED <<queue, results, cur, pushed, item, out, visits, answered>>
    BY <1>5 DEF StartExcluded, PoolWait, Cancel, Enter, Leave, Fetch, Retry, Fail, mainVars, coordVars,
                workVars, histVars, vars
  <2>2. \A v \in Workers : /\ pc'[v] \in {"get", "got"} => pc[v] \in {"get", "got"}
                           /\ pc'[v] = "send" => pc[v] = "send"
    <3>1. CASE pc' = pc
      BY <3>1
    <3>2. ASSUME NEW w \in Workers, NEW at \in {"select", "get", "got", "done", "failed"},
                 pc' = [pc EXCEPT ![w] = at],
                 at \in {"get", "got"} => pc[w] \in {"get", "got"}
          PROVE  \A v \in Workers : /\ pc'[v] \in {"get", "got"} => pc[v] \in {"get", "got"}
                                    /\ pc'[v] = "send" => pc[v] = "send"
      BY <1>1, <3>2 DEF TypeOK
    <3>3. \A w \in Workers : /\ Enter(w) => pc' = [pc EXCEPT ![w] = "select"]
                             /\ Leave(w) => pc' = [pc EXCEPT ![w] = "done"]
                             /\ Fail(w) => pc' = [pc EXCEPT ![w] = "failed"]
                             /\ Fetch(w) => pc[w] = "get" /\ pc' = [pc EXCEPT ![w] = "got"]
                             /\ Retry(w) => pc[w] = "got" /\ pc' = [pc EXCEPT ![w] = "get"]
      BY DEF Enter, Leave, Fetch, Retry, Fail, Look, Goes
    <3>4. StartExcluded \/ PoolWait \/ Cancel \/ UNCHANGED vars => pc' = pc
      BY DEF StartExcluded, PoolWait, Cancel, workVars, vars
    <3>. QED
      BY <1>5, <3>1, <3>2, <3>3, <3>4
  <2>3. \A u : Waits(u)' => Waits(u)
    BY <2>1 DEF Waits
  <2>4. \A u, d : UnreadAt(u, d)' => UnreadAt(u, d)
    BY <2>1, <2>2 DEF UnreadAt
  <2>. QED
    BY <1>1, <2>1, <2>2, <2>3, <2>4, StillTold
<1>. QED
  BY <1>2, <1>3, <1>4, <1>5 DEF Next, Worker, Terminated

\* Nobody begins before the start page is fetched.
LEMMA NextBegun ==
    ASSUME Accounting, Begun, [Next]_vars
    PROVE  Begun'
<1>1. TypeOK /\ StartURL \in Url
  BY ScraperAssumption DEF Accounting
<1>2. CASE visits'[StartURL] > 0
  BY <1>2 DEF Begun
<1>3. CASE ~(visits'[StartURL] > 0)
  <2>1. ~(visits[StartURL] > 0) /\ ~StartFetch
    <3>1. \A u \in Url : visits[u] \in Nat
      BY <1>1 DEF TypeOK
    <3>2. StartFetch => visits' = [visits EXCEPT ![StartURL] = @ + 1]
      BY DEF StartFetch
    <3>3. visits' = visits \/ \E u : visits' = [visits EXCEPT ![u] = @ + 1]
      BY DEF Next, StartExcluded, StartFetch, PoolWait, Cancel, Worker, Enter, Take, Leave,
             Fetch, Retry, Answer, Fail, Send, Coordinator, Receive, Partition, Push, Settle,
             Terminated, histVars, vars
    <3>4. ASSUME NEW u, visits' = [visits EXCEPT ![u] = @ + 1]
          PROVE  visits'[StartURL] = IF u = StartURL THEN visits[u] + 1 ELSE visits[StartURL]
      BY <1>1, <3>4 DEF TypeOK
    <3>5. visits'[StartURL] \in {visits[StartURL], visits[StartURL] + 1}
      BY <3>3, <3>4
    <3>6. StartFetch => visits'[StartURL] = visits[StartURL] + 1
      BY <3>2, <3>4
    <3>. QED
      BY <1>1, <1>3, <3>1, <3>5, <3>6
  <2>2. coord = "receive" /\ todo = 0 /\ answered = {}
    BY <2>1 DEF Begun
  <2>3. results = <<>> /\ Holding = {}
    <3>1. Outstanding = 0
      BY <2>2 DEF Accounting, WorkCounted, CoordinatorOK
    <3>. QED
      BY <1>1, <3>1, NothingOutstanding
  <2>4. ~Receive /\ ~Partition /\ ~Push /\ ~Settle /\ \A w \in Workers : ~Answer(w)
    BY <2>2, <2>3 DEF Receive, Partition, Push, Settle, Answer, Look, Holding
  <2>5. UNCHANGED <<coord, todo, answered>>
    BY <2>1, <2>4 DEF Next, StartExcluded, PoolWait, Cancel, Worker, Enter, Take, Leave,
                      Fetch, Retry, Fail, Send, Coordinator, Terminated, coordVars, histVars, vars
  <2>. QED
    BY <2>2, <2>5 DEF Begun
<1>. QED
  BY <1>2, <1>3

-------------------------------------------------------------------------------
(* The start *)

\* Before the start page is fetched there is nothing to follow.
LEMMA InitFollowed == Init => Followed
<1>. SUFFICES ASSUME Init PROVE Followed
  OBVIOUS
<1>1. IsFiniteSet(processed) /\ Cardinality(processed) = 0
  BY FS_EmptySet DEF Init
<1>2. KeysOK /\ AnsweredOK /\ RecordedOK /\ HandsOK
  BY <1>1 DEF Init, KeysOK, AnsweredOK, RecordedOK, HandsOK, Recorded
<1>3. ShallowOK
  BY <1>1 DEF Init, ShallowOK, NoCur
<1>. QED
  BY <1>2, <1>3 DEF Followed

\* What the start page refers to is handed over as the first result; the only path that
\* is recorded is its own.
LEMMA StartFollowed ==
    ASSUME TypeOK, Absolute, Filtered, Followed, StartFetch
    PROVE  Followed'
<1>1. /\ phase = "start" /\ phase' # "start" /\ processed' = {Key(StartURL)}
      /\ queue = <<>> /\ results = <<>> /\ cur = NoCur /\ scHost = HostOf[StartURL]
      /\ UNCHANGED <<site, queue, coord, cur, pushed, pc, item, out>>
      /\ \A w \in Workers : pc[w] = "check"
      /\ answered = {} /\ StartURL \in Url
      /\ visits' = [visits EXCEPT ![StartURL] = @ + 1] /\ visits[StartURL] = 0
  BY ScraperAssumption
     DEF StartFetch, Return, Filtered, StartOK, workVars, Followed, AnsweredOK
<1>2. processed' = {<<"path", PathOf[StartURL]>>}
  BY <1>1 DEF Key
<1>3. IsFiniteSet(processed') /\ Cardinality(processed') = 1
  BY <1>2, FS_Singleton
<1>4. KeysOK'
  BY <1>2, <1>3 DEF KeysOK, Keys
<1>5. RecordedOK'
  BY <1>2 DEF RecordedOK, Recorded
<1>6. HandsOK'
  BY <1>1 DEF HandsOK
<1>7. visits'[StartURL] > 0
  BY <1>1 DEF TypeOK
<1>8. PICK r \in Outcomes(StartURL) :
        \/ results' = <<ResultOf(NoItem, r)>> /\ Note(NoItem, r)
        \/ results' = results /\ answered' = answered
  BY DEF StartFetch
<1>9. r \in Response /\ r \in Answers(StartURL)
  BY <1>1, OutcomesType DEF TypeOK
<1>10. PICK res \in Result : res = ResultOf(NoItem, r)
  BY <1>9, ResultOfType, Dummies
<1>11. CASE results' = results /\ answered' = answered
  <2>1. ShallowOK'
    BY <1>1, <1>3, <1>11 DEF ShallowOK, NoCur
  <2>2. AnsweredOK'
    BY <1>1, <1>7, <1>11 DEF AnsweredOK
  <2>. QED
    BY <1>4, <1>5, <1>6, <2>1, <2>2 DEF Followed
<1>12. CASE results' = <<res>> /\ Note(NoItem, r)
  <2>1. res.depth \in {-1, 0}
    BY <1>10 DEF ResultOf, NoItem
  <2>2. Len(results') = 1 /\ results'[1] = res
    BY <1>12
  <2>3. \A i \in 1 .. Len(results') : results'[i] = res
    BY <2>2
  <2>4. \A a \in answered' : a.refs = res.refs /\ a.next = res.depth + 1
    BY <1>1, <1>10, <1>12 DEF Note
  <2>5. Unbare(res.refs)
    BY <1>1, <1>9, <1>10, AnswersUnbare, ResultUnbare, Dummies
  <2>6. \A u \in Targets(res.refs) : Unread(u)'
    BY <2>2 DEF Unread, UnreadAt
  <2>7. AnsweredOK'
    BY <1>1, <1>7, <2>4, <2>5, <2>6 DEF AnsweredOK
  <2>8. ShallowOK'
    <3>1. \A a \in answered' : a.next \in {0, 1}
      BY <2>1, <2>4
    <3>2. \A i \in 1 .. Len(results') : results'[i].depth < 1
      BY <2>1, <2>3
    <3>3. cur'.depth = 0 /\ cur'.included = <<>> /\ queue' = <<>>
      BY <1>1 DEF NoCur
    <3>4. \A w \in Workers : pc'[w] = "check"
      BY <1>1
    <3>. QED
      BY <1>3, <3>1, <3>2, <3>3, <3>4 DEF ShallowOK
  <2>. QED
    BY <1>4, <1>5, <1>6, <2>7, <2>8 DEF Followed
<1>. QED
  BY <1>8, <1>10, <1>11, <1>12

-------------------------------------------------------------------------------
(* The workers *)

\* The steps that touch none of this.
LEMMA QuietFollowed ==
    ASSUME Followed, phase' = phase \/ (phase # "start" /\ phase' # "start"),
           UNCHANGED <<site, scHost, processed, queue, results, coord, cur, pushed, item, out,
                       visits, answered>>,
           \A w \in Workers : /\ pc'[w] \in {"get", "got"} => pc[w] \in {"get", "got"}
                              /\ pc'[w] = "send" <=> pc[w] = "send"
    PROVE  Followed'
<1>1. KeysOK' /\ HandsOK'
  BY DEF Followed, KeysOK, HandsOK, Keys, Key
<1>2. ShallowOK'
  BY DEF Followed, ShallowOK
<1>3. RecordedOK'
  BY StillRecorded DEF Followed, Waits
<1>4. AnsweredOK'
  <2>1. \A u : Unread(u) => Unread(u)'
    BY DEF Unread, UnreadAt
  <2>2. \A u : Eligible(u)' => Eligible(u)
    BY DEF Eligible
  <2>3. \A u : Recorded(u) => Recorded(u)'
    BY DEF Recorded
  <2>. QED
    BY <2>1, <2>2, <2>3 DEF Followed, AnsweredOK
<1>. QED
  BY <1>1, <1>2, <1>3, <1>4 DEF Followed

\* What is taken from the queue is fetched.
LEMMA TakingFollowed ==
    ASSUME TypeOK, Followed, NEW w \in Workers, Take(w)
    PROVE  Followed'
<1>1. /\ queue # <<>> /\ queue' = Tail(queue) /\ pc[w] = "select"
      /\ item' = [item EXCEPT ![w] = Head(queue)] /\ pc' = [pc EXCEPT ![w] = "get"]
      /\ visits' = [visits EXCEPT ![Head(queue).url] = @ + 1]
      /\ UNCHANGED <<phase, site, scHost, processed, results, coord, cur, pushed, out, answered>>
  BY DEF Take, Goes, mainVars, coordVars
<1>2. /\ Len(queue) \in Nat \ {0} /\ Len(queue') = Len(queue) - 1 /\ Head(queue) = queue[1]
      /\ Head(queue) \in Item
      /\ \A i \in 1 .. Len(queue') : queue'[i] = queue[i + 1] /\ i + 1 \in 1 .. Len(queue)
  <2>1. queue \in Seq(Item) /\ queue # <<>>
    BY <1>1 DEF TypeOK
  <2>2. /\ Len(Tail(queue)) = Len(queue) - 1 /\ Len(queue) \in Nat \ {0}
        /\ \A i \in 1 .. Len(Tail(queue)) : Tail(queue)[i] = queue[i + 1]
        /\ Head(queue) \in Item
    BY <2>1, HeadTailProperties, EmptySeq
  <2>3. Head(queue) = queue[1]
    BY <2>1
  <2>. QED
    BY <1>1, <2>2, <2>3
<1>3. PICK first \in Url : first = Head(queue).url
  BY <1>2 DEF Item
<1>4. \A u \in Url : visits'[u] = IF u = first THEN visits[u] + 1 ELSE visits[u]
  BY <1>1, <1>3 DEF TypeOK
<1>5. \A u \in Url : visits[u] \in Nat /\ (visits[u] > 0 => visits'[u] > 0)
  <2>1. \A u \in Url : visits[u] \in Nat
    BY DEF TypeOK
  <2>. QED
    BY <1>4, <2>1
<1>6. KeysOK' /\ HandsOK'
  BY <1>1 DEF Followed, KeysOK, HandsOK, Keys, Key
<1>7. ShallowOK'
  <2>1. queue[1].depth < Cardinality(processed)
    BY <1>2 DEF Followed, ShallowOK
  <2>2. \A v \in Workers : pc'[v] \in {"get", "got"} => item'[v].depth < Cardinality(processed)
    BY <1>1, <1>2, <2>1 DEF Followed, ShallowOK, TypeOK
  <2>3. \A v \in Workers : pc'[v] = "send" => pc[v] = "send"
    BY <1>1 DEF TypeOK
  <2>4. \A i \in 1 .. Len(queue') : queue'[i].depth < Cardinality(processed)
    BY <1>2 DEF Followed, ShallowOK
  <2>. QED
    BY <1>1, <2>2, <2>3, <2>4 DEF Followed, ShallowOK
<1>8. \A u \in Url : Waits(u) => u = first \/ Waits(u)'
  <2>. SUFFICES ASSUME NEW u \in Url, Waits(u), u # first PROVE Waits(u)'
    OBVIOUS
  <2>1. CASE \E i \in 1 .. Len(queue) : queue[i].url = u
    <3>1. PICK i \in 1 .. Len(queue) : queue[i].url = u
      BY <2>1
    <3>2. i # 1
      BY <1>2, <1>3, <3>1
    <3>3. i - 1 \in 1 .. Len(queue') /\ (i - 1) + 1 = i
      BY <1>2, <3>2
    <3>4. queue'[i - 1] = queue[i]
      BY <1>2, <3>3
    <3>. QED
      BY <3>1, <3>3, <3>4 DEF Waits
  <2>2. CASE \E i \in pushed + 1 .. Len(cur.included) : cur.included[i] = u
    BY <1>1, <2>2 DEF Waits
  <2>. QED
    BY <2>1, <2>2 DEF Waits
<1>9. RecordedOK'
  <2>1. visits'[first] > 0
    BY <1>4, <1>5
  <2>2. \A u \in Url : Waits(u) => visits'[u] > 0 \/ Waits(u)'
    BY <1>8, <2>1
  <2>. QED
    BY <1>1, <1>5, <2>2, StillRecorded DEF Followed
<1>10. AnsweredOK'
  <2>1. \A v \in Workers : pc[v] = "send" => pc'[v] = "send"
    BY <1>1 DEF TypeOK
  <2>2. \A u : Unread(u) => Unread(u)'
    BY <1>1, <2>1 DEF Unread, UnreadAt
  <2>. QED
    BY <1>1, <1>5, <2>2, StillAnswered DEF Followed
<1>. QED
  BY <1>6, <1>7, <1>9, <1>10 DEF Followed

\* The references of an answer are on their way in the result of the worker.
LEMMA AnsweringFollowed ==
    ASSUME TypeOK, Absolute, Filtered, Followed, NEW w \in Workers, Answer(w)
    PROVE  Followed'
<1>1. PICK r \in Answers(item[w].url) :
        out' = [out EXCEPT ![w] = ResultOf(item[w], r)] /\ Note(item[w], r)
  BY DEF Answer, Look, TypeOK, Received
<1>2. /\ pc[w] = "got" /\ pc' = [pc EXCEPT ![w] = "send"]
      /\ UNCHANGED <<phase, site, scHost, processed, queue, results, coord, cur, pushed, item,
                     visits>>
  BY DEF Answer, Look, Goes, mainVars, coordVars
<1>3. item[w] \in Item /\ item[w].url \in Url /\ item[w].depth \in Int
  BY DEF TypeOK, Item
<1>4. r \in Response /\ Unbare(r.refs)
  BY <1>1, <1>3, AnswersUnbare, OutcomesType DEF TypeOK
<1>5. PICK res \in Result : res = ResultOf(item[w], r)
  BY <1>3, <1>4, ResultOfType
<1>6. Unbare(res.refs) /\ res.depth \in {item[w].depth - 1, item[w].depth}
  BY <1>3, <1>4, <1>5, ResultUnbare
<1>7. \A v \in Workers : /\ pc'[v] = IF v = w THEN "send" ELSE pc[v]
                         /\ out'[v] = IF v = w THEN res ELSE out[v]
  BY <1>1, <1>2, <1>5 DEF TypeOK
<1>8. KeysOK' /\ HandsOK'
  BY <1>2 DEF Followed, KeysOK, HandsOK, Keys, Key
<1>9. ShallowOK'
  <2>1. Cardinality(processed) \in Nat
    BY FS_CardinalityType DEF Followed, KeysOK
  <2>2. res.depth < Cardinality(processed)
    <3>1. item[w].depth < Cardinality(processed)
      BY <1>2 DEF Followed, ShallowOK
    <3>. QED
      BY <1>3, <1>6, <2>1, <3>1
  <2>3. \A a \in answered' : a \in answered \/ a.next = res.depth + 1
    BY <1>1, <1>5 DEF Note
  <2>4. res.depth + 1 \in Int /\ res.depth + 1 <= Cardinality(processed)
    BY <1>3, <1>6, <2>1, <2>2
  <2>5. PICK n : n = Cardinality(processed) /\ n = Cardinality(processed')
    BY <1>2
  <2>6. \A a \in answered' : a.next \in Int /\ a.next <= n
    BY <2>3, <2>4, <2>5 DEF Followed, ShallowOK
  <2>7. \A v \in Workers : /\ pc'[v] \in {"get", "got"} => item'[v].depth < n
                           /\ pc'[v] = "send" => out'[v].depth < n
    BY <1>2, <1>7, <2>2, <2>5 DEF Followed, ShallowOK
  <2>8. /\ \A i \in 1 .. Len(queue') : queue'[i].depth < n
        /\ \A i \in 1 .. Len(results') : results'[i].depth < n
        /\ cur'.depth <= n /\ (cur'.included # <<>> => cur'.depth < n)
    BY <1>2, <2>5 DEF Followed, ShallowOK
  <2>. QED
    BY <2>5, <2>6, <2>7, <2>8 DEF ShallowOK
<1>10. RecordedOK'
  <2>1. \A u \in Url : Waits(u) => Waits(u)'
    BY <1>2 DEF Waits
  <2>2. answered \subseteq answered'
    BY <1>1, Noted
  <2>. QED
    BY <1>2, <2>1, <2>2, StillRecorded DEF Followed
<1>11. AnsweredOK'
  <2>1. \A a \in answered' : a \in answered \/ a.refs = res.refs
    BY <1>1, <1>5 DEF Note
  <2>2. \A u \in Targets(res.refs) : Unread(u)'
    BY <1>7 DEF Unread, UnreadAt
  <2>3. \A u : Unread(u) => Unread(u)'
    BY <1>2, <1>7 DEF Unread, UnreadAt
  <2>4. phase # "start"
    BY <1>2 DEF Filtered, StartOK
  <2>5. \A a \in answered' : Unbare(a.refs)
    BY <1>6, <2>1 DEF Followed, AnsweredOK
  <2>. QED
    BY <1>2, <2>1, <2>2, <2>3, <2>4, <2>5 DEF Followed, AnsweredOK, Eligible, Recorded
<1>. QED
  BY <1>8, <1>9, <1>10, <1>11 DEF Followed

\* A result that is sent leaves the worker for the channel.
LEMMA SendingFollowed ==
    ASSUME TypeOK, Followed, NEW w \in Workers, Send(w)
    PROVE  Followed'
<1>1. /\ pc[w] = "send" /\ pc' = [pc EXCEPT ![w] = "check"]
      /\ UNCHANGED <<phase, site, scHost, processed, queue, coord, cur, pushed, visits, answered>>
      /\ results' = Append(results, out[w])
      /\ item' = [item EXCEPT ![w] = NoItem] /\ out' = [out EXCEPT ![w] = NoResult]
  BY DEF Send, Goes, mainVars, coordVars, histVars
<1>2. /\ Len(results) \in Nat /\ Len(results') = Len(results) + 1
      /\ \A i \in 1 .. Len(results) : results'[i] = results[i]
      /\ results'[Len(results) + 1] = out[w]
  <2>1. results \in Seq(Result) /\ out[w] \in Result
    BY DEF TypeOK
  <2>. QED
    BY <1>1, <2>1, AppendProperties, LenProperties
<1>3. \A v \in Workers : pc'[v] = "check" \/ (v # w /\ UNCHANGED <<pc[v], item[v], out[v]>>)
  BY <1>1 DEF TypeOK
<1>4. KeysOK' /\ HandsOK'
  BY <1>1 DEF Followed, KeysOK, HandsOK, Keys, Key
<1>5. ShallowOK'
  <2>1. PICK n : n = Cardinality(processed) /\ n = Cardinality(processed')
    BY <1>1
  <2>2. \A i \in 1 .. Len(results') : i \in 1 .. Len(results) \/ i = Len(results) + 1
    BY <1>2
  <2>3. \A i \in 1 .. Len(results') : results'[i].depth < n
    BY <1>1, <1>2, <2>1, <2>2 DEF Followed, ShallowOK
  <2>4. \A v \in Workers : /\ pc'[v] \in {"get", "got"} => item'[v].depth < n
                           /\ pc'[v] = "send" => out'[v].depth < n
    BY <1>3, <2>1 DEF Followed, ShallowOK
  <2>5. /\ \A i \in 1 .. Len(queue') : queue'[i].depth < n
        /\ cur'.depth <= n /\ (cur'.included # <<>> => cur'.depth < n)
        /\ \A a \in answered' : a.next \in Int /\ a.next <= n
    <3>1. queue' = queue /\ cur' = cur /\ answered' = answered
      BY <1>1
    <3>. QED
      BY <2>1, <3>1 DEF Followed, ShallowOK
  <2>. QED
    BY <2>1, <2>3, <2>4, <2>5 DEF ShallowOK
<1>6. RecordedOK'
  <2>1. \A u \in Url : Waits(u) => Waits(u)'
    BY <1>1 DEF Waits
  <2>. QED
    BY <1>1, <2>1, StillRecorded DEF Followed
<1>7. AnsweredOK'
  <2>. SUFFICES ASSUME NEW u, Unread(u) PROVE Unread(u)'
    BY <1>1, StillAnswered DEF Followed
  <2>1. CASE u \in Targets(cur.refs)
    BY <1>1, <2>1 DEF Unread, UnreadAt
  <2>2. ASSUME NEW i \in 1 .. Len(results), u \in Targets(results[i].refs) PROVE Unread(u)'
    <3>1. i \in 1 .. Len(results') /\ results'[i] = results[i]
      BY <1>2
    <3>. QED
      BY <2>2, <3>1 DEF Unread, UnreadAt
  <2>3. ASSUME NEW v \in Workers, pc[v] = "send", u \in Targets(out[v].refs) PROVE Unread(u)'
    <3>1. CASE v = w
      <4>1. Len(results) + 1 \in 1 .. Len(results')
        BY <1>2
      <4>. QED
        BY <1>2, <2>3, <3>1, <4>1 DEF Unread, UnreadAt
    <3>2. CASE v # w
      <4>1. pc'[v] = "send" /\ out'[v] = out[v]
        BY <1>1, <2>3, <3>2 DEF TypeOK
      <4>. QED
        BY <2>3, <4>1 DEF Unread, UnreadAt
    <3>. QED
      BY <3>1, <3>2
  <2>. QED
    BY <2>1, <2>2, <2>3 DEF Unread, UnreadAt
<1>. QED
  BY <1>4, <1>5, <1>6, <1>7 DEF Followed

-------------------------------------------------------------------------------
(* The coordinator *)

\* The result that is received is in the hands of the coordinator, one level deeper.
LEMMA ReceivingFollowed ==
    ASSUME TypeOK, Followed, Receive
    PROVE  Followed'
<1>1. /\ results # <<>> /\ results' = Tail(results) /\ coord = "receive" /\ coord' = "handle"
      /\ cur' = [depth |-> Head(results).depth + 1, refs |-> Head(results).refs,
                 included |-> <<>>]
      /\ UNCHANGED <<phase, site, scHost, processed, queue, pushed, pc, item, out, visits,
                     answered>>
  BY DEF Receive, mainVars, workVars, histVars
<1>2. /\ Head(results) = results[1] /\ 1 \in 1 .. Len(results) /\ Head(results) \in Result
      /\ Len(results) \in Nat /\ Len(results') = Len(results) - 1
      /\ \A i \in 1 .. Len(results') : results'[i] = results[i + 1] /\ i + 1 \in 1 .. Len(results)
  <2>1. results \in Seq(Result) /\ results # <<>>
    BY <1>1 DEF TypeOK
  <2>2. /\ Len(Tail(results)) = Len(results) - 1 /\ Len(results) \in Nat \ {0}
        /\ \A i \in 1 .. Len(Tail(results)) : Tail(results)[i] = results[i + 1]
        /\ Head(results) \in Result
    BY <2>1, HeadTailProperties, EmptySeq
  <2>3. Head(results) = results[1]
    BY <2>1
  <2>. QED
    BY <1>1, <2>2, <2>3
<1>3. cur = NoCur
  BY <1>1 DEF Followed, HandsOK
<1>4. KeysOK' /\ HandsOK'
  BY <1>1 DEF Followed, KeysOK, HandsOK, Keys, Key
<1>5. ShallowOK'
  <2>1. Cardinality(processed) \in Nat
    BY FS_CardinalityType DEF Followed, KeysOK
  <2>2. Head(results).depth \in Int /\ Head(results).depth < Cardinality(processed)
    BY <1>2 DEF Followed, ShallowOK, Result
  <2>3. cur'.depth <= Cardinality(processed) /\ cur'.included = <<>>
    BY <1>1, <2>1, <2>2
  <2>4. \A i \in 1 .. Len(results') : results'[i].depth < Cardinality(processed)
    BY <1>2 DEF Followed, ShallowOK
  <2>5. UNCHANGED <<processed, queue, pc, item, out, answered>>
    BY <1>1
  <2>. QED
    BY <2>3, <2>4, <2>5 DEF Followed, ShallowOK
<1>6. RecordedOK'
  <2>1. pushed + 1 .. Len(cur.included) = {}
    <3>1. Len(cur.included) = 0 /\ pushed \in Nat
      BY <1>3 DEF NoCur, TypeOK
    <3>. QED
      BY <3>1
  <2>2. \A u \in Url : Waits(u) => Waits(u)'
    BY <1>1, <2>1 DEF Waits
  <2>. QED
    BY <1>1, <2>2, StillRecorded DEF Followed
<1>7. AnsweredOK'
  <2>. SUFFICES ASSUME NEW u, Unread(u) PROVE Unread(u)'
    BY <1>1, StillAnswered DEF Followed
  <2>1. CASE u \in Targets(cur.refs)
    BY <1>3, <2>1 DEF NoCur, Targets
  <2>2. ASSUME NEW i \in 1 .. Len(results), u \in Targets(results[i].refs) PROVE Unread(u)'
    <3>1. CASE i = 1
      <4>1. UnreadAt(u, cur.depth)'
        BY <1>1, <1>2, <2>2, <3>1 DEF UnreadAt
      <4>. QED
        BY <4>1 DEF Unread
    <3>2. CASE i # 1
      <4>1. i - 1 \in 1 .. Len(results') /\ (i - 1) + 1 = i
        BY <1>2, <3>2
      <4>2. results'[i - 1] = results[i]
        BY <1>2, <4>1
      <4>. QED
        BY <2>2, <4>1, <4>2 DEF Unread, UnreadAt
    <3>. QED
      BY <3>1, <3>2
  <2>3. CASE \E w \in Workers : pc[w] = "send" /\ u \in Targets(out[w].refs)
    BY <1>1, <2>3 DEF Unread, UnreadAt
  <2>. QED
    BY <2>1, <2>2, <2>3 DEF Unread, UnreadAt
<1>. QED
  BY <1>4, <1>5, <1>6, <1>7 DEF Followed

\* A reference that the filters accept at any depth is recorded, and included unless its
\* path was recorded before or the depth limit refuses it, which was told at its depth.
LEMMA PartitioningFollowed ==
    ASSUME TypeOK, FiltersByPath, Filtered, pushed <= Len(cur.included), Followed, ToldOK,
           Partition
    PROVE  Followed'
<1>1. PICK ref : ref = Head(cur.refs)
  OBVIOUS
<1>2. /\ cur.refs # <<>> /\ coord = "handle" /\ Record(ref)
      /\ cur' = [cur EXCEPT
            !.refs = Tail(@),
            !.included = IF ShouldDownload(ref, cur.depth) THEN Append(@, ref.to) ELSE @]
      /\ UNCHANGED <<phase, site, scHost, queue, results, coord, pushed, pc, item, out, visits,
                     answered>>
  BY <1>1 DEF Partition, mainVars, workVars, histVars
<1>3. /\ cur.refs \in Seq(Ref) /\ cur.included \in Seq(Url) /\ cur.depth \in Int
      /\ pushed \in Nat
  BY DEF TypeOK
<1>4. ref \in Ref /\ ref.to \in Url /\ ~ref.bare
  <2>1. ref \in Ref /\ 1 \in DOMAIN cur.refs /\ ref = cur.refs[1]
    BY <1>1, <1>2, <1>3, HeadTailProperties, EmptySeq, LenProperties
  <2>. QED
    BY <2>1 DEF Ref, Filtered, RefsOK, Unbare
<1>5. PICK u \in Url : u = ref.to
  BY <1>4
<1>6. /\ cur'.depth = cur.depth /\ cur'.refs = Tail(cur.refs)
      /\ cur'.included = IF ShouldDownload(ref, cur.depth) THEN Append(cur.included, u)
                         ELSE cur.included
  BY <1>2, <1>3, <1>5 DEF TypeOK
<1>7. processed' = IF u \in WebUrl THEN processed \union {Key(u)} ELSE processed
  BY <1>2, <1>4, <1>5 DEF Record
<1>8. /\ IsFiniteSet(processed) /\ Cardinality(processed) \in Nat
      /\ IsFiniteSet(processed') /\ Cardinality(processed') \in Nat
      /\ Cardinality(processed) <= Cardinality(processed')
      /\ Key(u) \notin processed /\ u \in WebUrl
           => Cardinality(processed') = Cardinality(processed) + 1
  <2>1. IsFiniteSet(processed) /\ Cardinality(processed) \in Nat
    BY FS_CardinalityType DEF Followed, KeysOK
  <2>2. CASE processed' = processed
    <3>1. ~(Key(u) \notin processed /\ u \in WebUrl)
      BY <1>7, <2>2
    <3>. QED
      BY <2>1, <2>2, <3>1
  <2>3. CASE processed' # processed
    <3>1. Key(u) \notin processed /\ processed' = processed \union {Key(u)}
      BY <1>7, <2>3
    <3>2. IsFiniteSet(processed') /\ Cardinality(processed') = Cardinality(processed) + 1
      BY <2>1, <3>1, FS_AddElement
    <3>. QED
      BY <2>1, <3>2
  <2>. QED
    BY <2>2, <2>3
<1>9. KeysOK' /\ HandsOK'
  <2>1. Keys' = Keys
    BY <1>2 DEF Keys, Key
  <2>2. processed' \subseteq Keys
    BY <1>7 DEF Followed, KeysOK, Keys
  <2>. QED
    BY <1>2, <1>8, <2>1, <2>2 DEF KeysOK, HandsOK
<1>10. ShallowOK'
  <2>1. PICK before, after \in Nat : /\ before = Cardinality(processed)
                                     /\ after = Cardinality(processed') /\ before <= after
    BY <1>8
  <2>2. \A i \in 1 .. Len(queue') : queue'[i].depth < after
    <3>1. \A i \in 1 .. Len(queue) : queue[i].depth \in Int /\ queue[i].depth < before
      <4>1. \A i \in 1 .. Len(queue) : queue[i] \in Item
        BY ElementOfSeq DEF TypeOK
      <4>. QED
        BY <2>1, <4>1 DEF Item, Followed, ShallowOK
    <3>. QED
      BY <1>2, <2>1, <3>1
  <2>3. \A i \in 1 .. Len(results') : results'[i].depth < after
    <3>1. \A i \in 1 .. Len(results) : results[i].depth \in Int /\ results[i].depth < before
      <4>1. \A i \in 1 .. Len(results) : results[i] \in Result
        BY ElementOfSeq DEF TypeOK
      <4>. QED
        BY <2>1, <4>1 DEF Result, Followed, ShallowOK
    <3>. QED
      BY <1>2, <2>1, <3>1
  <2>4. \A w \in Workers : /\ pc'[w] \in {"get", "got"} => item'[w].depth < after
                           /\ pc'[w] = "send" => out'[w].depth < after
    <3>1. \A w \in Workers : item[w].depth \in Int /\ out[w].depth \in Int
      BY DEF TypeOK, Item, Result
    <3>2. \A w \in Workers : /\ pc[w] \in {"get", "got"} => item[w].depth < before
                             /\ pc[w] = "send" => out[w].depth < before
      BY <2>1 DEF Followed, ShallowOK
    <3>. QED
      BY <1>2, <2>1, <3>1, <3>2
  <2>5. cur'.depth <= after
    BY <1>3, <1>6, <2>1 DEF Followed, ShallowOK
  <2>6. ASSUME cur'.included # <<>> PROVE cur'.depth < after
    <3>1. CASE ShouldDownload(ref, cur.depth)
      <4>1. Key(u) \notin processed /\ u \in WebUrl
        BY <1>4, <1>5, <3>1 DEF ShouldDownload
      <4>. QED
        BY <1>3, <1>6, <1>8, <2>1, <4>1 DEF Followed, ShallowOK
    <3>2. CASE ~ShouldDownload(ref, cur.depth)
      <4>1. cur.depth < before
        BY <1>6, <2>1, <2>6, <3>2 DEF Followed, ShallowOK
      <4>. QED
        BY <1>3, <1>6, <2>1, <4>1
    <3>. QED
      BY <3>1, <3>2
  <2>7. \A a \in answered' : a.next \in Int /\ a.next <= after
    BY <1>2, <2>1 DEF Followed, ShallowOK
  <2>. QED
    BY <2>1, <2>2, <2>3, <2>4, <2>5, <2>6, <2>7 DEF ShallowOK
<1>11. \A x : Recorded(x) => Recorded(x)'
  BY <1>7 DEF Recorded
<1>12. AnsweredOK'
  <2>1. Eligible(u) => Recorded(u)'
    BY <1>7 DEF Eligible, Recorded, Key
  <2>2. Targets(cur.refs) = {u} \union Targets(cur'.refs)
    BY <1>1, <1>2, <1>3, <1>5, <1>6, TargetsOfTail
  <2>3. ASSUME NEW x, Unread(x) PROVE x = u \/ Unread(x)'
    BY <1>2, <2>2, <2>3 DEF Unread, UnreadAt
  <2>4. \A x : Eligible(x)' => Eligible(x)
    BY <1>2 DEF Eligible
  <2>. QED
    BY <1>2, <1>11, <2>1, <2>3, <2>4 DEF Followed, AnsweredOK
<1>13. \A x : Waits(x) => Waits(x)'
  <2>. SUFFICES ASSUME NEW x, NEW i \in pushed + 1 .. Len(cur.included), cur.included[i] = x
                PROVE  Waits(x)'
    BY <1>2 DEF Waits
  <2>1. i \in pushed + 1 .. Len(cur'.included) /\ cur'.included[i] = cur.included[i]
    <3>1. CASE cur'.included = cur.included
      BY <3>1
    <3>2. CASE cur'.included = Append(cur.included, u)
      <4>1. /\ Len(cur.included) \in Nat /\ Len(cur'.included) = Len(cur.included) + 1
            /\ \A j \in 1 .. Len(cur.included) : cur'.included[j] = cur.included[j]
        BY <1>3, <3>2, AppendProperties, LenProperties
      <4>2. i \in 1 .. Len(cur.included) /\ i \in pushed + 1 .. Len(cur.included) + 1
        BY <1>3, <4>1
      <4>. QED
        BY <4>1, <4>2
    <3>. QED
      BY <1>6, <3>1, <3>2
  <2>. QED
    BY <1>2, <2>1 DEF Waits
<1>14. ASSUME ShouldDownload(ref, cur.depth) PROVE Waits(u)'
  <2>1. cur'.included = Append(cur.included, u)
    BY <1>6, <1>14
  <2>2. /\ Len(cur.included) \in Nat /\ Len(cur'.included) = Len(cur.included) + 1
        /\ cur'.included[Len(cur.included) + 1] = u
    BY <1>3, <2>1, AppendProperties, LenProperties
  <2>3. Len(cur.included) + 1 \in pushed + 1 .. Len(cur'.included)
    BY <1>3, <2>2
  <2>. QED
    BY <1>2, <2>2, <2>3 DEF Waits
<1>15. ASSUME NEW x \in Url, Eligible(x), Recorded(x)', ~Recorded(x), ~TooDeep(x)
       PROVE  Covers(u, x)'
  <2>1. u \in WebUrl /\ Key(u) = <<"path", PathOf[x]>> /\ Key(u) \notin processed
    BY <1>7, <1>15 DEF Recorded
  <2>2. HostOf[u] = scHost /\ PathOf[u] = PathOf[x]
    BY <2>1 DEF Key
  <2>3. u \in site.allowed
    BY <1>15, <2>2 DEF FiltersByPath, Eligible
  <2>4. cur.depth <= MaxDepth
    <3>1. UnreadAt(u, cur.depth)
      <4>1. u \in Targets(cur.refs)
        BY <1>1, <1>2, <1>3, <1>5, TargetsOfTail
      <4>. QED
        BY <4>1 DEF UnreadAt
    <3>2. ToldAt(u, cur.depth)
      BY <3>1 DEF ToldOK
    <3>3. Key(u) = Key(x)
      BY <1>15, <2>1 DEF Key, Eligible
    <3>4. ~(cur.depth > MaxDepth)
      BY <1>15, <2>1, <3>2, <3>3 DEF TooDeep, ToldAt
    <3>. QED
      BY <1>3, <3>4, ScraperAssumption
  <2>5. ShouldDownload(ref, cur.depth)
    BY <1>5, <2>1, <2>2, <2>3, <2>4 DEF ShouldDownload, Admissible
  <2>. QED
    BY <1>2, <1>14, <2>2, <2>5 DEF Covers
<1>16. RecordedOK'
  <2>1. \A x : TooDeep(x) => TooDeep(x)'
    BY <1>2 DEF TooDeep, Key
  <2>. SUFFICES ASSUME NEW x \in Url, Eligible(x), Recorded(x)', PathOf[x] # PathOf[StartURL],
                       ~TooDeep(x)
                PROVE  \E v \in Url : Covers(v, x)'
    BY <1>2, <2>1 DEF RecordedOK, Eligible
  <2>2. CASE Recorded(x)
    <3>1. PICK v \in Url : Covers(v, x)
      BY <2>2 DEF Followed, RecordedOK
    <3>. QED
      BY <1>2, <1>13, <3>1 DEF Covers
  <2>. QED
    BY <1>15, <2>2
<1>. QED
  BY <1>9, <1>10, <1>12, <1>16 DEF Followed

\* What is pushed goes on waiting in the queue.
LEMMA PushingFollowed ==
    ASSUME TypeOK, Followed, Push
    PROVE  Followed'
<1>1. /\ coord = "handle" /\ pushed < Len(cur.included) /\ pushed' = pushed + 1
      /\ queue' = Append(queue, [url |-> cur.included[pushed + 1], depth |-> cur.depth])
      /\ UNCHANGED <<phase, site, scHost, processed, results, coord, cur, pc, item, out, visits,
                     answered>>
  BY DEF Push, mainVars, workVars, histVars
<1>2. /\ pushed \in Nat /\ Len(cur.included) \in Nat /\ cur.included \in Seq(Url)
      /\ pushed + 1 \in 1 .. Len(cur.included)
  BY <1>1, LenProperties DEF TypeOK
<1>3. PICK first \in Url : first = cur.included[pushed + 1]
  BY <1>2, ElementOfSeq
<1>4. PICK it \in Item : it = [url |-> first, depth |-> cur.depth]
  BY DEF Item, TypeOK
<1>5. /\ Len(queue) \in Nat /\ Len(queue') = Len(queue) + 1
      /\ \A i \in 1 .. Len(queue) : queue'[i] = queue[i]
      /\ queue'[Len(queue) + 1] = it
  <2>1. queue \in Seq(Item) /\ queue' = Append(queue, it)
    BY <1>1, <1>3, <1>4 DEF TypeOK
  <2>. QED
    BY <2>1, AppendProperties, LenProperties
<1>6. KeysOK' /\ HandsOK'
  BY <1>1 DEF Followed, KeysOK, HandsOK, Keys, Key
<1>7. ShallowOK'
  <2>1. cur.included # <<>>
    BY <1>2
  <2>2. PICK n : n = Cardinality(processed) /\ n = Cardinality(processed')
    BY <1>1
  <2>3. it.depth < n
    BY <1>4, <2>1, <2>2 DEF Followed, ShallowOK
  <2>4. \A i \in 1 .. Len(queue') : i \in 1 .. Len(queue) \/ i = Len(queue) + 1
    BY <1>5
  <2>5. \A i \in 1 .. Len(queue') : queue'[i].depth < n
    BY <1>5, <2>2, <2>3, <2>4 DEF Followed, ShallowOK
  <2>6. /\ \A i \in 1 .. Len(results') : results'[i].depth < n
        /\ \A w \in Workers : /\ pc'[w] \in {"get", "got"} => item'[w].depth < n
                              /\ pc'[w] = "send" => out'[w].depth < n
        /\ cur'.depth <= n /\ (cur'.included # <<>> => cur'.depth < n)
        /\ \A a \in answered' : a.next \in Int /\ a.next <= n
    BY <1>1, <2>2 DEF Followed, ShallowOK
  <2>. QED
    BY <2>2, <2>5, <2>6 DEF ShallowOK
<1>8. RecordedOK'
  <2>. SUFFICES ASSUME NEW u \in Url, Waits(u) PROVE Waits(u)'
    BY <1>1, StillRecorded DEF Followed
  <2>1. ASSUME NEW i \in 1 .. Len(queue), queue[i].url = u PROVE Waits(u)'
    <3>1. i \in 1 .. Len(queue') /\ queue'[i].url = u
      BY <1>5, <2>1
    <3>. QED
      BY <3>1 DEF Waits
  <2>2. ASSUME NEW i \in pushed + 1 .. Len(cur.included), cur.included[i] = u PROVE Waits(u)'
    <3>1. CASE i = pushed + 1
      <4>1. Len(queue) + 1 \in 1 .. Len(queue') /\ queue'[Len(queue) + 1].url = u
        BY <1>3, <1>4, <1>5, <2>2, <3>1
      <4>. QED
        BY <4>1 DEF Waits
    <3>2. CASE i # pushed + 1
      <4>1. i \in pushed' + 1 .. Len(cur'.included) /\ cur'.included[i] = u
        BY <1>1, <1>2, <2>2, <3>2
      <4>. QED
        BY <4>1 DEF Waits
    <3>. QED
      BY <3>1, <3>2
  <2>. QED
    BY <2>1, <2>2 DEF Waits
<1>9. AnsweredOK'
  <2>1. \A u : Unread(u) => Unread(u)'
    BY <1>1 DEF Unread, UnreadAt
  <2>. QED
    BY <1>1, <2>1, StillAnswered DEF Followed
<1>. QED
  BY <1>6, <1>7, <1>8, <1>9 DEF Followed

\* When all is read and pushed the coordinator has nothing to lose.
LEMMA SettlingFollowed ==
    ASSUME TypeOK, Followed, Settle
    PROVE  Followed'
<1>1. /\ cur.refs = <<>> /\ pushed = Len(cur.included) /\ cur' = NoCur /\ pushed' = 0
      /\ UNCHANGED <<phase, site, scHost, processed, queue, results, pc, item, out, visits,
                     answered>>
  BY DEF Settle, mainVars, workVars, histVars
<1>2. KeysOK' /\ HandsOK'
  BY <1>1 DEF Followed, KeysOK, HandsOK, Keys, Key
<1>3. ShallowOK'
  <2>1. PICK n \in Nat : n = Cardinality(processed) /\ n = Cardinality(processed')
    BY <1>1, FS_CardinalityType DEF Followed, KeysOK
  <2>2. cur'.depth <= n /\ cur'.included = <<>>
    BY <1>1, <2>1 DEF NoCur
  <2>3. /\ \A i \in 1 .. Len(queue') : queue'[i].depth < n
        /\ \A i \in 1 .. Len(results') : results'[i].depth < n
        /\ \A w \in Workers : /\ pc'[w] \in {"get", "got"} => item'[w].depth < n
                              /\ pc'[w] = "send" => out'[w].depth < n
        /\ \A a \in answered' : a.next \in Int /\ a.next <= n
    BY <1>1, <2>1 DEF Followed, ShallowOK
  <2>. QED
    BY <2>1, <2>2, <2>3 DEF ShallowOK
<1>4. RecordedOK'
  <2>1. pushed + 1 .. Len(cur.included) = {}
    BY <1>1 DEF TypeOK
  <2>2. \A u \in Url : Waits(u) => Waits(u)'
    BY <1>1, <2>1 DEF Waits
  <2>. QED
    BY <1>1, <2>2, StillRecorded DEF Followed
<1>5. AnsweredOK'
  <2>1. Targets(cur.refs) = {}
    BY <1>1 DEF Targets
  <2>2. \A u : Unread(u) => Unread(u)'
    BY <1>1, <2>1 DEF Unread, UnreadAt
  <2>. QED
    BY <1>1, <2>2, StillAnswered DEF Followed
<1>. QED
  BY <1>2, <1>3, <1>4, <1>5 DEF Followed

-------------------------------------------------------------------------------
(* The theorems *)

\* When nothing waits and nothing is unread, all that was told is fetched by its path or
\* was too deep.
LEMMA NothingLeft ==
    ASSUME TypeOK, Filtered, Followed, Begun, Outstanding = 0,
           cur.refs = <<>>, pushed = Len(cur.included),
           NEW u \in Url, Eligible(u), Told(u), ~TooDeep(u)
    PROVE  \E v \in Url : /\ visits[v] > 0 /\ PathOf[v] = PathOf[u]
                          /\ v = StartURL \/ HostOf[v] = scHost
<1>1. queue = <<>> /\ results = <<>> /\ Holding = {}
  BY NothingOutstanding
<1>2. \A x : ~Waits(x) /\ ~Unread(x)
  <2>1. /\ 1 .. Len(queue) = {} /\ 1 .. Len(results) = {}
        /\ pushed + 1 .. Len(cur.included) = {} /\ Targets(cur.refs) = {}
    BY <1>1 DEF Targets, TypeOK
  <2>2. \A w \in Workers : pc[w] # "send"
    BY <1>1 DEF Holding
  <2>. QED
    BY <2>1, <2>2 DEF Waits, Unread, UnreadAt
<1>3. Recorded(u)
  BY <1>2 DEF Followed, AnsweredOK, Told
<1>4. CASE PathOf[u] = PathOf[StartURL]
  <2>1. StartURL \in Url /\ visits[StartURL] > 0
    BY ScraperAssumption DEF Begun, Told
  <2>. QED
    BY <1>4, <2>1
<1>5. CASE \E v \in Url : Covers(v, u)
  BY <1>2, <1>5 DEF Covers
<1>. QED
  BY <1>3, <1>4, <1>5 DEF Followed, RecordedOK

\* Every step keeps the invariant.
LEMMA NextFollowInv ==
    ASSUME FollowInv, ToldOK, [Next]_vars
    PROVE  FollowInv'
<1>1. VisitInv' /\ Accounting'
  BY NextVisitInv, NextType, NextWorkCounted, NextCoordinatorOK, NextWorkersOK
     DEF FollowInv, Accounting
<1>. SUFFICES ASSUME Absolute', FiltersByPath' PROVE Followed'
  BY <1>1 DEF FollowInv
<1>2. TypeOK /\ pushed <= Len(cur.included)
  BY DEF FollowInv, Accounting, CoordinatorOK
<1>3. site' = site
  BY DEF Next, StartExcluded, StartFetch, PoolWait, Cancel, Worker, Enter, Take, Leave,
         Fetch, Retry, Answer, Fail, Send, Coordinator, Receive, Partition, Push, Settle,
         Terminated, mainVars, vars
<1>4. Absolute /\ FiltersByPath
  BY <1>3 DEF Absolute, FiltersByPath
<1>5. Filtered /\ Followed
  BY <1>4 DEF FollowInv, VisitInv
<1>6. CASE StartExcluded
  <2>1. /\ phase = "start" /\ phase' # "start" /\ processed' = {Key(StartURL)}
        /\ StartURL \notin site.allowed /\ queue = <<>> /\ results = <<>> /\ cur = NoCur
        /\ scHost = HostOf[StartURL] /\ answered = {} /\ StartURL \in Url
        /\ \A w \in Workers : pc[w] = "check"
        /\ UNCHANGED <<site, scHost, queue, results, coord, cur, pushed, pc, answered>>
    BY <1>5, <1>6, ScraperAssumption
       DEF StartExcluded, Return, workVars, histVars, Filtered, StartOK, Followed, AnsweredOK
  <2>2. processed' = {<<"path", PathOf[StartURL]>>}
    BY <2>1 DEF Key
  <2>3. IsFiniteSet(processed') /\ Cardinality(processed') = 1
    BY <2>2, FS_Singleton
  <2>4. KeysOK'
    BY <2>2, <2>3 DEF KeysOK, Keys
  <2>5. ShallowOK'
    BY <2>1, <2>3 DEF ShallowOK, NoCur
  <2>6. AnsweredOK' /\ HandsOK'
    BY <2>1 DEF AnsweredOK, HandsOK
  <2>7. RecordedOK'
    BY <2>2 DEF RecordedOK, Recorded
  <2>. QED
    BY <2>4, <2>5, <2>6, <2>7 DEF Followed
<1>7. CASE StartFetch
  BY <1>2, <1>4, <1>5, <1>7, StartFollowed
<1>8. ASSUME \/ PoolWait \/ Cancel
             \/ \E w \in Workers : Enter(w) \/ Leave(w) \/ Fetch(w) \/ Retry(w) \/ Fail(w)
      PROVE  Followed'
  <2>1. phase # "start"
    BY <1>5, <1>8 DEF PoolWait, Cancel, Enter, Leave, Fetch, Retry, Fail, Look, Filtered, StartOK
  <2>2. /\ phase' # "start"
        /\ UNCHANGED <<site, scHost, processed, queue, results, coord, cur, pushed, item, out,
                       visits, answered>>
    BY <1>8, <2>1 DEF PoolWait, Return, Cancel, Enter, Leave, Fetch, Retry, Fail,
                      mainVars, coordVars, workVars, histVars
  <2>3. \A w \in Workers : /\ pc'[w] \in {"get", "got"} => pc[w] \in {"get", "got"}
                           /\ pc'[w] = "send" <=> pc[w] = "send"
    <3>1. CASE pc' = pc
      BY <3>1
    <3>2. ASSUME NEW v \in Workers, NEW at \in {"select", "get", "got", "done", "failed"},
                 pc[v] # "send", pc' = [pc EXCEPT ![v] = at],
                 at \in {"get", "got"} => pc[v] \in {"get", "got"}
          PROVE  \A w \in Workers : /\ pc'[w] \in {"get", "got"} => pc[w] \in {"get", "got"}
                                    /\ pc'[w] = "send" <=> pc[w] = "send"
      BY <1>2, <3>2 DEF TypeOK
    <3>3. \A v \in Workers : /\ Enter(v) => pc[v] # "send" /\ pc' = [pc EXCEPT ![v] = "select"]
                             /\ Leave(v) => pc[v] # "send" /\ pc' = [pc EXCEPT ![v] = "done"]
                             /\ Fail(v) => pc[v] # "send" /\ pc' = [pc EXCEPT ![v] = "failed"]
                             /\ Fetch(v) => pc[v] = "get" /\ pc' = [pc EXCEPT ![v] = "got"]
                             /\ Retry(v) => pc[v] = "got" /\ pc' = [pc EXCEPT ![v] = "get"]
      BY DEF Enter, Leave, Fetch, Retry, Fail, Look, Goes
    <3>4. PoolWait \/ Cancel => pc' = pc
      BY DEF PoolWait, Cancel, workVars
    <3>. QED
      BY <1>8, <3>1, <3>2, <3>3, <3>4
  <2>. QED
    BY <1>5, <2>1, <2>2, <2>3, QuietFollowed
<1>9. ASSUME NEW w \in Workers, Take(w) \/ Answer(w) \/ Send(w) PROVE Followed'
  BY <1>2, <1>4, <1>5, <1>9, TakingFollowed, AnsweringFollowed, SendingFollowed
<1>10. CASE Coordinator
  BY <1>2, <1>4, <1>5, <1>10, ReceivingFollowed, PartitioningFollowed, PushingFollowed,
     SettlingFollowed DEF Coordinator
<1>11. CASE UNCHANGED vars
  <2>1. UNCHANGED <<phase, site, scHost, processed, queue, results, coord, cur, pushed, pc, item,
                    out, visits, answered>>
    BY <1>11 DEF vars
  <2>. QED
    BY <1>5, <2>1, QuietFollowed
<1>. QED
  BY <1>6, <1>7, <1>8, <1>9, <1>10, <1>11 DEF Next, Worker, Terminated

\* What waits or is on its way was told at its depth, whatever the sites and the limits.
THEOREM ToldInvariant == Spec => [](ToldOK /\ Begun)
<1>1. Init => ToldOK /\ Begun
  <2>. SUFFICES ASSUME Init PROVE ToldOK /\ Begun
    OBVIOUS
  <2>1. queue = <<>> /\ results = <<>> /\ cur = NoCur /\ pushed = 0 /\ answered = {}
        /\ coord = "receive" /\ todo = 0 /\ \A w \in Workers : pc[w] = "check"
    BY DEF Init
  <2>2. /\ 1 .. Len(queue) = {} /\ 1 .. Len(results) = {}
        /\ pushed + 1 .. Len(cur.included) = {} /\ Targets(cur.refs) = {}
    BY <2>1 DEF NoCur, Targets
  <2>. QED
    BY <2>1, <2>2 DEF ToldOK, Begun, Waits, UnreadAt
<1>2. Accounting /\ ToldOK /\ Begun /\ [Next]_vars => (ToldOK /\ Begun)'
  BY NextTold, NextBegun
<1>. QED
  BY AccountingHolds, <1>1, <1>2, PTL DEF Spec

\* The invariant holds whatever the workers and the coordinator do.
THEOREM FollowInvariant == Spec => []FollowInv
<1>1. Init => FollowInv
  BY InitVisitInv, InitAccounting, InitFollowed DEF FollowInv
<1>2. FollowInv /\ ToldOK /\ [Next]_vars => FollowInv'
  BY NextFollowInv
<1>. QED
  BY ToldInvariant, <1>1, <1>2, PTL DEF Spec

\* Once the queue is closed, what was told is fetched under its key or was too deep.
LEMMA FetchedOrTooDeep ==
    ASSUME FollowInv, Begun, Absolute, FiltersByPath, NotMovedInPlace, coord = "closed",
           NEW u \in Url, Eligible(u), Told(u), ~TooDeep(u)
    PROVE  Fetched(Key(u))
<1>1. Followed /\ Filtered /\ TypeOK
  BY DEF FollowInv, VisitInv
<1>2. Outstanding = 0 /\ cur.refs = <<>> /\ pushed = Len(cur.included)
  <2>1. todo = 0 /\ pushed = 0
    BY DEF FollowInv, Accounting, CoordinatorOK
  <2>2. Outstanding = 0
    BY <2>1 DEF FollowInv, Accounting, WorkCounted
  <2>3. cur = NoCur
    BY <1>1 DEF Followed, HandsOK
  <2>. QED
    BY <2>1, <2>2, <2>3 DEF NoCur
<1>3. PICK v \in Url : /\ visits[v] > 0 /\ PathOf[v] = PathOf[u]
                       /\ v = StartURL \/ HostOf[v] = scHost
  BY <1>1, <1>2, NothingLeft
<1>4. HostOf[v] = scHost /\ HostOf[u] = scHost
  BY <1>3 DEF NotMovedInPlace, Eligible
<1>. QED
  BY <1>3, <1>4 DEF Fetched, Key

\* Whatever the depth limit and the order in which workers and coordinator run, the crawl
\* loses only what some way leads to below the limit, provided that the filters see the
\* path only, as recorded, and that the start page has not moved to the same path of
\* another host (checks.go:15-62, scraper.go:135-212).
THEOREM LostOnlyByDepthHolds ==
    Spec => [](FiltersByPath /\ NotMovedInPlace => LostOnlyByDepth)
<1>1. FollowInv /\ Begun => (FiltersByPath /\ NotMovedInPlace => LostOnlyByDepth)
  BY FetchedOrTooDeep DEF LostOnlyByDepth
<1>. QED
  BY FollowInvariant, ToldInvariant, <1>1, PTL

\* No depth exceeds the number of recorded keys, hence a limit above the number of URLs.
LEMMA NothingTooDeep ==
    ASSUME Unlimited, KeysOK, ShallowOK
    PROVE  \A u : ~TooDeep(u)
<1>1. IsFiniteSet(Keys) /\ Cardinality(Keys) <= Cardinality(Url) + 1
  BY KeysCounted DEF Unlimited
<1>2. Cardinality(processed) <= Cardinality(Keys)
  BY <1>1, FS_Subset DEF KeysOK
<1>3. /\ Cardinality(Keys) \in Nat /\ Cardinality(processed) \in Nat
      /\ Cardinality(Url) \in Nat /\ MaxDepth \in Nat
  BY <1>1, FS_CardinalityType, ScraperAssumption DEF Unlimited, KeysOK
<1>4. Cardinality(processed) <= MaxDepth
  BY <1>1, <1>2, <1>3 DEF Unlimited
<1>5. \A a \in answered : ~(a.next > MaxDepth)
  BY <1>3, <1>4 DEF ShallowOK
<1>. QED
  BY <1>5 DEF TooDeep

\* At unlimited depth the crawl loses no reference, whatever the order in which workers and
\* coordinator run, provided that the filters see the path only, as recorded, and that the
\* start page has not moved to the same path of another host (checks.go:15-62,
\* scraper.go:135-212).
THEOREM CompleteUnlimited ==
    ASSUME Unlimited
    PROVE  Spec => [](Absolute /\ FiltersByPath /\ NotMovedInPlace => Complete)
<1>1. FollowInv /\ Begun => (Absolute /\ FiltersByPath /\ NotMovedInPlace => Complete)
  <2>. SUFFICES ASSUME FollowInv, Begun, Absolute, FiltersByPath, NotMovedInPlace,
                       coord = "closed", NEW a \in answered, NEW i \in DOMAIN a.refs,
                       a.refs[i].bare \/ (a.refs[i].to \in WebUrl
                                            /\ Admissible(a.refs[i].to, a.next))
                PROVE  Fetched(Key(a.refs[i].to))
    BY DEF Complete
  <2>1. Followed
    BY DEF FollowInv
  <2>2. PICK u \in Url : u = a.refs[i].to /\ Eligible(u) /\ Told(u)
    <3>1. ~a.refs[i].bare
      BY <2>1 DEF Followed, AnsweredOK, Unbare
    <3>. QED
      BY <3>1, ScraperAssumption DEF Eligible, Admissible, Targets, Told
  <2>3. ~TooDeep(u)
    BY <2>1, NothingTooDeep DEF Followed
  <2>. QED
    BY <2>2, <2>3, FetchedOrTooDeep
<1>. QED
  BY FollowInvariant, ToldInvariant, <1>1, PTL

\* What a result tells is among what its URL may refer to.
LEMMA TellsReferred ==
    ASSUME site \in Sites, NEW i \in Item, NEW r \in Answers(i.url)
    PROVE  Targets(ResultOf(i, r).refs) \subseteq Refers[i.url]
<1>1. i.url \in Url
  BY DEF Item
<1>2. PICK u \in Url : u = i.url
  BY <1>1
<1>3. Refers[u] = {u} \union UNION {Targets(s.refs) : s \in site.responds[u]}
  BY DEF Refers
<1>4. CASE r.kind = "tooMany"
  <2>1. ResultOf(i, r).refs = <<[to |-> u, bare |-> FALSE]>>
    BY <1>2, <1>4 DEF ResultOf
  <2>2. Targets(ResultOf(i, r).refs) = {u}
    BY <2>1 DEF Targets
  <2>. QED
    BY <1>2, <1>3, <2>2
<1>5. CASE r.kind # "tooMany"
  <2>1. ResultOf(i, r).refs = r.refs
    BY <1>5 DEF ResultOf
  <2>2. CASE r \in site.responds[u]
    BY <1>2, <1>3, <2>1, <2>2
  <2>3. CASE r = NoAnswer
    <3>1. Targets(r.refs) = {}
      BY <2>3 DEF Targets, NoAnswer
    <3>. QED
      BY <2>1, <3>1
  <2>. QED
    BY <1>2, <2>2, <2>3 DEF Answers
<1>. QED
  BY <1>4, <1>5

\* Every step of the crawl is a step of the search, or none.
LEMMA StepSearches ==
    ASSUME Unlimited, FollowInv, ToldOK, Begun, Absolute, FiltersByPath, [Next]_vars
    PROVE  [Search!Next]_(Search!vars)
<1>1. TypeOK /\ Filtered /\ Followed /\ StartURL \in Url
  BY ScraperAssumption DEF FollowInv, VisitInv
<1>2. ASSUME UNCHANGED <<site, scHost, visits, answered>>, coord' = "closed" <=> coord = "closed"
      PROVE  UNCHANGED Search!vars
  BY <1>2 DEF Search!vars, Scope, Eligible, Refers, Found, Told, Visited
<1>3. CASE StartFetch
  <2>1. /\ phase = "start" /\ coord = "receive" /\ coord' = coord /\ site' = site
        /\ visits' = [visits EXCEPT ![StartURL] = @ + 1] /\ answered = {}
        /\ \A u \in Url : visits[u] = 0
    BY <1>1, <1>3 DEF StartFetch, Filtered, StartOK, Followed, AnsweredOK
  <2>2. Visited = {} /\ Visited' = {StartURL}
    <3>1. \A u \in Url : visits'[u] = IF u = StartURL THEN 1 ELSE 0
      BY <1>1, <2>1 DEF TypeOK
    <3>. QED
      BY <1>1, <2>1, <3>1 DEF Visited
  <2>3. Refers' = Refers /\ Scope' \subseteq Url
    BY <2>1 DEF Refers, Scope
  <2>4. Found' \subseteq Refers[StartURL] \intersect Scope'
    <3>1. PICK r \in Outcomes(StartURL) : Note(NoItem, r) \/ answered' = answered
      BY <1>3 DEF StartFetch
    <3>2. PICK res : res = ResultOf(NoItem, r)
      OBVIOUS
    <3>3. \A a \in answered' : a.refs = res.refs
      BY <2>1, <3>1, <3>2 DEF Note
    <3>4. Targets(res.refs) \subseteq Refers[StartURL]
      <4>1. NoItem \in Item /\ NoItem.url = StartURL
        BY Dummies DEF NoItem
      <4>. QED
        BY <1>1, <3>1, <3>2, <4>1, OutcomesType, TellsReferred DEF TypeOK
    <3>. QED
      BY <3>3, <3>4 DEF Found, Told
  <2>5. Search!Begin
    BY <2>1, <2>2, <2>3, <2>4 DEF Search!Begin
  <2>. QED
    BY <2>5 DEF Search!Next
<1>4. ASSUME NEW w \in Workers, Take(w) PROVE Search!Next
  <2>1. /\ queue # <<>> /\ pc[w] = "select" /\ UNCHANGED <<site, scHost, answered, coord>>
        /\ visits' = [visits EXCEPT ![Head(queue).url] = @ + 1]
    BY <1>4 DEF Take, mainVars, coordVars
  <2>2. Head(queue) = queue[1] /\ 1 \in 1 .. Len(queue) /\ Head(queue) \in Item
    <3>1. queue \in Seq(Item) /\ queue # <<>>
      BY <1>1, <2>1 DEF TypeOK
    <3>2. Len(queue) \in Nat \ {0} /\ Head(queue) = queue[1] /\ Head(queue) \in Item
      BY <3>1, EmptySeq, HeadTailProperties
    <3>. QED
      BY <3>2
  <2>3. PICK u \in Url : u = Head(queue).url
    BY <2>2 DEF Item
  <2>4. Fresh(u) /\ Told(u)
    BY <1>1, <2>2, <2>3 DEF Filtered, QueueOK, ToldOK, Waits
  <2>5. u \in Found /\ ~Search!SamePath(u)
    BY <2>4 DEF Fresh, Good, Unfetched, Found, Scope, Eligible, Visited, Search!SamePath
  <2>6. Visited' = Visited \union {u}
    <3>1. \A v \in Url : visits[v] \in Nat
      BY <1>1 DEF TypeOK
    <3>2. \A v \in Url : visits'[v] = IF v = u THEN visits[v] + 1 ELSE visits[v]
      BY <1>1, <2>1, <2>3 DEF TypeOK
    <3>3. \A v \in Url : visits'[v] > 0 <=> visits[v] > 0 \/ v = u
      BY <3>1, <3>2
    <3>. QED
      BY <3>3 DEF Visited
  <2>7. UNCHANGED <<Scope, Refers, Found>>
    BY <2>1 DEF Scope, Eligible, Refers, Found, Told
  <2>8. coord # "closed"
    <3>1. todo = 0 /\ pushed = 0 => queue = <<>>
      BY <1>1, NothingOutstanding DEF FollowInv, Accounting, WorkCounted
    <3>. QED
      BY <2>1, <3>1 DEF FollowInv, Accounting, CoordinatorOK
  <2>9. Search!Fetch(u)
    BY <2>1, <2>5, <2>6, <2>7, <2>8 DEF Search!Fetch
  <2>. QED
    BY <2>9 DEF Search!Next
<1>5. ASSUME NEW w \in Workers, Answer(w) PROVE Search!Next
  <2>1. PICK r \in Answers(item[w].url) : Note(item[w], r)
    BY <1>1, <1>5 DEF Answer, Look, TypeOK, Received
  <2>2. pc[w] = "got" /\ UNCHANGED <<site, scHost, visits, coord>>
    BY <1>5 DEF Answer, Look, mainVars, coordVars
  <2>3. PICK it \in Item : it = item[w]
    BY <1>1 DEF TypeOK
  <2>4. PICK u \in Url : u = it.url
    BY <2>3 DEF Item
  <2>5. u \in Visited
    BY <2>2, <2>3, <2>4 DEF Visited, ToldOK
  <2>6. PICK res : res = ResultOf(it, r)
    OBVIOUS
  <2>7. answered \subseteq answered' /\ \A a \in answered' : a \in answered \/ a.refs = res.refs
    BY <2>1, <2>3, <2>6 DEF Note
  <2>8. Targets(res.refs) \subseteq Refers[u]
    BY <1>1, <2>1, <2>3, <2>4, <2>6, TellsReferred DEF TypeOK
  <2>9. UNCHANGED <<Scope, Refers, Visited>>
    BY <2>2 DEF Scope, Eligible, Refers, Visited
  <2>10. Found \subseteq Found' /\ Found' \subseteq Found \union (Refers[u] \intersect Scope)
    <3>1. \A x \in Url : Eligible(x)' <=> Eligible(x)
      BY <2>2 DEF Eligible
    <3>. QED
      BY <2>7, <2>8, <2>9, <3>1 DEF Found, Told
  <2>11. coord # "closed"
    <3>1. todo = 0 /\ pushed = 0 => Holding = {}
      BY <1>1, NothingOutstanding DEF FollowInv, Accounting, WorkCounted
    <3>2. w \in Holding
      BY <2>2 DEF Holding
    <3>. QED
      BY <3>1, <3>2 DEF FollowInv, Accounting, CoordinatorOK
  <2>12. Search!Read(u)
    BY <2>2, <2>5, <2>9, <2>10, <2>11 DEF Search!Read
  <2>. QED
    BY <2>12 DEF Search!Next
<1>6. CASE Settle /\ coord' = "closed"
  <2>1. /\ coord = "handle" /\ cur.refs = <<>> /\ pushed = Len(cur.included) /\ Count = 0
        /\ UNCHANGED <<site, scHost, visits, answered>>
    BY <1>6 DEF Settle, mainVars, histVars
  <2>2. Outstanding = 0
    BY <2>1 DEF Count, FollowInv, Accounting, WorkCounted
  <2>3. \A u \in Found : Search!SamePath(u)
    <3>1. \A u : ~TooDeep(u)
      BY <1>1, NothingTooDeep DEF Followed
    <3>. QED
      BY <1>1, <2>1, <2>2, <3>1, NothingLeft DEF Found, Scope, Visited, Search!SamePath
  <2>4. Visited # {}
    <3>1. visits[StartURL] > 0
      BY <2>1 DEF Begun
    <3>. QED
      BY <1>1, <3>1 DEF Visited
  <2>5. UNCHANGED <<Scope, Refers, Found, Visited>>
    BY <2>1 DEF Scope, Eligible, Refers, Found, Told, Visited
  <2>6. Search!Finish
    BY <1>6, <2>1, <2>3, <2>4, <2>5 DEF Search!Finish
  <2>. QED
    BY <2>6 DEF Search!Next
<1>7. ASSUME \/ StartExcluded \/ PoolWait \/ Cancel \/ UNCHANGED vars
             \/ \E w \in Workers : \/ Enter(w) \/ Leave(w) \/ Fetch(w)
                                   \/ Retry(w) \/ Fail(w) \/ Send(w)
             \/ Receive \/ Partition \/ Push \/ (Settle /\ coord' # "closed")
      PROVE  UNCHANGED Search!vars
  <2>1. UNCHANGED <<site, scHost, visits, answered>> /\ (coord' = "closed" <=> coord = "closed")
    BY <1>7 DEF StartExcluded, PoolWait, Cancel, Enter, Leave, Fetch, Retry, Fail, Send, Receive,
                Partition, Push, Settle, mainVars, coordVars, histVars, vars
  <2>. QED
    BY <1>2, <2>1
<1>. QED
  BY <1>3, <1>4, <1>5, <1>6, <1>7 DEF Next, Worker, Coordinator, Terminated

\* At unlimited depth the workers, the queue and the coordinator make one search of the site,
\* in which every page was found on a page fetched before it, no path is fetched twice, and
\* which ends when nothing that was found is left (scraper.go:135-221, checks.go:10-62).
THEOREM CrawlSearches ==
    ASSUME Unlimited
    PROVE  Spec /\ Absolute /\ FiltersByPath => ImplementsSearch
<1>1. Init => Search!Init
  <2>. SUFFICES ASSUME Init PROVE Search!Init
    OBVIOUS
  <2>1. Scope \subseteq Url /\ Found = {} /\ Visited = {} /\ coord # "closed"
    BY DEF Init, Scope, Found, Told, Visited
  <2>2. Refers \in [Url -> SUBSET Url]
    <3>1. \A u \in Url : site.responds[u] \subseteq Response
      BY ScraperAssumption DEF Init, Site
    <3>2. ASSUME NEW r \in Response, NEW i \in DOMAIN r.refs PROVE r.refs[i].to \in Url
      <4>1. PICK refs \in Seq(Ref) : refs = r.refs
        BY DEF Response
      <4>2. refs[i] \in Ref
        BY <4>1
      <4>. QED
        BY <4>1, <4>2 DEF Ref
    <3>. QED
      BY <3>1, <3>2 DEF Refers, Targets
  <2>. QED
    BY <2>1, <2>2 DEF Search!Init
<1>2. FollowInv /\ ToldOK /\ Begun /\ Absolute /\ FiltersByPath /\ [Next]_vars
        => [Search!Next]_(Search!vars)
  BY StepSearches
<1>3. Absolute /\ FiltersByPath /\ [Next]_vars => (Absolute /\ FiltersByPath)'
  <2>. SUFFICES ASSUME [Next]_vars PROVE site' = site
    BY DEF Absolute, FiltersByPath
  <2>. QED
    BY DEF Next, StartExcluded, StartFetch, PoolWait, Cancel, Worker, Enter, Take, Leave,
           Fetch, Retry, Answer, Fail, Send, Coordinator, Receive, Partition, Push, Settle,
           Terminated, mainVars, vars
<1>. QED
  BY FollowInvariant, ToldInvariant, <1>1, <1>2, <1>3, PTL DEF Spec, ImplementsSearch, Search!Spec

===============================================================================
