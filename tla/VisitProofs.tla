------------------------------ MODULE VisitProofs ------------------------------
(***************************************************************************)
(* Proofs about what the crawl fetches, for any number of workers, any     *)
(* sites that hand out no bare references and any limits: no URL twice,    *)
(* nothing that the filters exclude, and nothing below the depth limit.    *)
(*                                                                         *)
(* The URLs that wait, in the queue or in the hands of the coordinator,    *)
(* have paths that are recorded as processed, that differ from one another *)
(* and that were never fetched; a reference is accepted only when its path *)
(* is not recorded.                                                        *)
(***************************************************************************)
EXTENDS ScraperProofs

-------------------------------------------------------------------------------
(* The invariant *)

\* Before the start page is fetched there is nothing.
StartOK ==
    /\ phase = "start" =>
        /\ queue = <<>> /\ results = <<>> /\ cur = NoCur /\ pushed = 0
        /\ processed = {} /\ scHost = HostOf[StartURL] /\ coord = "receive"
        /\ \A u \in Url : visits[u] = 0
        /\ \A w \in Workers : pc[w] = "check"
    /\ phase # "start" => <<"path", PathOf[StartURL]>> \in processed

\* No reference on its way to the filters is bare.
Unbare(refs) == \A i \in DOMAIN refs : ~refs[i].bare
RefsOK ==
    /\ Unbare(cur.refs)
    /\ \A i \in 1 .. Len(results) : Unbare(results[i].refs)
    /\ \A w \in Workers : Unbare(out[w].refs)

\* The depth of a result may be one less than that of its item; what was included
\* passed the depth check.
DepthsOK ==
    /\ cur.depth >= 0
    /\ cur.included # <<>> => cur.depth <= MaxDepth
    /\ \A i \in 1 .. Len(results) : results[i].depth >= -1
    /\ \A w \in Workers : out[w].depth >= -1
    /\ \A i \in 1 .. Len(queue) : queue[i].depth \in 0 .. MaxDepth
    /\ \A w \in Workers : item[w].depth \in 0 .. MaxDepth

\* What passed the filters, and what is recorded and was not fetched.
Good(u) ==
    /\ u \in WebUrl /\ u \in site.allowed /\ HostOf[u] = scHost
    /\ PathOf[u] # PathOf[StartURL]
Recorded(u) == <<"path", PathOf[u]>> \in processed
Unfetched(u) == \A v \in Url : visits[v] > 0 => PathOf[v] # PathOf[u]
Fresh(u) == Good(u) /\ Recorded(u) /\ Unfetched(u)

VisitedOK ==
    \A u \in Url : visits[u] > 0 =>
        /\ visits[u] = 1 /\ Recorded(u)
        /\ u = StartURL \/ Good(u)
        /\ \A v \in Url : visits[v] > 0 /\ PathOf[u] = PathOf[v] => u = v

QueueOK ==
    \A i \in 1 .. Len(queue) :
        /\ Fresh(queue[i].url)
        /\ \A j \in 1 .. Len(queue) : PathOf[queue[i].url] = PathOf[queue[j].url] => i = j

IncludedOK ==
    \A i \in pushed + 1 .. Len(cur.included) :
        /\ Fresh(cur.included[i])
        /\ \A j \in pushed + 1 .. Len(cur.included) :
            PathOf[cur.included[i]] = PathOf[cur.included[j]] => i = j
        /\ \A j \in 1 .. Len(queue) : PathOf[cur.included[i]] # PathOf[queue[j].url]

Filtered == StartOK /\ RefsOK /\ DepthsOK /\ VisitedOK /\ QueueOK /\ IncludedOK
VisitInv == TypeOK /\ (Absolute => Filtered)

-------------------------------------------------------------------------------
(* Facts about references *)

\* A site that hands out no bare references gives none, whatever happens.
LEMMA AnswersUnbare ==
    ASSUME Absolute, NEW u \in Url, NEW r \in Answers(u)
    PROVE  Unbare(r.refs)
<1>1. CASE r \in site.responds[u]
  BY <1>1 DEF Absolute, Unbare
<1>2. CASE r = NoAnswer
  BY <1>2 DEF Unbare, NoAnswer
<1>. QED
  BY <1>1, <1>2 DEF Answers

\* Nor does a result, and its depth is at most one less than that of the item.
LEMMA ResultUnbare ==
    ASSUME NEW i \in Item, NEW r \in Response, Unbare(r.refs)
    PROVE  /\ Unbare(ResultOf(i, r).refs)
           /\ ResultOf(i, r).depth \in {i.depth - 1, i.depth}
<1>1. Unbare(<<[to |-> i.url, bare |-> FALSE]>>)
  BY DEF Unbare
<1>. QED
  BY <1>1 DEF ResultOf

-------------------------------------------------------------------------------
(* The start *)

\* The initial state satisfies the invariant.
LEMMA InitVisitInv == Init => VisitInv
<1>. SUFFICES ASSUME Init PROVE VisitInv
  OBVIOUS
<1>1. StartOK
  BY DEF Init, StartOK
<1>2. RefsOK
  BY DEF Init, RefsOK, Unbare, NoCur, NoResult
<1>3. DepthsOK
  BY ScraperAssumption DEF Init, DepthsOK, NoCur, NoResult, NoItem
<1>4. VisitedOK /\ QueueOK /\ IncludedOK
  BY DEF Init, VisitedOK, QueueOK, IncludedOK, NoCur
<1>. QED
  BY <1>1, <1>2, <1>3, <1>4, InitType DEF VisitInv, Filtered

\* Fetching the start page records its path, whatever its host becomes.
LEMMA StartFetched ==
    ASSUME TypeOK, Absolute, Filtered, StartFetch
    PROVE  Filtered'
<1>1. /\ phase = "start" /\ phase' # "start" /\ StartURL \in Url
      /\ queue' = queue /\ cur' = cur /\ pushed' = pushed /\ item' = item /\ out' = out
      /\ queue = <<>> /\ cur = NoCur /\ results = <<>>
      /\ scHost = HostOf[StartURL] /\ processed' = {Key(StartURL)} /\ site' = site
  BY ScraperAssumption DEF StartFetch, Return, Filtered, StartOK, workVars
<1>2. processed' = {<<"path", PathOf[StartURL]>>}
  BY <1>1 DEF Key
<1>3. \A u \in Url : visits'[u] = IF u = StartURL THEN 1 ELSE 0
  BY <1>1 DEF StartFetch, Filtered, StartOK, TypeOK
<1>4. StartOK'
  BY <1>1, <1>2 DEF StartOK
<1>5. /\ RefsOK' /\ DepthsOK'
  <2>1. PICK r \in Outcomes(StartURL) :
          results' = <<ResultOf(NoItem, r)>> \/ results' = results
    BY DEF StartFetch
  <2>2. r \in Response /\ Unbare(r.refs)
    BY <1>1, AnswersUnbare, OutcomesType DEF TypeOK
  <2>3. Unbare(ResultOf(NoItem, r).refs) /\ ResultOf(NoItem, r).depth >= -1
    BY <2>2, ResultUnbare, Dummies DEF NoItem
  <2>4. \A i \in 1 .. Len(results') : Unbare(results'[i].refs) /\ results'[i].depth >= -1
    <3>1. PICK res : res = ResultOf(NoItem, r)
      OBVIOUS
    <3>2. CASE results' = <<res>>
      BY <2>3, <3>1, <3>2
    <3>3. CASE results' = <<>>
      BY <3>3
    <3>. QED
      BY <1>1, <2>1, <3>1, <3>2, <3>3
  <2>. QED
    BY <1>1, <2>4 DEF Filtered, RefsOK, DepthsOK
<1>6. VisitedOK'
  BY <1>1, <1>2, <1>3 DEF VisitedOK, Recorded
<1>7. QueueOK' /\ IncludedOK'
  <2>1. /\ Len(queue') = 0 /\ Len(cur'.included) = 0 /\ pushed' \in Nat
    BY <1>1 DEF NoCur, TypeOK
  <2>2. QueueOK'
    BY <2>1 DEF QueueOK
  <2>3. IncludedOK'
    <3>1. PICK from, to : from = pushed' /\ to = Len(cur'.included)
      OBVIOUS
    <3>2. from \in Nat /\ to = 0
      BY <2>1, <3>1
    <3>3. from + 1 .. to = {}
      BY <3>2
    <3>. QED
      BY <3>1, <3>3 DEF IncludedOK
  <2>. QED
    BY <2>2, <2>3
<1>. QED
  BY <1>4, <1>5, <1>6, <1>7 DEF Filtered

-------------------------------------------------------------------------------
(* The workers *)

\* An item that is taken is fetched for the first time, and leaves the queue.
LEMMA TakingVisits ==
    ASSUME TypeOK, Absolute, Filtered, NEW w \in Workers, Take(w)
    PROVE  Filtered'
<1>1. /\ queue # <<>> /\ queue' = Tail(queue) /\ pc[w] = "select"
      /\ item' = [item EXCEPT ![w] = Head(queue)]
      /\ visits' = [visits EXCEPT ![Head(queue).url] = @ + 1]
      /\ phase' = phase /\ processed' = processed /\ scHost' = scHost /\ site' = site
      /\ results' = results /\ cur' = cur /\ pushed' = pushed /\ out' = out
  BY DEF Take, mainVars, coordVars
<1>2. /\ Len(queue) \in Nat /\ Len(queue') = Len(queue) - 1 /\ 1 \in 1 .. Len(queue)
      /\ Head(queue) = queue[1]
      /\ \A i \in 1 .. Len(queue') : queue'[i] = queue[i + 1] /\ i + 1 \in 1 .. Len(queue)
  <2>1. queue \in Seq(Item) /\ queue # <<>>
    BY <1>1 DEF TypeOK
  <2>2. /\ Len(Tail(queue)) = Len(queue) - 1 /\ Len(queue) \in Nat \ {0}
        /\ \A i \in 1 .. Len(Tail(queue)) : Tail(queue)[i] = queue[i + 1]
    BY <2>1, HeadTailProperties, EmptySeq
  <2>3. Head(queue) = queue[1]
    BY <2>1
  <2>. QED
    BY <1>1, <2>2, <2>3
<1>3. PICK u \in Url : u = queue[1].url
  <2>1. queue \in Seq(Item) /\ 1 \in 1 .. Len(queue)
    BY <1>2 DEF TypeOK
  <2>2. queue[1] \in Item
    BY <2>1, ElementOfSeq
  <2>. QED
    BY <2>2 DEF Item
<1>4. Fresh(u) /\ visits[u] = 0
  <2>1. Fresh(u)
    BY <1>2, <1>3 DEF Filtered, QueueOK
  <2>2. visits[u] \in Nat
    BY DEF TypeOK
  <2>. QED
    BY <2>1, <2>2 DEF Fresh, Unfetched
<1>5. \A v \in Url : visits'[v] = IF v = u THEN 1 ELSE visits[v]
  BY <1>1, <1>2, <1>3, <1>4 DEF TypeOK
<1>6. phase # "start"
  BY <1>1 DEF Filtered, StartOK
<1>7. StartOK' /\ RefsOK'
  BY <1>1, <1>6 DEF Filtered, StartOK, RefsOK
<1>8. DepthsOK'
  <2>1. \A i \in 1 .. Len(queue') : queue'[i].depth \in 0 .. MaxDepth
    BY <1>2 DEF Filtered, DepthsOK
  <2>2. \A v \in Workers : item'[v].depth \in 0 .. MaxDepth
    BY <1>1, <1>2 DEF Filtered, DepthsOK, TypeOK
  <2>. QED
    BY <1>1, <2>1, <2>2 DEF Filtered, DepthsOK
<1>9. VisitedOK'
  <2>. SUFFICES ASSUME NEW v \in Url, visits'[v] > 0
                PROVE  /\ visits'[v] = 1 /\ Recorded(v)'
                       /\ v = StartURL \/ Good(v)'
                       /\ \A x \in Url : visits'[x] > 0 /\ PathOf[v] = PathOf[x] => v = x
    BY DEF VisitedOK, Recorded, Good
  <2>1. Recorded(v)' = Recorded(v) /\ Good(v)' = Good(v)
    BY <1>1 DEF Recorded, Good
  <2>2. CASE v = u
    BY <1>4, <1>5, <2>1, <2>2 DEF Fresh, Unfetched
  <2>3. CASE v # u
    BY <1>4, <1>5, <2>1, <2>3 DEF Filtered, VisitedOK, Fresh, Unfetched
  <2>. QED
    BY <2>2, <2>3
<1>10. ASSUME NEW x \in Url, Fresh(x), PathOf[x] # PathOf[u] PROVE Fresh(x)'
  BY <1>1, <1>5, <1>10 DEF Fresh, Good, Recorded, Unfetched
<1>11. QueueOK'
  <2>. SUFFICES ASSUME NEW i \in 1 .. Len(queue')
                PROVE  /\ Fresh(queue[i].url)'
                       /\ \A j \in 1 .. Len(queue') :
                            PathOf[queue'[i].url] = PathOf[queue'[j].url] => i = j
    BY DEF QueueOK
  <2>1. queue'[i] = queue[i + 1] /\ i + 1 \in 1 .. Len(queue) /\ i + 1 # 1
    BY <1>2
  <2>2. queue[i + 1].url \in Url
    <3>1. queue \in Seq(Item) /\ i + 1 \in 1 .. Len(queue)
      BY <2>1 DEF TypeOK
    <3>2. queue[i + 1] \in Item
      BY <3>1, ElementOfSeq
    <3>. QED
      BY <3>2 DEF Item
  <2>3. Fresh(queue[i + 1].url) /\ PathOf[queue[i + 1].url] # PathOf[u]
    BY <1>2, <1>3, <2>1 DEF Filtered, QueueOK
  <2>4. PICK x \in Url : x = queue[i + 1].url
    BY <2>2
  <2>5. Fresh(x)'
    BY <1>10, <2>3, <2>4
  <2>6. Fresh(queue[i].url)'
    BY <2>1, <2>4, <2>5 DEF Fresh, Good, Recorded, Unfetched
  <2>7. ASSUME NEW j \in 1 .. Len(queue'), PathOf[queue'[i].url] = PathOf[queue'[j].url]
        PROVE  i = j
    <3>1. queue'[j] = queue[j + 1] /\ j + 1 \in 1 .. Len(queue)
      BY <1>2
    <3>2. i + 1 = j + 1
      BY <2>1, <2>7, <3>1 DEF Filtered, QueueOK
    <3>. QED
      BY <3>2
  <2>. QED
    BY <2>6, <2>7
<1>12. IncludedOK'
  <2>. SUFFICES ASSUME NEW i \in pushed + 1 .. Len(cur.included)
                PROVE  /\ Fresh(cur.included[i])'
                       /\ \A j \in 1 .. Len(queue') :
                            PathOf[cur.included[i]] # PathOf[queue'[j].url]
    BY <1>1 DEF Filtered, IncludedOK
  <2>1. cur.included[i] \in Url
    BY ElementOfSeq DEF TypeOK
  <2>2. PICK x \in Url : x = cur.included[i]
    BY <2>1
  <2>3. /\ Fresh(x) /\ PathOf[x] # PathOf[u]
        /\ \A j \in 1 .. Len(queue) : PathOf[x] # PathOf[queue[j].url]
    BY <1>2, <1>3, <2>2 DEF Filtered, IncludedOK
  <2>4. Fresh(x)'
    BY <1>10, <2>3
  <2>. QED
    BY <1>1, <1>2, <2>2, <2>3, <2>4 DEF Fresh, Good, Recorded, Unfetched
<1>. QED
  BY <1>7, <1>8, <1>9, <1>11, <1>12 DEF Filtered
\* A step that moves no work keeps all of it.
LEMMA Quiet ==
    ASSUME Filtered, phase # "start", phase' # "start",
           UNCHANGED <<site, scHost, processed, queue, results, cur, pushed, item, out, visits>>
    PROVE  Filtered'
<1>1. StartOK' /\ RefsOK' /\ DepthsOK'
  BY DEF Filtered, StartOK, RefsOK, DepthsOK
<1>2. VisitedOK' /\ QueueOK' /\ IncludedOK'
  BY DEF Filtered, VisitedOK, QueueOK, IncludedOK, Fresh, Good, Recorded, Unfetched
<1>. QED
  BY <1>1, <1>2 DEF Filtered

\* A result refers only to what the site gave, one level up at most.
LEMMA Answering ==
    ASSUME TypeOK, Absolute, Filtered, NEW w \in Workers, Answer(w)
    PROVE  Filtered'
<1>1. PICK r \in Answers(item[w].url) : out' = [out EXCEPT ![w] = ResultOf(item[w], r)]
  BY DEF Answer, Look, TypeOK, Received
<1>2. /\ phase' = phase /\ pc[w] = "got"
      /\ UNCHANGED <<site, scHost, processed, queue, results, cur, pushed, item, visits>>
  BY DEF Answer, Look, mainVars, coordVars
<1>3. phase # "start"
  BY <1>2 DEF Filtered, StartOK
<1>4. item[w] \in Item /\ item[w].url \in Url
  BY DEF TypeOK, Item
<1>5. r \in Response /\ Unbare(r.refs)
  BY <1>1, <1>4, AnswersUnbare, OutcomesType DEF TypeOK
<1>6. item[w].depth \in Nat
  BY ScraperAssumption DEF Filtered, DepthsOK
<1>7. PICK res : res = ResultOf(item[w], r) /\ Unbare(res.refs) /\ res.depth >= -1
  BY <1>4, <1>5, <1>6, ResultUnbare
<1>8. \A v \in Workers : Unbare(out'[v].refs) /\ out'[v].depth >= -1
  BY <1>1, <1>7 DEF Filtered, RefsOK, DepthsOK, TypeOK
<1>9. StartOK' /\ RefsOK' /\ DepthsOK'
  BY <1>2, <1>3, <1>8 DEF Filtered, StartOK, RefsOK, DepthsOK
<1>10. VisitedOK' /\ QueueOK' /\ IncludedOK'
  <2>2. VisitedOK'
    BY <1>2 DEF Filtered, VisitedOK, Good, Recorded
  <2>3. QueueOK'
    BY <1>2 DEF Filtered, QueueOK, Fresh, Good, Recorded, Unfetched
  <2>4. IncludedOK'
    BY <1>2 DEF Filtered, IncludedOK, Fresh, Good, Recorded, Unfetched
  <2>. QED
    BY <2>2, <2>3, <2>4
<1>. QED
  BY <1>9, <1>10 DEF Filtered

\* Sending hands it over as it is.
LEMMA Sending ==
    ASSUME TypeOK, Filtered, NEW w \in Workers, Send(w)
    PROVE  Filtered'
<1>1. /\ phase' = phase /\ pc[w] = "send"
      /\ UNCHANGED <<site, scHost, processed, queue, cur, pushed, visits>>
      /\ results' = Append(results, out[w])
      /\ item' = [item EXCEPT ![w] = NoItem] /\ out' = [out EXCEPT ![w] = NoResult]
  BY DEF Send, mainVars, coordVars, histVars
<1>2. phase # "start"
  BY <1>1 DEF Filtered, StartOK
<1>3. /\ \A v \in Workers : Unbare(out'[v].refs) /\ out'[v].depth >= -1
      /\ \A v \in Workers : item'[v].depth \in 0 .. MaxDepth
  BY <1>1, ScraperAssumption
     DEF Filtered, RefsOK, DepthsOK, TypeOK, NoItem, NoResult, Unbare
<1>4. \A i \in 1 .. Len(results') : Unbare(results'[i].refs) /\ results'[i].depth >= -1
  <2>1. results \in Seq(Result) /\ out[w] \in Result
    BY DEF TypeOK
  <2>2. /\ Len(results) \in Nat /\ Len(results') = Len(results) + 1
        /\ \A i \in 1 .. Len(results) : results'[i] = results[i]
        /\ results'[Len(results) + 1] = out[w]
    BY <1>1, <2>1, AppendProperties, LenProperties
  <2>3. Unbare(out[w].refs) /\ out[w].depth >= -1
    BY DEF Filtered, RefsOK, DepthsOK
  <2>4. \A i \in 1 .. Len(results) : Unbare(results'[i].refs) /\ results'[i].depth >= -1
    BY <2>2 DEF Filtered, RefsOK, DepthsOK
  <2>5. ASSUME NEW i \in 1 .. Len(results') PROVE i \in 1 .. Len(results) \/ i = Len(results) + 1
    BY <2>2
  <2>. QED
    BY <2>2, <2>3, <2>4, <2>5
<1>5. StartOK' /\ RefsOK' /\ DepthsOK'
  BY <1>1, <1>2, <1>3, <1>4 DEF Filtered, StartOK, RefsOK, DepthsOK
<1>6. VisitedOK' /\ QueueOK' /\ IncludedOK'
  <2>2. VisitedOK'
    BY <1>1 DEF Filtered, VisitedOK, Good, Recorded
  <2>3. QueueOK'
    BY <1>1 DEF Filtered, QueueOK, Fresh, Good, Recorded, Unfetched
  <2>4. IncludedOK'
    BY <1>1 DEF Filtered, IncludedOK, Fresh, Good, Recorded, Unfetched
  <2>. QED
    BY <2>2, <2>3, <2>4
<1>. QED
  BY <1>5, <1>6 DEF Filtered

-------------------------------------------------------------------------------
(* The coordinator *)

\* A result that is received is one level deeper, and nothing of it is included yet.
LEMMA Receiving ==
    ASSUME TypeOK, Filtered, Receive
    PROVE  Filtered'
<1>1. /\ phase' = phase /\ results # <<>> /\ results' = Tail(results)
      /\ cur' = [depth |-> Head(results).depth + 1, refs |-> Head(results).refs,
                 included |-> <<>>]
      /\ UNCHANGED <<site, scHost, processed, queue, pushed, item, out, visits>>
  BY DEF Receive, mainVars, workVars, histVars
<1>2. phase # "start"
  BY <1>1 DEF Filtered, StartOK
<1>3. /\ Head(results) = results[1] /\ 1 \in 1 .. Len(results) /\ Head(results) \in Result
      /\ \A i \in 1 .. Len(results') : results'[i] = results[i + 1] /\ i + 1 \in 1 .. Len(results)
  <2>1. results \in Seq(Result) /\ results # <<>>
    BY <1>1 DEF TypeOK
  <2>2. /\ Len(Tail(results)) = Len(results) - 1 /\ Len(results) \in Nat \ {0}
        /\ \A i \in 1 .. Len(Tail(results)) : Tail(results)[i] = results[i + 1]
        /\ Head(results) \in Result
    BY <2>1, HeadTailProperties, EmptySeq
  <2>3. Head(results) = results[1]
    BY <2>1
  <2>. QED
    BY <1>1, <2>2, <2>3
<1>4. /\ Unbare(cur'.refs) /\ cur'.depth >= 0 /\ cur'.included = <<>> /\ Len(cur'.included) = 0
  <2>1. Unbare(Head(results).refs) /\ Head(results).depth >= -1
    BY <1>3 DEF Filtered, RefsOK, DepthsOK
  <2>2. Head(results).depth \in Int
    BY <1>3 DEF Result
  <2>. QED
    BY <1>1, <2>1, <2>2
<1>5. StartOK' /\ RefsOK' /\ DepthsOK'
  BY <1>1, <1>2, <1>3, <1>4 DEF Filtered, StartOK, RefsOK, DepthsOK
<1>6. VisitedOK' /\ QueueOK'
  BY <1>1 DEF Filtered, VisitedOK, QueueOK, Fresh, Good, Recorded, Unfetched
<1>7. IncludedOK'
  <2>1. pushed' \in Nat
    BY <1>1 DEF TypeOK
  <2>2. PICK from, to : from = pushed' /\ to = Len(cur'.included)
    OBVIOUS
  <2>3. from \in Nat /\ to = 0
    BY <1>4, <2>1, <2>2
  <2>4. from + 1 .. to = {}
    BY <2>3
  <2>. QED
    BY <2>2, <2>4 DEF IncludedOK
<1>. QED
  BY <1>5, <1>6, <1>7 DEF Filtered

\* A reference is included only when its path was not recorded, so that it differs
\* from all that was fetched or waits.
LEMMA Partitioning ==
    ASSUME TypeOK, Filtered, Partition
    PROVE  Filtered'
<1>1. PICK ref : ref = Head(cur.refs)
  OBVIOUS
<1>2. /\ phase' = phase /\ cur.refs # <<>> /\ Record(ref)
      /\ UNCHANGED <<site, scHost, queue, results, pushed, item, out, visits>>
      /\ cur' = [cur EXCEPT
            !.refs = Tail(@),
            !.included = IF ShouldDownload(ref, cur.depth) THEN Append(@, ref.to) ELSE @]
  BY <1>1 DEF Partition, mainVars, workVars, histVars
<1>3. phase # "start"
  BY <1>2 DEF Filtered, StartOK, NoCur
<1>4. /\ ref \in Ref /\ ~ref.bare /\ Unbare(Tail(cur.refs))
  <2>1. cur.refs \in Seq(Ref) /\ cur.refs # <<>>
    BY <1>2 DEF TypeOK
  <2>2. /\ Len(Tail(cur.refs)) = Len(cur.refs) - 1 /\ Len(cur.refs) \in Nat \ {0}
        /\ \A i \in 1 .. Len(Tail(cur.refs)) : Tail(cur.refs)[i] = cur.refs[i + 1]
        /\ Head(cur.refs) \in Ref /\ Tail(cur.refs) \in Seq(Ref)
    BY <2>1, HeadTailProperties, EmptySeq
  <2>3. Head(cur.refs) = cur.refs[1]
    BY <2>1
  <2>4. \A i \in 1 .. Len(cur.refs) : ~cur.refs[i].bare
    BY <2>1 DEF Filtered, RefsOK, Unbare
  <2>5. DOMAIN Tail(cur.refs) = 1 .. Len(Tail(cur.refs))
    BY <2>2
  <2>. QED
    BY <1>1, <2>2, <2>3, <2>4, <2>5 DEF Unbare
<1>5. /\ cur'.refs = Tail(cur.refs) /\ cur'.depth = cur.depth
      /\ cur'.included = IF ShouldDownload(ref, cur.depth)
                         THEN Append(cur.included, ref.to) ELSE cur.included
  BY <1>2 DEF TypeOK
<1>6. processed \subseteq processed'
  BY <1>2 DEF Record
<1>7. \A u : Recorded(u) => Recorded(u)'
  BY <1>6 DEF Recorded
<1>8. \A u \in Url : Fresh(u) => Fresh(u)'
  BY <1>2, <1>7 DEF Fresh, Good, Unfetched
<1>9. StartOK' /\ RefsOK'
  BY <1>2, <1>3, <1>4, <1>5, <1>6 DEF Filtered, StartOK, RefsOK
<1>10. VisitedOK'
  BY <1>2, <1>7 DEF Filtered, VisitedOK, Good
<1>11. QueueOK'
  <2>. SUFFICES ASSUME NEW i \in 1 .. Len(queue) PROVE Fresh(queue[i].url)'
    BY <1>2 DEF Filtered, QueueOK
  <2>1. queue[i] \in Item
    BY ElementOfSeq DEF TypeOK
  <2>2. PICK u \in Url : u = queue[i].url
    BY <2>1 DEF Item
  <2>3. Fresh(u)'
    BY <1>8, <2>2 DEF Filtered, QueueOK
  <2>. QED
    BY <1>2, <2>2, <2>3 DEF Fresh, Good, Recorded, Unfetched
<1>12. \A i \in pushed + 1 .. Len(cur.included) : Fresh(cur.included[i]) /\ cur.included[i] \in Url
  BY ElementOfSeq DEF Filtered, IncludedOK, TypeOK
<1>13. CASE ~ShouldDownload(ref, cur.depth)
  <2>1. cur'.included = cur.included
    BY <1>5, <1>13
  <2>2. DepthsOK'
    BY <1>2, <1>5, <2>1 DEF Filtered, DepthsOK
  <2>3. IncludedOK'
    <3>1. PICK inc : inc = cur.included /\ cur'.included = inc
      BY <2>1
    <3>2. \A i \in pushed + 1 .. Len(inc) : Fresh(inc[i])'
      BY <1>8, <1>12, <3>1
    <3>3. \A i \in pushed + 1 .. Len(inc) :
            /\ \A j \in pushed + 1 .. Len(inc) : PathOf[inc[i]] = PathOf[inc[j]] => i = j
            /\ \A j \in 1 .. Len(queue) : PathOf[inc[i]] # PathOf[queue[j].url]
      BY <3>1 DEF Filtered, IncludedOK
    <3>4. pushed' = pushed /\ queue' = queue
      BY <1>2
    <3>5. \A i \in pushed' + 1 .. Len(cur'.included) : Fresh(cur.included[i])'
      BY <3>1, <3>2, <3>4 DEF Fresh, Good, Recorded, Unfetched
    <3>6. \A i \in pushed' + 1 .. Len(cur'.included) :
            /\ \A j \in pushed' + 1 .. Len(cur'.included) :
                PathOf[cur'.included[i]] = PathOf[cur'.included[j]] => i = j
            /\ \A j \in 1 .. Len(queue') : PathOf[cur'.included[i]] # PathOf[queue'[j].url]
      BY <3>1, <3>3, <3>4
    <3>. QED
      BY <3>5, <3>6 DEF IncludedOK
  <2>. QED
    BY <1>9, <1>10, <1>11, <2>2, <2>3 DEF Filtered
<1>14. CASE ShouldDownload(ref, cur.depth)
  <2>1. PICK u \in Url : u = ref.to
    BY <1>4 DEF Ref
  <2>2. /\ u \in WebUrl /\ Key(u) \notin processed /\ Admissible(u, cur.depth)
    BY <1>4, <1>14, <2>1 DEF ShouldDownload
  <2>3. Key(u) = <<"path", PathOf[u]>>
    BY <2>2 DEF Key, Admissible
  <2>4. processed' = processed \union {<<"path", PathOf[u]>>}
    BY <1>2, <1>4, <2>1, <2>2, <2>3 DEF Record
  <2>5. Good(u) /\ ~Recorded(u) /\ Recorded(u)'
    BY <1>3, <2>2, <2>3, <2>4 DEF Good, Recorded, Admissible, Filtered, StartOK
  <2>6. \A v : Recorded(v) => PathOf[v] # PathOf[u]
    BY <2>5 DEF Recorded
  <2>7. Unfetched(u)
    BY <2>6 DEF Unfetched, Filtered, VisitedOK
  <2>8. Fresh(u)'
    BY <1>2, <2>5, <2>7 DEF Fresh, Good, Unfetched
  <2>9. /\ Len(cur.included) \in Nat /\ Len(cur'.included) = Len(cur.included) + 1
        /\ \A i \in 1 .. Len(cur.included) : cur'.included[i] = cur.included[i]
        /\ cur'.included[Len(cur.included) + 1] = u
    <3>1. cur.included \in Seq(Url)
      BY DEF TypeOK
    <3>2. cur'.included = Append(cur.included, u)
      BY <1>5, <1>14, <2>1
    <3>. QED
      BY <3>1, <3>2, AppendProperties, LenProperties
  <2>10. DepthsOK'
    BY <1>2, <1>5, <2>2 DEF Filtered, DepthsOK, Admissible
  <2>11. IncludedOK'
    <3>1. PICK inc, new : inc = cur.included /\ cur'.included = new
      OBVIOUS
    <3>2. \A i \in pushed + 1 .. Len(new) :
            \/ i = Len(inc) + 1 /\ new[i] = u
            \/ i \in pushed + 1 .. Len(inc) /\ new[i] = inc[i] /\ PathOf[inc[i]] # PathOf[u]
      <4>1. pushed \in Nat /\ Len(inc) \in Nat /\ Len(new) = Len(inc) + 1
        BY <2>9, <3>1 DEF TypeOK
      <4>2. ASSUME NEW i \in pushed + 1 .. Len(new)
            PROVE  i = Len(inc) + 1 \/ (i \in pushed + 1 .. Len(inc) /\ i \in 1 .. Len(inc))
        BY <4>1
      <4>3. \A i \in pushed + 1 .. Len(inc) : PathOf[inc[i]] # PathOf[u]
        BY <1>12, <2>6, <3>1 DEF Fresh
      <4>. QED
        BY <2>9, <3>1, <4>2, <4>3
    <3>3. \A i \in pushed + 1 .. Len(new) : Fresh(new[i])'
      BY <1>8, <1>12, <2>8, <3>1, <3>2
    <3>4. \A i, j \in pushed + 1 .. Len(inc) : PathOf[inc[i]] = PathOf[inc[j]] => i = j
      BY <3>1 DEF Filtered, IncludedOK
    <3>5. \A i, j \in pushed + 1 .. Len(new) : PathOf[new[i]] = PathOf[new[j]] => i = j
      BY <3>2, <3>4
    <3>6. \A i \in pushed + 1 .. Len(new) : \A j \in 1 .. Len(queue) :
            PathOf[new[i]] # PathOf[queue[j].url]
      <4>1. \A j \in 1 .. Len(queue) : PathOf[queue[j].url] # PathOf[u]
        BY <2>6 DEF Filtered, QueueOK, Fresh
      <4>2. \A i \in pushed + 1 .. Len(inc) : \A j \in 1 .. Len(queue) :
              PathOf[inc[i]] # PathOf[queue[j].url]
        BY <3>1 DEF Filtered, IncludedOK
      <4>. QED
        BY <3>2, <4>1, <4>2
    <3>7. pushed' = pushed /\ queue' = queue
      BY <1>2
    <3>8. \A i \in pushed' + 1 .. Len(cur'.included) : Fresh(cur.included[i])'
      BY <3>1, <3>3, <3>7 DEF Fresh, Good, Recorded, Unfetched
    <3>9. \A i, j \in pushed' + 1 .. Len(cur'.included) :
            PathOf[cur'.included[i]] = PathOf[cur'.included[j]] => i = j
      BY <3>1, <3>5, <3>7
    <3>10. \A i \in pushed' + 1 .. Len(cur'.included) : \A j \in 1 .. Len(queue') :
             PathOf[cur'.included[i]] # PathOf[queue'[j].url]
      BY <3>1, <3>6, <3>7
    <3>. QED
      BY <3>8, <3>9, <3>10 DEF IncludedOK
  <2>. QED
    BY <1>9, <1>10, <1>11, <2>10, <2>11 DEF Filtered
<1>. QED
  BY <1>13, <1>14

\* What is pushed was included, and differs from all that is in the queue.
LEMMA Pushing ==
    ASSUME TypeOK, Filtered, Push
    PROVE  Filtered'
<1>1. /\ phase' = phase /\ pushed < Len(cur.included) /\ pushed' = pushed + 1
      /\ queue' = Append(queue, [url |-> cur.included[pushed + 1], depth |-> cur.depth])
      /\ UNCHANGED <<site, scHost, processed, results, cur, item, out, visits>>
  BY DEF Push, mainVars, workVars, histVars
<1>2. /\ pushed \in Nat /\ Len(cur.included) \in Nat /\ cur.included \in Seq(Url)
      /\ pushed + 1 \in 1 .. Len(cur.included)
      /\ pushed + 1 \in pushed + 1 .. Len(cur.included)
  BY <1>1, LenProperties DEF TypeOK
<1>3. PICK u \in Url : u = cur.included[pushed + 1]
  BY <1>2, ElementOfSeq
<1>4. PICK it \in Item : it = [url |-> u, depth |-> cur.depth]
  BY DEF Item, TypeOK
<1>5. /\ Len(queue) \in Nat /\ Len(queue') = Len(queue) + 1
      /\ \A i \in 1 .. Len(queue) : queue'[i] = queue[i]
      /\ queue'[Len(queue) + 1] = it
  <2>1. queue \in Seq(Item) /\ queue' = Append(queue, it)
    BY <1>1, <1>3, <1>4 DEF TypeOK
  <2>. QED
    BY <2>1, AppendProperties, LenProperties
<1>6. \A i \in 1 .. Len(queue') : i \in 1 .. Len(queue) \/ i = Len(queue) + 1
  BY <1>5
<1>7. phase # "start"
  <2>1. phase = "start" => Len(cur.included) = 0
    BY DEF Filtered, StartOK, NoCur
  <2>. QED
    BY <1>1, <1>2, <2>1
<1>8. \A x : Fresh(x) <=> Fresh(x)'
  BY <1>1 DEF Fresh, Good, Recorded, Unfetched
<1>9. StartOK' /\ RefsOK' /\ VisitedOK'
  BY <1>1, <1>7 DEF Filtered, StartOK, RefsOK, VisitedOK, Good, Recorded
<1>10. DepthsOK'
  <2>1. cur.included # <<>>
    BY <1>1, <1>2
  <2>2. cur.depth \in 0 .. MaxDepth
    BY <2>1, ScraperAssumption DEF Filtered, DepthsOK, TypeOK
  <2>3. \A i \in 1 .. Len(queue') : queue'[i].depth \in 0 .. MaxDepth
    BY <1>4, <1>5, <1>6, <2>2 DEF Filtered, DepthsOK
  <2>. QED
    BY <1>1, <2>3 DEF Filtered, DepthsOK
<1>11. /\ Fresh(u)
       /\ \A j \in 1 .. Len(queue) : PathOf[u] # PathOf[queue[j].url]
       /\ \A j \in pushed + 2 .. Len(cur.included) : PathOf[cur.included[j]] # PathOf[u]
  BY <1>2, <1>3 DEF Filtered, IncludedOK
<1>12. QueueOK'
  <2>. SUFFICES ASSUME NEW i \in 1 .. Len(queue')
                PROVE  /\ Fresh(queue[i].url)'
                       /\ \A j \in 1 .. Len(queue') :
                            PathOf[queue'[i].url] = PathOf[queue'[j].url] => i = j
    BY DEF QueueOK
  <2>1. Fresh(queue[i].url)'
    <3>1. PICK x : x = queue'[i].url
      OBVIOUS
    <3>2. Fresh(x)
      BY <1>4, <1>5, <1>6, <1>11, <3>1 DEF Filtered, QueueOK
    <3>3. Fresh(x)'
      BY <1>8, <3>2
    <3>. QED
      BY <3>1, <3>3 DEF Fresh, Good, Recorded, Unfetched
  <2>2. ASSUME NEW j \in 1 .. Len(queue'), PathOf[queue'[i].url] = PathOf[queue'[j].url]
        PROVE  i = j
    <3>1. CASE i \in 1 .. Len(queue) /\ j \in 1 .. Len(queue)
      BY <1>5, <2>2, <3>1 DEF Filtered, QueueOK
    <3>2. CASE i = Len(queue) + 1 /\ j \in 1 .. Len(queue)
      BY <1>4, <1>5, <1>11, <2>2, <3>2
    <3>3. CASE i \in 1 .. Len(queue) /\ j = Len(queue) + 1
      BY <1>4, <1>5, <1>11, <2>2, <3>3
    <3>. QED
      BY <1>6, <3>1, <3>2, <3>3
  <2>. QED
    BY <2>1, <2>2
<1>13. IncludedOK'
  <2>. SUFFICES ASSUME NEW i \in pushed + 2 .. Len(cur.included)
                PROVE  /\ Fresh(cur.included[i])'
                       /\ \A j \in pushed + 2 .. Len(cur.included) :
                            PathOf[cur.included[i]] = PathOf[cur.included[j]] => i = j
                       /\ \A j \in 1 .. Len(queue') :
                            PathOf[cur.included[i]] # PathOf[queue'[j].url]
    <3>1. pushed' + 1 = pushed + 2
      BY <1>1, <1>2
    <3>. QED
      BY <1>1, <3>1 DEF IncludedOK
  <2>1. \A j \in pushed + 2 .. Len(cur.included) : j \in pushed + 1 .. Len(cur.included)
    BY <1>2
  <2>2. PICK x : x = cur.included[i]
    OBVIOUS
  <2>3. /\ Fresh(x) /\ PathOf[x] # PathOf[u]
        /\ \A j \in 1 .. Len(queue) : PathOf[x] # PathOf[queue[j].url]
        /\ \A j \in pushed + 2 .. Len(cur.included) : PathOf[x] = PathOf[cur.included[j]] => i = j
    BY <1>11, <2>1, <2>2 DEF Filtered, IncludedOK
  <2>4. Fresh(x)'
    BY <1>8, <2>3
  <2>5. Fresh(cur.included[i])'
    BY <1>1, <2>2, <2>4 DEF Fresh, Good, Recorded, Unfetched
  <2>. QED
    BY <1>4, <1>5, <1>6, <2>2, <2>3, <2>5
<1>. QED
  BY <1>9, <1>10, <1>12, <1>13 DEF Filtered

\* When all is pushed the coordinator has nothing in its hands.
LEMMA Settling ==
    ASSUME TypeOK, Filtered, Settle
    PROVE  Filtered'
<1>1. /\ phase' = phase /\ cur' = NoCur /\ pushed' = 0
      /\ UNCHANGED <<site, scHost, processed, queue, results, item, out, visits>>
  BY DEF Settle, mainVars, workVars, histVars
<1>2. phase # "start"
  BY DEF Settle, Filtered, StartOK
<1>3. Len(cur'.included) = 0 /\ cur'.included = <<>> /\ cur'.depth = 0 /\ Unbare(cur'.refs)
  BY <1>1 DEF NoCur, Unbare
<1>4. StartOK' /\ RefsOK' /\ DepthsOK'
  BY <1>2, <1>1, <1>3 DEF Filtered, StartOK, RefsOK, DepthsOK
<1>5. VisitedOK' /\ QueueOK'
  BY <1>1 DEF Filtered, VisitedOK, QueueOK, Fresh, Good, Recorded, Unfetched
<1>6. IncludedOK'
  BY <1>1, <1>3 DEF IncludedOK
<1>. QED
  BY <1>4, <1>5, <1>6 DEF Filtered
-------------------------------------------------------------------------------
(* The theorems *)

\* Every step keeps the invariant.
LEMMA NextVisitInv == VisitInv /\ [Next]_vars => VisitInv'
<1>. SUFFICES ASSUME VisitInv, [Next]_vars, Absolute' PROVE Filtered'
  BY NextType DEF VisitInv
<1>1. TypeOK
  BY DEF VisitInv
<1>2. Absolute
  <2>1. site' = site
    BY DEF Next, StartExcluded, StartFetch, PoolWait, Cancel, Worker, Enter, Take, Leave,
           Fetch, Retry, Answer, Fail, Send, Coordinator, Receive, Partition, Push, Settle,
           Terminated, mainVars, vars
  <2>. QED
    BY <2>1 DEF Absolute
<1>3. Filtered
  BY <1>2 DEF VisitInv
<1>4. CASE StartExcluded
  <2>1. /\ phase = "start" /\ phase' # "start" /\ processed' = {Key(StartURL)}
        /\ UNCHANGED <<site, scHost, queue, results, cur, pushed, item, out, visits>>
    BY <1>4 DEF StartExcluded, Return, workVars, histVars
  <2>2. /\ queue = <<>> /\ Len(cur.included) = 0 /\ pushed = 0 /\ scHost = HostOf[StartURL]
        /\ \A u \in Url : visits[u] = 0
    BY <1>3, <2>1 DEF Filtered, StartOK, NoCur
  <2>3. StartOK' /\ RefsOK' /\ DepthsOK'
    BY <1>3, <2>1, <2>2 DEF Filtered, StartOK, RefsOK, DepthsOK, Key
  <2>4. VisitedOK' /\ QueueOK'
    BY <2>1, <2>2 DEF VisitedOK, QueueOK
  <2>5. IncludedOK'
    <3>1. pushed' + 1 .. Len(cur'.included) = {}
      BY <2>1, <2>2
    <3>. QED
      BY <3>1 DEF IncludedOK
  <2>. QED
    BY <2>3, <2>4, <2>5 DEF Filtered
<1>5. CASE StartFetch
  BY <1>1, <1>2, <1>3, <1>5, StartFetched
<1>6. ASSUME \/ PoolWait \/ Cancel
             \/ \E w \in Workers : Enter(w) \/ Leave(w) \/ Fetch(w) \/ Retry(w) \/ Fail(w)
      PROVE  Filtered'
  <2>1. phase # "start"
    BY <1>3, <1>6 DEF PoolWait, Cancel, Enter, Leave, Fetch, Retry, Fail, Look, Filtered, StartOK
  <2>2. /\ phase' # "start"
        /\ UNCHANGED <<site, scHost, processed, queue, results, cur, pushed, item, out, visits>>
    BY <1>6, <2>1 DEF PoolWait, Return, Cancel, Enter, Leave, Fetch, Retry, Fail,
                      mainVars, coordVars, workVars, histVars
  <2>. QED
    BY <1>3, <2>1, <2>2, Quiet
<1>7. ASSUME NEW w \in Workers, Take(w) \/ Answer(w) \/ Send(w) PROVE Filtered'
  BY <1>1, <1>2, <1>3, <1>7, TakingVisits, Answering, Sending
<1>8. CASE Coordinator
  BY <1>1, <1>3, <1>8, Receiving, Partitioning, Pushing, Settling DEF Coordinator
<1>9. CASE UNCHANGED vars
  <2>1. UNCHANGED <<phase, site, scHost, processed, queue, results, cur, pushed, item, out,
                    visits, coord, pc>>
    BY <1>9 DEF vars
  <2>2. StartOK' /\ RefsOK' /\ DepthsOK'
    BY <1>3, <2>1 DEF Filtered, StartOK, RefsOK, DepthsOK
  <2>3. VisitedOK' /\ QueueOK'
    BY <1>3, <2>1 DEF Filtered, VisitedOK, QueueOK, Fresh, Good, Recorded, Unfetched
  <2>4. IncludedOK'
    BY <1>3, <2>1 DEF Filtered, IncludedOK, Fresh, Good, Recorded, Unfetched
  <2>. QED
    BY <2>2, <2>3, <2>4 DEF Filtered
<1>. QED
  BY <1>4, <1>5, <1>6, <1>7, <1>8, <1>9 DEF Next, Worker, Terminated

\* The invariant holds whatever the workers and the coordinator do.
THEOREM VisitInvariant == Spec => []VisitInv
<1>. QED
  BY InitVisitInv, NextVisitInv, PTL DEF Spec

\* No URL is ever fetched a second time; so one that is answered 429 is not tried again,
\* although it is handed back for that (checks.go:27, download.go:143-150).
THEOREM NeverFetchedAgain == Spec => [](Absolute => \A u \in Url : visits[u] <= 1)
<1>1. VisitInv => (Absolute => \A u \in Url : visits[u] <= 1)
  <2>. SUFFICES ASSUME VisitInv, Absolute, NEW u \in Url
                PROVE  visits[u] <= 1
    OBVIOUS
  <2>1. VisitedOK /\ visits[u] \in Nat
    BY DEF VisitInv, Filtered, TypeOK
  <2>2. visits[u] > 0 => visits[u] = 1
    BY <2>1 DEF VisitedOK
  <2>. QED
    BY <2>1, <2>2
<1>. QED
  BY VisitInvariant, <1>1, PTL

\* No URL is fetched twice, unless it was throttled, and no two of one key (checks.go:27).
THEOREM FetchedAtMostOnce == Spec => []AtMostOnce
<1>1. VisitInv /\ (Absolute => \A u \in Url : visits[u] <= 1) => AtMostOnce
  <2>. SUFFICES ASSUME VisitInv, Absolute, \A u \in Url : visits[u] <= 1
                PROVE  /\ \A u \in Url : visits[u] > 1 => WasThrottled(u)
                       /\ \A u, v \in Url : u # v /\ visits[u] > 0 /\ visits[v] > 0
                                              => Key(u) # Key(v)
    BY DEF AtMostOnce
  <2>1. VisitedOK /\ visits \in [Url -> Nat]
    BY DEF VisitInv, Filtered, TypeOK
  <2>2. ASSUME NEW u \in Url PROVE ~(visits[u] > 1)
    <3>1. visits[u] \in Nat /\ visits[u] <= 1
      BY <2>1
    <3>. QED
      BY <3>1
  <2>3. ASSUME NEW u \in Url, NEW v \in Url, u # v, visits[u] > 0, visits[v] > 0
        PROVE  Key(u) # Key(v)
    <3>1. PathOf[u] # PathOf[v]
      BY <2>1, <2>3 DEF VisitedOK
    <3>. QED
      BY <2>3, <3>1 DEF Key
  <2>. QED
    BY <2>2, <2>3
<1>. QED
  BY VisitInvariant, NeverFetchedAgain, <1>1, PTL

\* Nothing is fetched that the scheme or a filter excludes, and no page of another host,
\* except the start page, also when the start page has moved to another host (checks.go:15-45).
THEOREM OnlyAdmissibleFetched == Spec => []OnlyAdmissible
<1>1. VisitInv => OnlyAdmissible
  BY DEF VisitInv, Filtered, VisitedOK, Good, OnlyAdmissible
<1>. QED
  BY VisitInvariant, <1>1, PTL

\* Nothing is fetched below the depth limit, although redirects and retries move the
\* depth of a result back (checks.go:35, download.go:137, 148).
THEOREM FetchedWithinDepth == Spec => []WithinDepth
<1>1. VisitInv => WithinDepth
  BY DEF VisitInv, Filtered, DepthsOK, WithinDepth
<1>. QED
  BY VisitInvariant, <1>1, PTL

\* The path of the start page is recorded before the page is fetched.  So when it moves,
\* from http to https or to another host with the same path, the page it has moved to is
\* never fetched and the crawl ends there (scraper.go:138-149, checks.go:19-29,
\* download.go:134-137).
THEOREM NotFetchedWhereMoved ==
    Spec => [](Absolute => \A u \in Url : visits[u] > 0 /\ PathOf[u] = PathOf[StartURL]
                                            => u = StartURL)
<1>1. VisitInv => (Absolute => \A u \in Url : visits[u] > 0 /\ PathOf[u] = PathOf[StartURL]
                                                => u = StartURL)
  BY DEF VisitInv, Filtered, VisitedOK, Good
<1>. QED
  BY VisitInvariant, <1>1, PTL

================================================================================
