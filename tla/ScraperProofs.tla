----------------------------- MODULE ScraperProofs -----------------------------
(***************************************************************************)
(* Proofs about the crawl, for any number of workers, any set of sites and *)
(* any limits: the coordinator's count is exact, so it closes the queue    *)
(* only when no work is left, and Start reports success only then.         *)
(***************************************************************************)
EXTENDS Scraper, FiniteSetTheorems, SequenceTheorems, TLAPS

-------------------------------------------------------------------------------
(* Facts about the data *)

\* The placeholders for "none in hand" are items, answers and results like others.
LEMMA Dummies == NoItem \in Item /\ NoResult \in Result /\ NoAnswer \in Response
                 /\ NoCur \in [depth : Int, refs : Seq(Ref), included : Seq(Url)]
<1>1. StartURL \in Url
  BY ScraperAssumption
<1>2. NoAnswer \in Response
  BY DEF NoAnswer, Response, Kinds
<1>. QED
  BY <1>1, <1>2 DEF NoItem, NoResult, NoCur, Item, Result

\* Whatever a request meets is an answer of the site or none, and a response.
LEMMA OutcomesType ==
    ASSUME site \in Sites, NEW u \in Url
    PROVE  Outcomes(u) \subseteq Answers(u) /\ Answers(u) \subseteq Response
<1>1. site.responds[u] \subseteq Response
  BY ScraperAssumption DEF Site
<1>. QED
  BY <1>1, Dummies DEF Outcomes, Answers

\* What a worker sends is a result, whatever the kind of the answer (download.go:115-150).
LEMMA ResultOfType ==
    ASSUME NEW i \in Item, NEW r \in Response
    PROVE  ResultOf(i, r) \in Result
<1>1. [to |-> i.url, bare |-> FALSE] \in Ref
  BY DEF Item, Ref
<1>2. <<[to |-> i.url, bare |-> FALSE]>> \in Seq(Ref)
  BY <1>1
<1>3. r.refs \in Seq(Ref)
  BY DEF Response
<1>. QED
  BY <1>2, <1>3 DEF ResultOf, Item, Result

\* An answer leaves the lockdown on or off (httpGet.go:105-138).
LEMMA LockdownType ==
    ASSUME lockdown \in BOOLEAN, NEW k
    PROVE  LockdownAfter(k) \in BOOLEAN
  BY DEF LockdownAfter

-------------------------------------------------------------------------------
(* Type correctness *)

\* What New leaves has its types (scraper.go:51-87).
LEMMA InitType == Init => TypeOK
<1>. SUFFICES ASSUME Init PROVE TypeOK
  OBVIOUS
<1>1. Tries \in Nat \ {0}
  BY ScraperAssumption
<1>2. tries \in [Workers -> 0 .. Tries - 1]
  BY <1>1 DEF Init
<1>3. item \in [Workers -> Item] /\ out \in [Workers -> Result]
  BY Dummies DEF Init
<1>4. cur \in [depth : Int, refs : Seq(Ref), included : Seq(Url)]
  BY Dummies DEF Init
<1>5. queue \in Seq(Item) /\ results \in Seq(Result)
  BY DEF Init
<1>6. visits \in [Url -> Nat]
  BY DEF Init
<1>7. pc \in [Workers -> {"check", "select", "get", "got", "send", "done", "failed"}]
  BY DEF Init
<1>8. /\ site \in Sites /\ phase = "start" /\ ret = "none" /\ coord = "receive"
      /\ pushed \in Nat /\ todo \in Int
  BY DEF Init
<1>9. lockdown \in BOOLEAN /\ ctxDone \in BOOLEAN
  BY Zenon DEF Init
<1>10. got \in [Workers -> Response] /\ Received
  BY Dummies DEF Init, Received
<1>. QED
  BY <1>2, <1>3, <1>4, <1>5, <1>6, <1>7, <1>8, <1>9, <1>10 DEF TypeOK

\* A worker keeps the answer it has received, and its item, until it looks at it.
LEMMA NextReceived == TypeOK /\ [Next]_vars => Received'
<1>. SUFFICES ASSUME TypeOK, [Next]_vars PROVE Received'
  OBVIOUS
<1>. DEFINE Others(v) == \A w \in Workers \ {v} :
                            pc'[w] = pc[w] /\ item'[w] = item[w] /\ got'[w] = got[w]
<1>1. site' = site
  BY DEF Next, StartExcluded, StartFetch, PoolWait, Cancel, Worker, Enter, Take, Leave, Fetch,
         Retry, Answer, Fail, Send, Coordinator, Receive, Partition, Push, Settle, Terminated,
         mainVars, vars
<1>2. CASE UNCHANGED <<pc, item, got>>
  BY <1>1, <1>2 DEF Received, Answers, TypeOK
<1>3. ASSUME NEW v \in Workers, Others(v), pc'[v] # "got" PROVE Received'
  BY <1>1, <1>3 DEF Received, Answers, TypeOK
<1>4. ASSUME NEW v \in Workers, Fetch(v) PROVE Received'
  <2>1. item[v] \in Item /\ item[v].url \in Url
    BY DEF Item, TypeOK
  <2>2. PICK r \in Outcomes(item[v].url) : got' = [got EXCEPT ![v] = r]
    BY <1>4 DEF Fetch
  <2>3. Others(v) /\ got'[v] = r /\ item'[v] = item[v]
    BY <1>4, <2>2 DEF Fetch, Goes, TypeOK
  <2>4. r \in Answers(item[v].url)
    BY <2>1, <2>2, OutcomesType DEF TypeOK
  <2>. QED
    BY <1>1, <2>3, <2>4 DEF Received, Answers, TypeOK
<1>5. ASSUME NEW v \in Workers,
             Enter(v) \/ Take(v) \/ Leave(v) \/ Retry(v) \/ Answer(v) \/ Fail(v) \/ Send(v)
      PROVE  Received'
  <2>1. Others(v)
    BY <1>5 DEF Enter, Take, Leave, Retry, Answer, Fail, Look, Send, Goes, TypeOK
  <2>2. pc'[v] # "got"
    BY <1>5 DEF Enter, Take, Leave, Retry, Answer, Fail, Look, Send, Goes, TypeOK
  <2>. QED
    BY <1>3, <2>1, <2>2
<1>6. CASE StartExcluded \/ StartFetch \/ PoolWait \/ Cancel \/ Coordinator \/ UNCHANGED vars
  <2>1. UNCHANGED <<pc, item, got>>
    BY <1>6 DEF StartExcluded, StartFetch, PoolWait, Cancel, Coordinator, Receive, Partition,
                Push, Settle, workVars, vars
  <2>. QED
    BY <1>2, <2>1
<1>. QED
  BY <1>4, <1>5, <1>6 DEF Next, Worker, Terminated

\* Every step of Start, the workers and the coordinator keeps the types.
LEMMA NextType == TypeOK /\ [Next]_vars => TypeOK'
<1>. SUFFICES ASSUME TypeOK, [Next]_vars PROVE TypeOK'
  OBVIOUS
<1>0. Received'
  BY NextReceived
<1>. USE <1>0
<1>. USE DEF TypeOK
<1>1. CASE StartExcluded
  BY <1>1 DEF StartExcluded, Return, workVars, histVars
<1>2. CASE StartFetch
  <2>1. PICK r \in Outcomes(StartURL) :
          /\ lockdown' = LockdownAfter(r.kind)
          /\ \/ results' = <<ResultOf(NoItem, r)>> /\ todo' = 1
                /\ phase' = "running" /\ ret' = ret
             \/ Return("error") /\ UNCHANGED <<results, todo>>
    BY <1>2 DEF StartFetch
  <2>2. r \in Response
    BY <2>1, OutcomesType, ScraperAssumption
  <2>3. lockdown' \in BOOLEAN
    BY <2>1, LockdownType
  <2>4. results' \in Seq(Result) /\ todo' \in Int
    <3>1. ResultOf(NoItem, r) \in Result
      BY <2>2, ResultOfType, Dummies
    <3>2. <<ResultOf(NoItem, r)>> \in Seq(Result)
      BY <3>1
    <3>3. results' \in Seq(Result)
      BY <2>1, <3>2
    <3>4. todo' \in Int
      BY <2>1
    <3>. QED
      BY <3>3, <3>4
  <2>5. phase' \in {"start", "running", "returned"} /\ ret' \in {"none", "ok", "error"}
    BY <2>1 DEF Return
  <2>6. visits' \in [Url -> Nat]
    BY <1>2, ScraperAssumption DEF StartFetch
  <2>. QED
    BY <1>2, <2>3, <2>4, <2>5, <2>6 DEF StartFetch, workVars
<1>3. CASE PoolWait
  BY <1>3 DEF PoolWait, Return, workVars, coordVars, histVars
<1>4. CASE Cancel
  BY <1>4 DEF Cancel, mainVars, workVars, coordVars, histVars
<1>5. ASSUME NEW w \in Workers, Enter(w) PROVE TypeOK'
  BY <1>5 DEF Enter, Goes, mainVars, coordVars, histVars
<1>6. ASSUME NEW w \in Workers, Take(w) PROVE TypeOK'
  <2>1. Head(queue) \in Item /\ Tail(queue) \in Seq(Item)
    BY <1>6 DEF Take
  <2>2. visits' \in [Url -> Nat]
    <3>1. Head(queue).url \in Url
      BY <2>1 DEF Item
    <3>2. visits' = [visits EXCEPT ![Head(queue).url] = @ + 1]
      BY <1>6 DEF Take
    <3>. HIDE DEF TypeOK
    <3>3. visits \in [Url -> Nat]
      BY DEF TypeOK
    <3>. QED
      BY <3>1, <3>2, <3>3
  <2>3. tries' \in [Workers -> 0 .. Tries - 1]
    BY <1>6, ScraperAssumption DEF Take
  <2>. QED
    BY <1>6, <2>1, <2>2, <2>3 DEF Take, Goes, mainVars, coordVars
<1>7. ASSUME NEW w \in Workers, Leave(w) PROVE TypeOK'
  BY <1>7 DEF Leave, Goes, mainVars, coordVars, histVars
<1>8. ASSUME NEW w \in Workers, NEW at \in {"get", "send", "failed"}, Look(w, at)
      PROVE  /\ lockdown' \in BOOLEAN /\ got' \in [Workers -> Response]
             /\ pc' \in [Workers -> {"check", "select", "get", "got", "send", "done", "failed"}]
  BY <1>8, LockdownType, Dummies DEF Look, Goes
<1>9. ASSUME NEW w \in Workers, Fetch(w) \/ Retry(w) \/ Answer(w) \/ Fail(w) PROVE TypeOK'
  <2>1. item[w] \in Item /\ item[w].url \in Url
    BY DEF Item
  <2>2. CASE Fetch(w)
    <3>1. PICK r \in Outcomes(item[w].url) : got' = [got EXCEPT ![w] = r]
      BY <2>2 DEF Fetch
    <3>2. r \in Response
      BY <2>1, <3>1, OutcomesType
    <3>3. got' \in [Workers -> Response]
      BY <3>1, <3>2
    <3>. QED
      BY <2>2, <3>3 DEF Fetch, Goes, mainVars, coordVars, histVars
  <2>3. CASE Retry(w)
    <3>1. tries[w] + 1 < Tries
      BY <2>3 DEF Retry, TriesLeft
    <3>2. tries' \in [Workers -> 0 .. Tries - 1]
      BY <2>3, <3>1, ScraperAssumption DEF Retry
    <3>. QED
      BY <2>3, <3>2, <1>8 DEF Retry, mainVars, coordVars, histVars
  <2>4. CASE Answer(w)
    <3>1. out' \in [Workers -> Result]
      BY <2>1, <2>4, ResultOfType DEF Answer
    <3>. QED
      BY <2>4, <3>1, <1>8 DEF Answer, mainVars, coordVars
  <2>5. CASE Fail(w)
    BY <2>5, <1>8 DEF Fail, mainVars, coordVars, histVars
  <2>. QED
    BY <1>9, <2>2, <2>3, <2>4, <2>5
<1>11. ASSUME NEW w \in Workers, Send(w) PROVE TypeOK'
  <2>1. results' \in Seq(Result)
    BY <1>11 DEF Send
  <2>2. tries' \in [Workers -> 0 .. Tries - 1]
    BY <1>11, ScraperAssumption DEF Send
  <2>. QED
    BY <1>11, <2>1, <2>2, Dummies DEF Send, Goes, mainVars, coordVars, histVars
<1>12. CASE Receive
  <2>1. Head(results) \in Result /\ Tail(results) \in Seq(Result)
    BY <1>12 DEF Receive
  <2>2. cur' \in [depth : Int, refs : Seq(Ref), included : Seq(Url)]
    <3>1. Head(results).depth + 1 \in Int /\ Head(results).refs \in Seq(Ref)
      BY <2>1 DEF Result
    <3>2. cur' = [depth |-> Head(results).depth + 1, refs |-> Head(results).refs,
                  included |-> <<>>]
      BY <1>12 DEF Receive
    <3>. QED
      BY <3>1, <3>2
  <2>. QED
    BY <1>12, <2>1, <2>2 DEF Receive, mainVars, workVars, histVars
<1>13. CASE Partition
  <2>1. Head(cur.refs) \in Ref /\ Tail(cur.refs) \in Seq(Ref)
    BY <1>13 DEF Partition
  <2>2. Append(cur.included, Head(cur.refs).to) \in Seq(Url)
    BY <2>1 DEF Ref
  <2>3. cur' \in [depth : Int, refs : Seq(Ref), included : Seq(Url)]
    BY <1>13, <2>1, <2>2 DEF Partition
  <2>. QED
    BY <1>13, <2>3 DEF Partition, mainVars, workVars, histVars
<1>14. CASE Push
  <2>1. cur.included[pushed + 1] \in Url
    <3>1. cur.included \in Seq(Url) /\ pushed + 1 \in 1 .. Len(cur.included)
      BY <1>14 DEF Push
    <3>. QED
      BY <3>1, ElementOfSeq
  <2>2. [url |-> cur.included[pushed + 1], depth |-> cur.depth] \in Item
    <3>1. cur.depth \in Int
      OBVIOUS
    <3>. QED
      BY <2>1, <3>1 DEF Item
  <2>3. queue' \in Seq(Item)
    BY <1>14, <2>2 DEF Push
  <2>4. pushed' \in Nat
    BY <1>14 DEF Push
  <2>. QED
    BY <1>14, <2>3, <2>4 DEF Push, mainVars, workVars, histVars
<1>15. CASE Settle
  <2>1. todo' \in Int
    BY <1>15 DEF Settle, Count
  <2>. QED
    BY <1>15, <2>1, Dummies DEF Settle, mainVars, workVars, histVars
<1>16. CASE UNCHANGED vars
  BY <1>16 DEF vars
<1>. QED
  BY <1>1, <1>2, <1>3, <1>4, <1>5, <1>6, <1>7, <1>9, <1>11, <1>12, <1>13,
     <1>14, <1>15, <1>16 DEF Next, Worker, Coordinator, Terminated

\* The crawl is type-correct.
THEOREM TypeCorrect == Spec => []TypeOK
<1>. QED
  BY InitType, NextType, PTL DEF Spec
-------------------------------------------------------------------------------
(* The workers that hold an item *)

\* There are finitely many, so that they can be counted.
LEMMA HoldingCounted == IsFiniteSet(Holding) /\ Cardinality(Holding) \in Nat
<1>1. IsFiniteSet(Workers)
  <2>1. 0 \in Int /\ Concurrency - 1 \in Int
    BY ScraperAssumption
  <2>. QED
    BY <2>1, FS_Interval DEF Workers
<1>2. Holding \subseteq Workers
  BY DEF Holding
<1>. QED
  BY <1>1, <1>2, FS_Subset, FS_CardinalityType

\* A worker that takes an item joins them.
LEMMA TakingHolds ==
    ASSUME TypeOK, NEW w \in Workers, pc[w] = "select", Goes(w, "get")
    PROVE  Cardinality(Holding') = Cardinality(Holding) + 1
<1>1. Holding' = Holding \union {w}
  BY DEF Holding, Goes, TypeOK
<1>2. w \notin Holding
  BY DEF Holding
<1>. QED
  BY <1>1, <1>2, HoldingCounted, FS_AddElement

\* A worker that has sent its result leaves them.
LEMMA SendingReleases ==
    ASSUME TypeOK, NEW w \in Workers, pc[w] = "send", Goes(w, "check")
    PROVE  Cardinality(Holding') = Cardinality(Holding) - 1
<1>1. Holding' = Holding \ {w}
  BY DEF Holding, Goes, TypeOK
<1>2. w \in Holding
  BY DEF Holding
<1>. QED
  BY <1>1, <1>2, HoldingCounted, FS_RemoveElement

\* Any other step of a worker leaves them alone.
HoldsAt(at) == at \in {"get", "got", "send", "failed"}
LEMMA MovingKeeps ==
    ASSUME TypeOK, NEW w \in Workers, NEW at, Goes(w, at), HoldsAt(pc[w]) <=> HoldsAt(at)
    PROVE  Holding' = Holding
  BY DEF Holding, Goes, HoldsAt, TypeOK

\* When nothing is outstanding there is no work anywhere.
LEMMA NothingOutstanding ==
    ASSUME TypeOK, Outstanding = 0
    PROVE  queue = <<>> /\ results = <<>> /\ Holding = {}
<1>1. Len(queue) \in Nat /\ Len(results) \in Nat
  BY LenProperties DEF TypeOK
<1>2. Len(queue) = 0 /\ Len(results) = 0 /\ Cardinality(Holding) = 0
  BY <1>1, HoldingCounted DEF Outstanding
<1>3. queue = <<>> /\ results = <<>>
  BY <1>2, EmptySeq DEF TypeOK
<1>4. Holding = {}
  BY <1>2, HoldingCounted, FS_EmptySet
<1>. QED
  BY <1>3, <1>4

-------------------------------------------------------------------------------
(* The count is exact *)

\* Before the start page nothing is counted and nothing outstanding.
LEMMA InitAccounting == Init => Accounting
<1>. SUFFICES ASSUME Init PROVE Accounting
  OBVIOUS
<1>1. Holding = {}
  BY DEF Init, Holding
<1>2. Outstanding = 0
  BY <1>1, FS_EmptySet DEF Outstanding, Init
<1>3. WorkCounted
  BY <1>2 DEF WorkCounted, Init
<1>4. CoordinatorOK
  BY DEF CoordinatorOK, Init, NoCur
<1>5. WorkersOK
  BY DEF WorkersOK, Init
<1>. QED
  BY <1>3, <1>4, <1>5, InitType DEF Accounting

\* Each step changes the count and the outstanding work alike; the references that the
\* coordinator has queued and not yet counted make up the difference (scraper.go:197-211).
LEMMA NextWorkCounted == Accounting /\ [Next]_vars => WorkCounted'
<1>. SUFFICES ASSUME Accounting, [Next]_vars PROVE WorkCounted'
  OBVIOUS
<1>. USE DEF Accounting, WorkCounted, Outstanding
<1>a. /\ Len(queue) \in Nat /\ Len(results) \in Nat /\ Cardinality(Holding) \in Nat
      /\ todo \in Int /\ pushed \in Nat
  BY LenProperties, HoldingCounted DEF TypeOK
<1>b. TypeOK
  BY DEF Accounting
<1>. HIDE DEF Accounting
<1>c. todo + pushed = Len(queue) + Len(results) + Cardinality(Holding)
  BY DEF Accounting
<1>d. CoordinatorOK
  BY DEF Accounting
<1>1. CASE StartExcluded
  BY <1>1, <1>c DEF StartExcluded, workVars, Holding
<1>2. CASE StartFetch
  <2>1. todo = 0 /\ pushed = 0
    BY <1>2, <1>d DEF StartFetch, CoordinatorOK
  <2>2. Holding' = Holding /\ queue' = queue /\ pushed' = pushed
    BY <1>2 DEF StartFetch, workVars, Holding
  <2>3. \/ Len(results') = 1 /\ todo' = 1
        \/ results' = results /\ todo' = todo
    BY <1>2 DEF StartFetch
  <2>4. Len(queue) = 0 /\ Len(results) = 0 /\ Cardinality(Holding) = 0
    BY <2>1, <1>a, <1>c
  <2>5. todo' + pushed' = Len(queue) + Len(results') + Cardinality(Holding)
    <3>1. CASE Len(results') = 1 /\ todo' = 1
      BY <3>1, <2>1, <2>2, <2>4
    <3>2. CASE results' = results /\ todo' = todo
      BY <3>2, <2>1, <2>2, <2>4
    <3>. QED
      BY <2>3, <3>1, <3>2
  <2>. QED
    BY <2>2, <2>5
<1>3. CASE PoolWait
  BY <1>3, <1>c DEF PoolWait, workVars, coordVars, Holding
<1>4. CASE Cancel
  BY <1>4, <1>c DEF Cancel, workVars, coordVars, Holding
<1>5. ASSUME NEW w \in Workers, Enter(w) PROVE WorkCounted'
  <2>1. Holding' = Holding
    BY <1>5, <1>b, MovingKeeps DEF Enter, HoldsAt
  <2>. QED
    BY <1>5, <1>c, <2>1 DEF Enter, coordVars
<1>6. ASSUME NEW w \in Workers, Take(w) PROVE WorkCounted'
  <2>1. Cardinality(Holding') = Cardinality(Holding) + 1
    BY <1>6, <1>b, TakingHolds DEF Take
  <2>2. Len(queue') = Len(queue) - 1
    BY <1>6, <1>b, HeadTailProperties DEF Take, TypeOK
  <2>. QED
    BY <1>6, <1>a, <1>c, <2>1, <2>2 DEF Take, coordVars
<1>7. ASSUME NEW w \in Workers, Leave(w) PROVE WorkCounted'
  <2>1. Holding' = Holding
    BY <1>7, <1>b, MovingKeeps DEF Leave, HoldsAt
  <2>. QED
    BY <1>7, <1>c, <2>1 DEF Leave, coordVars
<1>8. ASSUME NEW w \in Workers, Fetch(w) \/ Retry(w) PROVE WorkCounted'
  <2>1. Holding' = Holding
    BY <1>8, <1>b, MovingKeeps DEF Fetch, Retry, Look, HoldsAt
  <2>. QED
    BY <1>8, <1>c, <2>1 DEF Fetch, Retry, coordVars
<1>9. ASSUME NEW w \in Workers, Answer(w) PROVE WorkCounted'
  <2>1. Holding' = Holding
    BY <1>9, <1>b, MovingKeeps DEF Answer, Look, HoldsAt
  <2>. QED
    BY <1>9, <1>c, <2>1 DEF Answer, coordVars
<1>10. ASSUME NEW w \in Workers, Fail(w) PROVE WorkCounted'
  <2>1. Holding' = Holding
    BY <1>10, <1>b, MovingKeeps DEF Fail, Look, HoldsAt
  <2>. QED
    BY <1>10, <1>c, <2>1 DEF Fail, coordVars
<1>11. ASSUME NEW w \in Workers, Send(w) PROVE WorkCounted'
  <2>1. Cardinality(Holding') = Cardinality(Holding) - 1
    BY <1>11, <1>b, SendingReleases DEF Send
  <2>2. Len(results') = Len(results) + 1
    BY <1>11, <1>b, AppendProperties DEF Send, TypeOK
  <2>. QED
    BY <1>11, <1>a, <1>c, <2>1, <2>2 DEF Send, coordVars
<1>12. CASE Receive
  <2>1. Len(results') = Len(results) - 1
    BY <1>12, <1>b, HeadTailProperties DEF Receive, TypeOK
  <2>. QED
    BY <1>12, <1>a, <1>c, <2>1 DEF Receive, workVars, Holding
<1>13. CASE Partition
  BY <1>13, <1>c DEF Partition, workVars, Holding
<1>14. CASE Push
  <2>1. Len(queue') = Len(queue) + 1
    BY <1>14, <1>b, AppendProperties DEF Push, TypeOK
  <2>2. pushed' = pushed + 1 /\ todo' = todo /\ results' = results /\ Holding' = Holding
    BY <1>14 DEF Push, workVars, Holding
  <2>3. todo' + pushed' = Len(queue') + Len(results) + Cardinality(Holding)
    BY <1>a, <1>c, <2>1, <2>2
  <2>. QED
    BY <2>2, <2>3
<1>15. CASE Settle
  <2>1. todo' + pushed' = todo + pushed
    BY <1>15, <1>a DEF Settle, Count
  <2>2. queue' = queue /\ results' = results /\ Holding' = Holding
    BY <1>15 DEF Settle, workVars, Holding
  <2>3. todo' + pushed' = Len(queue) + Len(results) + Cardinality(Holding)
    BY <1>c, <2>1
  <2>. QED
    BY <2>2, <2>3
<1>16. CASE UNCHANGED vars
  BY <1>16, <1>c DEF vars, Holding
<1>. QED
  BY <1>1, <1>2, <1>3, <1>4, <1>5, <1>6, <1>7, <1>8, <1>9, <1>10, <1>11, <1>12, <1>13,
     <1>14, <1>15, <1>16 DEF Next, Worker, Coordinator, Terminated

\* Each step keeps what the coordinator's position says of its count (scraper.go:196-213).
LEMMA NextCoordinatorOK == Accounting /\ [Next]_vars => CoordinatorOK'
<1>. SUFFICES ASSUME Accounting, [Next]_vars PROVE CoordinatorOK'
  OBVIOUS
<1>a. TypeOK /\ CoordinatorOK
  BY DEF Accounting
<1>b. pushed \in Nat /\ todo \in Int /\ Len(cur.included) \in Nat
  BY <1>a, LenProperties DEF TypeOK
<1>c. phase = "start" => results = <<>>
  <2>1. phase = "start" => todo = 0 /\ pushed = 0
    BY <1>a DEF CoordinatorOK
  <2>2. phase = "start" => Outstanding = 0
    BY <2>1 DEF Accounting, WorkCounted
  <2>. QED
    BY <1>a, <2>2, NothingOutstanding
<1>. USE <1>a, <1>b DEF CoordinatorOK
<1>1. CASE StartExcluded
  BY <1>1 DEF StartExcluded, Return
<1>2. CASE StartFetch
  BY <1>2 DEF StartFetch, Return
<1>3. CASE PoolWait
  BY <1>3 DEF PoolWait, Return, coordVars
<1>4. CASE Cancel
  BY <1>4 DEF Cancel, mainVars, coordVars
<1>5. ASSUME NEW w \in Workers, Worker(w) PROVE CoordinatorOK'
  BY <1>5 DEF Worker, Enter, Take, Leave, Fetch, Retry, Answer, Fail, Send, mainVars, coordVars
<1>6. CASE Receive
  <2>1. pushed' = 0 /\ pushed' <= Len(cur'.included)
    BY <1>6 DEF Receive
  <2>. QED
    BY <1>6, <1>c, <2>1 DEF Receive, mainVars
<1>7. CASE Partition
  <2>1. Len(cur'.included) \in Nat /\ Len(cur'.included) >= Len(cur.included)
    <3>1. Head(cur.refs).to \in Url
      <4>1. cur.refs \in Seq(Ref) /\ cur.refs # <<>>
        BY <1>7 DEF Partition, TypeOK
      <4>2. Head(cur.refs) \in Ref
        BY <4>1, HeadTailProperties
      <4>. QED
        BY <4>2 DEF Ref
    <3>2. Len(Append(cur.included, Head(cur.refs).to)) = Len(cur.included) + 1
      BY <3>1, AppendProperties DEF TypeOK
    <3>3. cur'.included \in {cur.included, Append(cur.included, Head(cur.refs).to)}
      BY <1>7 DEF Partition, TypeOK
    <3>. QED
      BY <3>2, <3>3
  <2>. QED
    BY <1>7, <2>1 DEF Partition, mainVars
<1>8. CASE Push
  BY <1>8 DEF Push, mainVars
<1>9. CASE Settle
  <2>1. todo' = Count /\ Count \in Int /\ pushed' = 0
    BY <1>9 DEF Settle, Count
  <2>2. Len(cur'.included) = 0
    BY <1>9 DEF Settle, NoCur
  <2>. QED
    BY <1>9, <2>1, <2>2 DEF Settle, mainVars
<1>10. CASE UNCHANGED vars
  BY <1>10 DEF vars
<1>. QED
  BY <1>1, <1>2, <1>3, <1>4, <1>5, <1>6, <1>7, <1>8, <1>9, <1>10
     DEF Next, Coordinator, Terminated

\* Workers are done only when the queue is closed or the context cancelled, nobody works
\* before the pool starts, and Start waits for all of them (scraper.go:162-191, 219-222).
LEMMA NextWorkersOK == Accounting /\ [Next]_vars => WorkersOK'
<1>. SUFFICES ASSUME Accounting, [Next]_vars PROVE WorkersOK'
  OBVIOUS
<1>a. TypeOK /\ WorkersOK
  BY DEF Accounting
<1>b. 0 \in Workers
  BY ScraperAssumption DEF Workers
<1>. USE <1>a DEF WorkersOK
<1>1. CASE StartExcluded
  BY <1>1 DEF StartExcluded, Return, workVars
<1>2. CASE StartFetch
  BY <1>2 DEF StartFetch, Return, workVars
<1>3. CASE PoolWait
  <2>1. pc' = pc /\ ctxDone' = ctxDone /\ coord' = coord
    BY <1>3 DEF PoolWait, workVars, coordVars
  <2>2. \A w \in Workers : pc[w] \in {"done", "failed"}
    BY <1>3 DEF PoolWait
  <2>3. phase' = "returned" /\ (ret' = "ok" => \A w \in Workers : pc[w] = "done")
    BY <1>3, <2>2 DEF PoolWait, Return
  <2>. QED
    BY <2>1, <2>2, <2>3
<1>4. CASE Cancel
  BY <1>4 DEF Cancel, mainVars, workVars, coordVars
<1>5. ASSUME NEW w \in Workers, Leave(w) PROVE WorkersOK'
  <2>1. ctxDone \/ coord = "closed"
    BY <1>5 DEF Leave, MayLeave
  <2>2. pc' = [pc EXCEPT ![w] = "done"] /\ UNCHANGED <<phase, ret, coord, ctxDone>>
    BY <1>5 DEF Leave, Goes, mainVars, coordVars
  <2>3. pc[w] = "select"
    BY <1>5 DEF Leave
  <2>. QED
    BY <2>1, <2>2, <2>3 DEF TypeOK
<1>6. ASSUME NEW w \in Workers, NEW at \in {"select", "get", "got", "send", "failed", "check"},
             pc[w] # "done", pc[w] # "failed", pc[w] = "check" => phase = "running",
             Goes(w, at), UNCHANGED <<phase, ret, coord, ctxDone>>
      PROVE  WorkersOK'
  <2>1. phase = "running"
    BY <1>6 DEF TypeOK
  <2>2. ret # "ok"
    BY <1>6
  <2>. QED
    BY <1>6, <2>1, <2>2 DEF Goes, TypeOK
<1>8. ASSUME NEW w \in Workers,
             Enter(w) \/ Take(w) \/ Fetch(w) \/ Retry(w) \/ Answer(w) \/ Fail(w) \/ Send(w)
      PROVE  WorkersOK'
  <2>1. UNCHANGED <<phase, ret, coord, ctxDone>>
    BY <1>8 DEF Enter, Take, Fetch, Retry, Answer, Fail, Send, mainVars, coordVars
  <2>2. /\ pc[w] # "done" /\ pc[w] # "failed" /\ (pc[w] = "check" => phase = "running")
        /\ \E at \in {"select", "get", "got", "send", "failed", "check"} : Goes(w, at)
    BY <1>8 DEF Enter, Take, Fetch, Retry, Answer, Fail, Look, Send
  <2>. QED
    BY <1>6, <2>1, <2>2
<1>9. CASE Coordinator
  <2>1. coord # "closed"
    BY <1>9 DEF Coordinator, Receive, Partition, Push, Settle
  <2>2. UNCHANGED <<phase, ret, pc, ctxDone>>
    BY <1>9 DEF Coordinator, Receive, Partition, Push, Settle, mainVars, workVars
  <2>. QED
    BY <2>1, <2>2
<1>10. CASE UNCHANGED vars
  BY <1>10 DEF vars
<1>. QED
  BY <1>1, <1>2, <1>3, <1>4, <1>5, <1>8, <1>9, <1>10 DEF Next, Worker, Terminated

\* The inductive invariant of the crawl (scraper.go:155-221).
THEOREM AccountingHolds == Spec => []Accounting
<1>1. Accounting /\ [Next]_vars => Accounting'
  BY NextType, NextWorkCounted, NextCoordinatorOK, NextWorkersOK DEF Accounting
<1>. QED
  BY InitAccounting, <1>1, PTL DEF Spec

-------------------------------------------------------------------------------
(* What it is for *)

\* The queue is closed only when no work is left anywhere (scraper.go:208-212).
THEOREM ClosedMeansDoneHolds == Spec => []ClosedMeansDone
<1>1. Accounting => ClosedMeansDone
  <2>. SUFFICES ASSUME Accounting, coord = "closed"
                PROVE  queue = <<>> /\ results = <<>> /\ Holding = {}
    BY DEF ClosedMeansDone
  <2>1. todo = 0 /\ pushed = 0
    BY DEF Accounting, CoordinatorOK
  <2>2. Outstanding = 0
    BY <2>1 DEF Accounting, WorkCounted
  <2>. QED
    BY <2>2, NothingOutstanding DEF Accounting
<1>. QED
  BY AccountingHolds, <1>1, PTL

\* Start reports success only when the crawl is over (scraper.go:166-171, 208-221).
THEOREM OkMeansDoneHolds == Spec => []OkMeansDone
<1>1. Accounting => OkMeansDone
  <2>. SUFFICES ASSUME Accounting, ret = "ok", ~ctxDone
                PROVE  coord = "closed" /\ Outstanding = 0
    BY DEF OkMeansDone
  <2>1. 0 \in Workers
    BY ScraperAssumption DEF Workers
  <2>2. coord = "closed"
    BY <2>1 DEF Accounting, WorkersOK
  <2>3. todo = 0 /\ pushed = 0
    BY <2>2 DEF Accounting, CoordinatorOK
  <2>. QED
    BY <2>2, <2>3 DEF Accounting, WorkCounted
<1>. QED
  BY AccountingHolds, <1>1, PTL

\* A download that fails keeps the queue open: the coordinator waits for a result that
\* nobody will send, and so do the other workers (scraper.go:173-180, 197-213).
THEOREM FailureStopsTheCrawlHolds == Spec => []FailureStopsTheCrawl
<1>1. Accounting /\ ClosedMeansDone => FailureStopsTheCrawl
  <2>. SUFFICES ASSUME Accounting, ClosedMeansDone, ~ctxDone,
                       NEW w \in Workers, pc[w] = "failed"
                PROVE  /\ coord # "closed"
                       /\ \A v \in Workers : pc[v] # "done"
                       /\ phase = "returned" => \A v \in Workers : pc[v] = "failed"
    BY DEF FailureStopsTheCrawl
  <2>1. coord # "closed"
    BY DEF ClosedMeansDone, Holding
  <2>2. \A v \in Workers : pc[v] # "done"
    BY <2>1 DEF Accounting, WorkersOK
  <2>3. phase = "returned" => \A v \in Workers : pc[v] \in {"done", "failed"}
    BY DEF Accounting, WorkersOK
  <2>. QED
    BY <2>1, <2>2, <2>3
<1>. QED
  BY AccountingHolds, ClosedMeansDoneHolds, <1>1, PTL
===============================================================================
