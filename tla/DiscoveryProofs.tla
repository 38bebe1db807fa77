--------------------------- MODULE DiscoveryProofs ---------------------------
(***************************************************************************)
(* Discovery for every set of pools, workers, tasks and sitemaps: types,   *)
(* no send on a closed channel, nothing found is lost, and no sitemap is   *)
(* read twice.                                                             *)
(***************************************************************************)
EXTENDS Discovery, TLAPS

\* A worker holds one task from its receipt to its result, and none elsewhere.
HandsOK ==
    \A w \in Workers :
        IF wpc[w] \in {"fetch", "send"} THEN \E t \in Tasked : item[w] = {t}
                                        ELSE item[w] = {}

\* The results of a pool are closed only after its last worker has gone, and
\* a pool has ended only after its results are drained.
CloseOrder ==
    /\ \A p \in resultsClosed : \A w \in Crew[p] : wpc[w] = "exited"
    /\ \A p \in ended \cap Pools : p \in resultsClosed /\ results[p] = <<>>
    /\ "sitemap" \in ended => agenda = <<>> /\ robotsAsked
    /\ returned => ended = Modules

\* Task t found something in pool p and is on its way to the result.
InPlay(p, t) ==
    \/ t \in collected[p] \/ t \in Ran(results[p])
    \/ \E w \in Crew[p] : wpc[w] = "send" /\ t \in item[w]

HitsInPlay == \A t \in Tasked : t \in hits <=> \E p \in Pools : InPlay(p, t)

\* What is in the result: the parts of the modules that have ended.
Collected == UNION {collected[p] : p \in ended \cap Pools}

LocatedSoFar == IF "sitemap" \in ended THEN located ELSE {}

FoundSoFar == found = YieldOf(Collected) \cup YieldOf(hits \ Tasked) \cup LocatedSoFar

ReadsSeen == \A i \in DOMAIN reads : reads[i].loc \in seen

IInv ==
    /\ TypeOK /\ HandsOK /\ CloseOrder /\ HitsInPlay /\ FoundSoFar
    /\ ReadsSeen /\ SitemapsReadOnce

-------------------------------------------------------------------------------
LEMMA YieldOfUnion ==
    ASSUME NEW A, NEW B
    PROVE  YieldOf(A \cup B) = YieldOf(A) \cup YieldOf(B)
  BY DEF YieldOf

LEMMA RanAppend ==
    ASSUME NEW S, NEW s \in Seq(S), NEW e \in S
    PROVE  Ran(Append(s, e)) = Ran(s) \cup {e}
  <1>1. \A x : x \in Ran(Append(s, e)) => x \in Ran(s) \cup {e}
    BY DEF Ran
  <1>2. \A x \in Ran(s) : x \in Ran(Append(s, e))
    BY DEF Ran
  <1>3. Append(s, e)[Len(s) + 1] = e /\ Len(s) + 1 \in DOMAIN Append(s, e)
    OBVIOUS
  <1>4. e \in Ran(Append(s, e))
    BY <1>3 DEF Ran
  <1>5. QED
    BY <1>1, <1>2, <1>4

LEMMA RanTail ==
    ASSUME NEW S, NEW s \in Seq(S), s # <<>>
    PROVE  Head(s) \in S /\ Tail(s) \in Seq(S) /\ Len(Tail(s)) = Len(s) - 1
           /\ Ran(s) = {Head(s)} \cup Ran(Tail(s))
  <1>1. Head(s) \in S /\ Tail(s) \in Seq(S) /\ Len(Tail(s)) = Len(s) - 1
    OBVIOUS
  <1>2. Head(s) \in Ran(s)
    BY DEF Ran
  <1>3. ASSUME NEW i \in DOMAIN Tail(s) PROVE Tail(s)[i] \in Ran(s)
    <2>1. Tail(s)[i] = s[i + 1] /\ i + 1 \in DOMAIN s
      OBVIOUS
    <2>2. QED
      BY <2>1 DEF Ran
  <1>4. ASSUME NEW i \in DOMAIN s, i # 1 PROVE s[i] \in Ran(Tail(s))
    <2>1. Tail(s)[i - 1] = s[i] /\ i - 1 \in DOMAIN Tail(s)
      BY <1>4
    <2>2. QED
      BY <2>1 DEF Ran
  <1>5. Ran(s) \subseteq {Head(s)} \cup Ran(Tail(s))
    BY <1>4 DEF Ran
  <1>6. Ran(Tail(s)) \subseteq Ran(s)
    BY <1>3 DEF Ran
  <1>7. QED
    BY <1>1, <1>2, <1>5, <1>6

\* The calls of parseSitemap for a list of locations.
LEMMA AtType ==
    ASSUME NEW locs \in Seq(Sitemaps), NEW d \in 0 .. MaxDepth + 1
    PROVE  At(locs, d) \in Seq(Calls)
  <1>1. \A i \in 1 .. Len(locs) : [loc |-> locs[i], depth |-> d] \in Calls
    BY DEF Calls
  <1>2. QED
    BY <1>1 DEF At

\* No pool is a module that works alone.
LEMMA ModulesApart ==
    /\ "sitemap" \notin Pools /\ "sitemap" \notin Alone /\ Pools \cap Alone = {}
  BY DiscoveryConstants

LEMMA WorkerOf ==
    ASSUME NEW p \in Pools, NEW w \in Crew[p]
    PROVE  w \in Workers /\ \A q \in Pools : w \in Crew[q] => q = p
  BY DiscoveryConstants DEF Workers

LEMMA InitIInv == Init => IInv
  <1> SUFFICES ASSUME Init PROVE IInv
    OBVIOUS
  <1> USE DiscoveryConstants
  <1>1. <<>> \in Seq(Tasked) /\ <<>> \in Seq(Calls) /\ Ran(<<>>) = {}
    BY DEF Ran
  <1>2. At(Roots, 0) \in Seq(Calls)
    BY AtType
  <1>3. \A p \in Pools : Len(<<>>) <= Room(p) /\ Len(tasks[p]) <= Room(p)
                           /\ Len(results[p]) <= Room(p)
    <2>1. \A p \in Pools : Len(Tasks[p]) \in Nat
      OBVIOUS
    <2>2. QED
      BY <2>1 DEF Room, Init
  <1>4. /\ todo \in [Pools -> Seq(Tasked)] /\ tasks \in [Pools -> Seq(Tasked)]
        /\ results \in [Pools -> Seq(Tasked)] /\ collected \in [Pools -> SUBSET Tasked]
    BY <1>1 DEF Init
  <1>5. /\ wpc \in [Workers -> {"receive", "fetch", "send", "exited"}]
        /\ item \in [Workers -> SUBSET Tasked]
    BY DEF Init
  <1>6. TypeOK
    BY <1>1, <1>2, <1>3, <1>4, <1>5 DEF Init, TypeOK
  <1>7. HandsOK /\ CloseOrder
    BY DEF Init, HandsOK, CloseOrder, Workers
  <1>8. HitsInPlay
    BY <1>1 DEF Init, HitsInPlay, InPlay, Workers
  <1>9. FoundSoFar
    BY DEF Init, FoundSoFar, Collected, LocatedSoFar, YieldOf
  <1>10. ReadsSeen /\ SitemapsReadOnce
    BY DEF Init, ReadsSeen, SitemapsReadOnce
  <1>11. QED
    BY <1>6, <1>7, <1>8, <1>9, <1>10 DEF IInv

-------------------------------------------------------------------------------
\* Types: the actions of a pool.
LEMMA PoolType ==
    ASSUME TypeOK, NEW p \in Pools,
           \/ Feed(p) \/ CloseResults(p) \/ Gather(p)
           \/ \E w \in Crew[p] : Work(p, w)
    PROVE  TypeOK'
  <1> USE DiscoveryConstants DEF sitemapVars
  <1>0. Len(Tasks[p]) \in Nat
    OBVIOUS
  <1>1. CASE SendTask(p)
    <2>1. todo[p] \in Seq(Tasked) /\ tasks[p] \in Seq(Tasked) /\ todo[p] # <<>>
      BY <1>1 DEF TypeOK, SendTask
    <2>2. Head(todo[p]) \in Tasked /\ Tail(todo[p]) \in Seq(Tasked)
      BY <2>1, RanTail
    <2>3. /\ Append(tasks[p], Head(todo[p])) \in Seq(Tasked)
          /\ Len(Append(tasks[p], Head(todo[p]))) = Len(tasks[p]) + 1
      BY <2>1, <2>2
    <2>4. /\ todo' \in [Pools -> Seq(Tasked)] /\ tasks' \in [Pools -> Seq(Tasked)]
          /\ \A q \in Pools : Len(tasks'[q]) <= Room(q)
      <3>1. \A q \in Pools : todo'[q] = IF q = p THEN Tail(todo[p]) ELSE todo[q]
        BY <1>1 DEF SendTask, TypeOK
      <3>2. \A q \in Pools : tasks'[q] = IF q = p THEN Append(tasks[p], Head(todo[p]))
                                                  ELSE tasks[q]
        BY <1>1 DEF SendTask, TypeOK
      <3>3. Len(tasks[p]) + 1 <= Room(p)
        BY <1>1, <2>1, <1>0 DEF SendTask, Room
      <3>4. todo' \in [Pools -> Seq(Tasked)] /\ tasks' \in [Pools -> Seq(Tasked)]
        BY <1>1, <2>2, <2>3 DEF SendTask, TypeOK
      <3>5. QED
        BY <3>2, <3>3, <3>4, <2>3 DEF TypeOK
    <2>5. QED
      BY <1>1, <2>4 DEF TypeOK, SendTask, Room
  <1>2. CASE CloseTasks(p)
    BY <1>2 DEF TypeOK, CloseTasks, Room
  <1>3. CASE CloseResults(p)
    BY <1>3 DEF TypeOK, CloseResults, Room
  <1>4. CASE Collect(p)
    <2>1. results[p] \in Seq(Tasked) /\ results[p] # <<>>
      BY <1>4 DEF TypeOK, Collect
    <2>2. /\ Head(results[p]) \in Tasked /\ Tail(results[p]) \in Seq(Tasked)
          /\ Len(Tail(results[p])) = Len(results[p]) - 1
      BY <2>1, RanTail
    <2>3. results' \in [Pools -> Seq(Tasked)] /\ collected' \in [Pools -> SUBSET Tasked]
      BY <1>4, <2>2 DEF TypeOK, Collect
    <2>4. \A q \in Pools : results'[q] = IF q = p THEN Tail(results[p]) ELSE results[q]
      BY <1>4 DEF TypeOK, Collect
    <2>5. Len(results[p]) \in Nat /\ Room(p) \in Nat
      BY <2>1, <1>0 DEF Room
    <2>6. \A q \in Pools : Len(results'[q]) <= Room(q)
      <3>1. \A q \in Pools : Len(results[q]) <= Room(q)
        BY DEF TypeOK
      <3>2. Len(Tail(results[p])) <= Room(p)
        BY <3>1, <2>2, <2>5
      <3>3. QED
        BY <3>1, <3>2, <2>4
    <2>7. QED
      BY <1>4, <2>3, <2>6 DEF TypeOK, Collect, Room
  <1>5. CASE EndPool(p)
    <2>1. YieldOf(collected[p]) \subseteq YieldOf(Finders \cup Sitemaps)
      BY DEF TypeOK, YieldOf, Finders
    <2>2. QED
      BY <1>5, <2>1 DEF TypeOK, EndPool, Room, poolVars, Modules
  <1>6. ASSUME NEW w \in Crew[p], Work(p, w) PROVE TypeOK'
    <2>0. w \in Workers
      BY WorkerOf
    <2>1. CASE Receive(p, w)
      <3>1. tasks[p] \in Seq(Tasked) /\ tasks[p] # <<>>
        BY <2>1 DEF TypeOK, Receive
      <3>2. /\ Head(tasks[p]) \in Tasked /\ Tail(tasks[p]) \in Seq(Tasked)
            /\ Len(Tail(tasks[p])) = Len(tasks[p]) - 1
        BY <3>1, RanTail
      <3>3. tasks' \in [Pools -> Seq(Tasked)]
        BY <2>1, <3>2 DEF TypeOK, Receive
      <3>4. /\ item' \in [Workers -> SUBSET Tasked]
            /\ wpc' \in [Workers -> {"receive", "fetch", "send", "exited"}]
        BY <2>0, <2>1, <3>2 DEF TypeOK, Receive
      <3>5. \A q \in Pools : tasks'[q] = IF q = p THEN Tail(tasks[p]) ELSE tasks[q]
        BY <2>1 DEF TypeOK, Receive
      <3>6. Len(tasks[p]) \in Nat /\ Room(p) \in Nat
        BY <3>1, <1>0 DEF Room
      <3>7. \A q \in Pools : Len(tasks'[q]) <= Room(q)
        <4>1. \A q \in Pools : Len(tasks[q]) <= Room(q)
          BY DEF TypeOK
        <4>2. Len(Tail(tasks[p])) <= Room(p)
          BY <4>1, <3>2, <3>6
        <4>3. QED
          BY <4>1, <4>2, <3>5
      <3>8. QED
        BY <2>1, <3>3, <3>4, <3>7 DEF TypeOK, Receive, Room
    <2>2. CASE ExitWorker(p, w)
      BY <2>0, <2>2 DEF TypeOK, ExitWorker, Room
    <2>3. CASE FetchTask(w)
      <3>1. /\ item' \in [Workers -> SUBSET Tasked]
            /\ wpc' \in [Workers -> {"receive", "fetch", "send", "exited"}]
            /\ hits' \subseteq Finders
        BY <2>0, <2>3 DEF TypeOK, FetchTask, Finders
      <3>2. QED
        BY <2>3, <3>1 DEF TypeOK, FetchTask, Room
    <2>4. CASE SendResult(p, w)
      <3>1. PICK t \in item[w] : results' = [results EXCEPT ![p] = Append(@, t)]
        BY <2>4 DEF SendResult
      <3>2. t \in Tasked /\ results[p] \in Seq(Tasked)
        BY <2>0 DEF TypeOK
      <3>3. Append(results[p], t) \in Seq(Tasked) /\ Len(Append(results[p], t)) = Len(results[p]) + 1
        BY <3>2
      <3>4. results' \in [Pools -> Seq(Tasked)]
        BY <3>1, <3>3 DEF TypeOK
      <3>5. /\ item' \in [Workers -> SUBSET Tasked]
            /\ wpc' \in [Workers -> {"receive", "fetch", "send", "exited"}]
        BY <2>0, <2>4 DEF TypeOK, SendResult
      <3>6. \A q \in Pools : results'[q] = IF q = p THEN Append(results[p], t) ELSE results[q]
        BY <3>1 DEF TypeOK
      <3>7. Len(results[p]) + 1 <= Room(p)
        BY <2>4, <3>2, <1>0 DEF SendResult, Room
      <3>8. \A q \in Pools : Len(results'[q]) <= Room(q)
        BY <3>3, <3>6, <3>7 DEF TypeOK
      <3>9. QED
        BY <2>4, <3>4, <3>5, <3>8 DEF TypeOK, SendResult, Room
    <2>5. QED
      BY <1>6, <2>1, <2>2, <2>3, <2>4 DEF Work
  <1>7. QED
    BY <1>1, <1>2, <1>3, <1>4, <1>5, <1>6 DEF Feed, Gather

\* Types: the sitemap module, the modules that work alone, and the return.
LEMMA OtherType ==
    ASSUME TypeOK, WalkSitemaps \/ WorkAlone \/ Return
    PROVE  TypeOK'
  <1> USE DiscoveryConstants DEF poolVars
  <1>1. CASE SkipSitemap
    <2>1. Tail(agenda) \in Seq(Calls)
      BY <1>1, RanTail DEF TypeOK, SkipSitemap
    <2>2. QED
      BY <1>1, <2>1 DEF TypeOK, SkipSitemap, Room
  <1>2. CASE ReadSitemap
    <2> DEFINE call == Head(agenda)
    <2>1. call \in Calls /\ Tail(agenda) \in Seq(Calls)
      BY <1>2, RanTail DEF TypeOK, ReadSitemap
    <2>2. call.loc \in Sitemaps /\ call.depth + 1 \in 0 .. MaxDepth + 1
      BY <1>2, <2>1 DEF Calls, ReadSitemap, ToRead
    <2>3. At(Index[call.loc], call.depth + 1) \o Tail(agenda) \in Seq(Calls)
      BY <2>1, <2>2, AtType
    <2>4. /\ agenda' = Tail(agenda)
             \/ agenda' = At(Index[call.loc], call.depth + 1) \o Tail(agenda)
          /\ reads' = Append(reads, call) /\ seen' = seen \cup {call.loc}
      BY <1>2 DEF ReadSitemap
    <2>5. located' = located \/ located' = located \cup Yield[call.loc]
      BY <1>2 DEF ReadSitemap
    <2>6. Yield[call.loc] \subseteq YieldOf(Sitemaps)
      BY <2>2 DEF YieldOf
    <2>7. /\ agenda' \in Seq(Calls) /\ reads' \in Seq(Calls)
          /\ seen' \subseteq Sitemaps /\ located' \subseteq YieldOf(Sitemaps)
      <3>1. agenda' \in Seq(Calls)
        BY <2>1, <2>3, <2>4
      <3>2. reads' \in Seq(Calls)
        BY <2>1, <2>4 DEF TypeOK
      <3>3. seen' \subseteq Sitemaps
        BY <2>2, <2>4 DEF TypeOK
      <3>4. located' \subseteq YieldOf(Sitemaps)
        BY <2>5, <2>6 DEF TypeOK
      <3>5. QED
        BY <3>1, <3>2, <3>3, <3>4
    <2>8. QED
      BY <1>2, <2>7 DEF TypeOK, ReadSitemap, Room
  <1>3. CASE AskRobots
    <2>1. At(RobotsMaps, 0) \in Seq(Calls)
      BY AtType
    <2>2. QED
      BY <1>3, <2>1 DEF TypeOK, AskRobots, Room
  <1>4. CASE EndSitemap
    <2>1. YieldOf(Sitemaps) \subseteq YieldOf(Finders \cup Sitemaps)
      BY DEF YieldOf
    <2>2. QED
      BY <1>4, <2>1 DEF TypeOK, EndSitemap, sitemapVars, Modules, Room
  <1>5. CASE WorkAlone
    <2>1. PICK m \in Alone \ ended, xs \in SUBSET Finders : End(m, xs)
      BY <1>5 DEF WorkAlone, ParseRobots, ParseSourceMaps, ReadPage, End, Finders
    <2>2. YieldOf(xs) \subseteq YieldOf(Finders \cup Sitemaps)
      BY DEF YieldOf
    <2>3. QED
      BY <2>1, <2>2 DEF TypeOK, End, sitemapVars, Modules, Room
  <1>6. CASE Return
    BY <1>6 DEF TypeOK, Return, sitemapVars, Room
  <1>7. QED
    BY <1>1, <1>2, <1>3, <1>4, <1>5, <1>6 DEF WalkSitemaps

\* A pool's step and a step of the rest leave the other's variables alone.
LEMMA PoolFrame ==
    ASSUME NEW p \in Pools,
           \/ Feed(p) \/ CloseResults(p) \/ Collect(p)
           \/ \E w \in Crew[p] : Work(p, w)
    PROVE  UNCHANGED <<sitemapVars, ended, found, returned>>
  BY DEF Feed, SendTask, CloseTasks, CloseResults, Collect, Work, Receive, ExitWorker,
         FetchTask, SendResult

-------------------------------------------------------------------------------
\* Every step preserves who holds a task.
LEMMA HandsStep ==
    ASSUME TypeOK, HandsOK, [Next]_vars
    PROVE  HandsOK'
  <1>1. CASE UNCHANGED <<wpc, item>>
    BY <1>1 DEF HandsOK
  <1>2. ASSUME NEW p \in Pools, NEW w \in Crew[p], Work(p, w) PROVE HandsOK'
    <2>0. w \in Workers
      BY WorkerOf
    <2>1. CASE Receive(p, w)
      <3>1. Head(tasks[p]) \in Tasked
        BY <2>1, RanTail DEF TypeOK, Receive
      <3>2. QED
        BY <2>0, <2>1, <3>1 DEF TypeOK, HandsOK, Receive
    <2>2. CASE ExitWorker(p, w)
      BY <2>0, <2>2 DEF TypeOK, HandsOK, ExitWorker
    <2>3. CASE FetchTask(w)
      BY <2>0, <2>3 DEF TypeOK, HandsOK, FetchTask
    <2>4. CASE SendResult(p, w)
      BY <2>0, <2>4 DEF TypeOK, HandsOK, SendResult
    <2>5. QED
      BY <1>2, <2>1, <2>2, <2>3, <2>4 DEF Work
  <1>3. QED
    BY <1>1, <1>2 DEF Next, Feed, SendTask, CloseTasks, CloseResults, Gather, Collect, EndPool,
       WalkSitemaps, SkipSitemap, ReadSitemap, AskRobots, EndSitemap, WorkAlone, ParseRobots,
       ParseSourceMaps, ReadPage, End, Return, vars, poolVars, sitemapVars

\* Every step preserves the order in which channels close and modules end.
LEMMA CloseStep ==
    ASSUME TypeOK, CloseOrder, [Next]_vars
    PROVE  CloseOrder'
  <1>1. ASSUME NEW p \in Pools, NEW w \in Crew[p], Work(p, w) PROVE CloseOrder'
    <2>0. /\ w \in Workers /\ wpc[w] # "exited"
          /\ \A q \in Pools : w \in Crew[q] => q = p
      BY <1>1, WorkerOf DEF Work, Receive, ExitWorker, FetchTask, SendResult
    <2>1. p \notin resultsClosed /\ p \notin ended
      BY <2>0 DEF CloseOrder
    <2>2. /\ UNCHANGED <<sitemapVars, ended, found, returned, resultsClosed>>
          /\ \A q \in Pools : q # p => results'[q] = results[q]
          /\ \A v \in Workers : v # w => wpc'[v] = wpc[v]
      BY <1>1, <2>0 DEF TypeOK, Work, Receive, ExitWorker, FetchTask, SendResult
    <2>3. \A q \in resultsClosed' : \A v \in Crew[q] : wpc'[v] = "exited"
      <3>1. \A q \in resultsClosed : \A v \in Crew[q] : v # w /\ v \in Workers
        BY <2>0, <2>1, WorkerOf DEF TypeOK
      <3>2. QED
        BY <2>2, <3>1 DEF CloseOrder
    <2>4. QED
      BY <2>1, <2>2, <2>3 DEF CloseOrder, sitemapVars
  <1>2. ASSUME NEW p \in Pools, CloseResults(p) PROVE CloseOrder'
    BY <1>2 DEF CloseOrder, CloseResults, WorkersDone, sitemapVars
  <1>3. ASSUME NEW p \in Pools, Collect(p) PROVE CloseOrder'
    <2>1. p \notin ended
      BY <1>3 DEF CloseOrder, Collect
    <2>2. \A q \in Pools : q # p => results'[q] = results[q]
      BY <1>3 DEF TypeOK, Collect
    <2>3. QED
      BY <1>3, <2>1, <2>2 DEF CloseOrder, Collect, sitemapVars
  <1>4. ASSUME NEW p \in Pools, EndPool(p) PROVE CloseOrder'
    BY <1>4, ModulesApart DEF CloseOrder, EndPool, Drained, poolVars, sitemapVars, Modules
  <1>5. CASE EndSitemap
    BY <1>5, ModulesApart DEF CloseOrder, EndSitemap, poolVars, sitemapVars, Modules
  <1>6. CASE SkipSitemap \/ ReadSitemap \/ AskRobots
    <2>1. "sitemap" \notin ended
      BY <1>6 DEF CloseOrder, SkipSitemap, ReadSitemap, AskRobots
    <2>2. UNCHANGED <<results, resultsClosed, wpc, ended, returned>>
      BY <1>6 DEF SkipSitemap, ReadSitemap, AskRobots, poolVars
    <2>3. QED
      BY <2>1, <2>2 DEF CloseOrder
  <1>7. CASE WorkAlone
    <2>1. PICK m \in Alone : m \notin ended /\ ended' = ended \cup {m}
                             /\ UNCHANGED <<poolVars, sitemapVars, returned>>
      BY <1>7 DEF WorkAlone, ParseRobots, ParseSourceMaps, ReadPage, End
    <2>2. m \notin Pools /\ m # "sitemap" /\ m \in Modules
      BY ModulesApart DEF Modules
    <2>3. QED
      BY <2>1, <2>2 DEF CloseOrder, poolVars, sitemapVars
  <1>8. CASE Return
    BY <1>8 DEF CloseOrder, Return, AllDone, poolVars, sitemapVars
  <1>9. ASSUME NEW p \in Pools, Feed(p) PROVE CloseOrder'
    BY <1>9 DEF CloseOrder, Feed, SendTask, CloseTasks, sitemapVars
  <1>10. CASE UNCHANGED vars
    BY <1>10 DEF CloseOrder, vars, poolVars, sitemapVars
  <1>11. QED
    BY <1>1, <1>2, <1>3, <1>4, <1>5, <1>6, <1>7, <1>8, <1>9, <1>10
    DEF Next, Gather, WalkSitemaps

-------------------------------------------------------------------------------
\* A task that found something stays in play, from the worker to the result.
LEMMA WorkHits ==
    ASSUME TypeOK, HandsOK, HitsInPlay, NEW p \in Pools, NEW w \in Crew[p], Work(p, w)
    PROVE  HitsInPlay'
  <1>0. w \in Workers /\ \A q \in Pools : \A v \in Crew[q] : v \in Workers
    BY WorkerOf
  <1>1. CASE Receive(p, w)
    <2>1. /\ \A v \in Workers : wpc'[v] = "send" <=> wpc[v] = "send"
          /\ \A v \in Workers : wpc[v] = "send" => item'[v] = item[v]
          /\ UNCHANGED <<collected, results, hits>>
      BY <1>0, <1>1 DEF TypeOK, Receive
    <2>2. QED
      BY <1>0, <2>1 DEF HitsInPlay, InPlay
  <1>2. CASE ExitWorker(p, w)
    <2>1. /\ \A v \in Workers : wpc'[v] = "send" <=> wpc[v] = "send"
          /\ UNCHANGED <<collected, results, hits, item>>
      BY <1>0, <1>2 DEF TypeOK, ExitWorker
    <2>2. QED
      BY <1>0, <2>1 DEF HitsInPlay, InPlay
  <1>3. CASE FetchTask(w)
    <2>1. CASE hits' = hits
      <3>1. CASE wpc' = [wpc EXCEPT ![w] = "receive"] /\ item' = [item EXCEPT ![w] = {}]
        <4>1. /\ \A v \in Workers : wpc'[v] = "send" <=> wpc[v] = "send"
              /\ \A v \in Workers : wpc[v] = "send" => item'[v] = item[v]
              /\ UNCHANGED <<collected, results, hits>>
          BY <1>0, <1>3, <2>1, <3>1 DEF TypeOK, FetchTask
        <4>2. QED
          BY <1>0, <4>1 DEF HitsInPlay, InPlay
      <3>2. CASE wpc' = [wpc EXCEPT ![w] = "send"] /\ item' = item /\ hits' = hits \cup item[w]
        <4>1. /\ \A v \in Workers : wpc'[v] = "send" <=> (wpc[v] = "send" \/ v = w)
              /\ UNCHANGED <<collected, results, item>>
          BY <1>0, <1>3, <3>2 DEF TypeOK, FetchTask
        <4>2. QED
          BY <1>0, <2>1, <3>2, <4>1 DEF HitsInPlay, InPlay
      <3>3. QED
        BY <1>3, <3>1, <3>2 DEF FetchTask
    <2>2. CASE hits' # hits
      <3>1. /\ wpc' = [wpc EXCEPT ![w] = "send"] /\ hits' = hits \cup item[w]
            /\ UNCHANGED <<collected, results, item>>
        BY <1>3, <2>2 DEF FetchTask
      <3>2. \A v \in Workers : wpc'[v] = "send" <=> (wpc[v] = "send" \/ v = w)
        BY <1>0, <3>1 DEF TypeOK
      <3>3. QED
        BY <1>0, <3>1, <3>2 DEF HitsInPlay, InPlay
    <2>3. QED
      BY <2>1, <2>2
  <1>4. CASE SendResult(p, w)
    <2>1. PICK t \in Tasked : item[w] = {t}
      BY <1>0, <1>4 DEF HandsOK, SendResult
    <2>2. /\ results' = [results EXCEPT ![p] = Append(@, t)]
          /\ item' = [item EXCEPT ![w] = {}] /\ wpc' = [wpc EXCEPT ![w] = "receive"]
          /\ UNCHANGED <<collected, hits>> /\ wpc[w] = "send"
      BY <1>4, <2>1 DEF SendResult
    <2>3. /\ \A v \in Workers : wpc'[v] = "send" <=> (wpc[v] = "send" /\ v # w)
          /\ \A v \in Workers : v # w => item'[v] = item[v]
      BY <1>0, <2>2 DEF TypeOK
    <2>4. results[p] \in Seq(Tasked)
      BY DEF TypeOK
    <2>5. Ran(Append(results[p], t)) = Ran(results[p]) \cup {t}
      BY <2>4, RanAppend
    <2>6. \A q \in Pools : Ran(results'[q]) = IF q = p THEN Ran(results[p]) \cup {t}
                                                     ELSE Ran(results[q])
      BY <2>2, <2>5 DEF TypeOK
    <2>7. \A q \in Pools, x \in Tasked : InPlay(q, x)' <=> InPlay(q, x)
      <3> SUFFICES ASSUME NEW q \in Pools, NEW x \in Tasked PROVE InPlay(q, x)' <=> InPlay(q, x)
        OBVIOUS
      <3>1. CASE q = p
        BY <1>0, <2>1, <2>2, <2>3, <2>6, <3>1 DEF InPlay
      <3>2. CASE q # p
        <4>1. \A v \in Crew[q] : v # w
          BY <3>2, WorkerOf
        <4>2. QED
          BY <1>0, <2>2, <2>3, <2>6, <3>2, <4>1 DEF InPlay
      <3>3. QED
        BY <3>1, <3>2
    <2>8. QED
      BY <2>2, <2>7 DEF HitsInPlay
  <1>5. QED
    BY <1>1, <1>2, <1>3, <1>4 DEF Work

LEMMA HitsStep ==
    ASSUME TypeOK, HandsOK, HitsInPlay, [Next]_vars
    PROVE  HitsInPlay'
  <1>1. CASE UNCHANGED <<results, collected, wpc, item, hits>>
    BY <1>1 DEF HitsInPlay, InPlay
  <1>2. ASSUME NEW p \in Pools, NEW w \in Crew[p], Work(p, w) PROVE HitsInPlay'
    BY <1>2, WorkHits
  <1>3. ASSUME NEW p \in Pools, Collect(p) PROVE HitsInPlay'
    <2>1. results[p] \in Seq(Tasked) /\ results[p] # <<>>
      BY <1>3 DEF TypeOK, Collect
    <2>2. Ran(results[p]) = {Head(results[p])} \cup Ran(Tail(results[p]))
      BY <2>1, RanTail
    <2>3. /\ \A q \in Pools : Ran(results'[q]) = IF q = p THEN Ran(Tail(results[p]))
                                                        ELSE Ran(results[q])
          /\ \A q \in Pools : collected'[q] = IF q = p THEN collected[p] \cup {Head(results[p])}
                                                      ELSE collected[q]
          /\ UNCHANGED <<wpc, item, hits>>
      BY <1>3 DEF TypeOK, Collect
    <2>4. \A q \in Pools, x \in Tasked : InPlay(q, x)' <=> InPlay(q, x)
      BY <2>2, <2>3 DEF InPlay
    <2>5. QED
      BY <2>3, <2>4 DEF HitsInPlay
  <1>4. CASE WorkAlone
    <2>1. PICK m \in Alone \ ended, xs \in SUBSET (Maps \cup Alone) : End(m, xs)
      BY <1>4 DEF WorkAlone, ParseRobots, ParseSourceMaps, ReadPage, End
    <2>2. /\ UNCHANGED <<results, collected, wpc, item>>
          /\ \A t \in Tasked : t \in hits' <=> t \in hits
      BY <2>1, DiscoveryConstants DEF End, poolVars
    <2>3. QED
      BY <2>2 DEF HitsInPlay, InPlay
  <1>5. QED
    BY <1>1, <1>2, <1>3, <1>4 DEF Next, Feed, SendTask, CloseTasks, CloseResults, Gather, EndPool,
       WalkSitemaps, SkipSitemap, ReadSitemap, AskRobots, EndSitemap, Return, vars, poolVars

-------------------------------------------------------------------------------
\* Every step keeps the result equal to the parts of the modules that ended.
LEMMA FoundStep ==
    ASSUME TypeOK, HandsOK, CloseOrder, FoundSoFar, [Next]_vars
    PROVE  FoundSoFar'
  <1>1. CASE UNCHANGED <<collected, ended, located, found, hits>>
    BY <1>1 DEF FoundSoFar, Collected, LocatedSoFar, YieldOf
  <1>2. ASSUME NEW p \in Pools, NEW w \in Crew[p], Work(p, w) PROVE FoundSoFar'
    <2>1. UNCHANGED <<collected, ended, located, found>> /\ hits' \ Tasked = hits \ Tasked
      <3>1. item[w] \subseteq Tasked
        BY WorkerOf DEF TypeOK
      <3>2. QED
        BY <1>2, <3>1 DEF Work, Receive, ExitWorker, FetchTask, SendResult, sitemapVars
    <2>2. Collected' = Collected /\ LocatedSoFar' = LocatedSoFar
      BY <2>1 DEF Collected, LocatedSoFar
    <2>3. QED
      BY <2>1, <2>2 DEF FoundSoFar, YieldOf
  <1>3. ASSUME NEW p \in Pools, Collect(p) PROVE FoundSoFar'
    <2>1. p \notin ended /\ UNCHANGED <<ended, located, found, hits>>
      BY <1>3 DEF CloseOrder, Collect, sitemapVars
    <2>2. \A q \in ended \cap Pools : collected'[q] = collected[q]
      BY <1>3, <2>1 DEF TypeOK, Collect
    <2>3. Collected' = Collected /\ LocatedSoFar' = LocatedSoFar
      BY <2>1, <2>2 DEF Collected, LocatedSoFar
    <2>4. QED
      BY <2>1, <2>3 DEF FoundSoFar, YieldOf
  <1>4. ASSUME NEW p \in Pools, EndPool(p) PROVE FoundSoFar'
    <2>1. /\ ended' = ended \cup {p} /\ found' = found \cup YieldOf(collected[p])
          /\ UNCHANGED <<collected, located, hits>> /\ p # "sitemap"
      BY <1>4, ModulesApart DEF EndPool, poolVars, sitemapVars
    <2>2. Collected' = Collected \cup collected[p] /\ LocatedSoFar' = LocatedSoFar
      BY <2>1 DEF Collected, LocatedSoFar
    <2>3. YieldOf(Collected') = YieldOf(Collected) \cup YieldOf(collected[p])
      BY <2>2, YieldOfUnion
    <2>4. QED
      BY <2>1, <2>2, <2>3 DEF FoundSoFar, YieldOf
  <1>5. CASE SkipSitemap \/ ReadSitemap \/ AskRobots
    <2>1. "sitemap" \notin ended /\ UNCHANGED <<collected, ended, found, hits>>
      BY <1>5 DEF CloseOrder, SkipSitemap, ReadSitemap, AskRobots, poolVars
    <2>2. Collected' = Collected /\ LocatedSoFar = {} /\ LocatedSoFar' = {}
      BY <2>1 DEF Collected, LocatedSoFar
    <2>3. QED
      BY <2>1, <2>2 DEF FoundSoFar, YieldOf
  <1>6. CASE EndSitemap
    <2>1. /\ "sitemap" \notin ended /\ ended' = ended \cup {"sitemap"}
          /\ found' = found \cup located /\ UNCHANGED <<collected, located, hits>>
      BY <1>6 DEF EndSitemap, poolVars, sitemapVars
    <2>2. Collected' = Collected /\ LocatedSoFar = {} /\ LocatedSoFar' = located
      BY <2>1, ModulesApart DEF Collected, LocatedSoFar
    <2>3. QED
      BY <2>1, <2>2 DEF FoundSoFar, YieldOf
  <1>7. CASE WorkAlone
    <2>1. PICK m \in Alone \ ended, xs \in SUBSET (Maps \cup Alone) : End(m, xs)
      BY <1>7 DEF WorkAlone, ParseRobots, ParseSourceMaps, ReadPage, End
    <2>2. /\ ended' = ended \cup {m} /\ found' = found \cup YieldOf(xs)
          /\ UNCHANGED <<collected, located>> /\ m # "sitemap" /\ m \notin Pools
      BY <2>1, ModulesApart DEF End, poolVars, sitemapVars
    <2>3. hits' \ Tasked = (hits \ Tasked) \cup xs
      BY <2>1, DiscoveryConstants DEF End
    <2>4. YieldOf(hits' \ Tasked) = YieldOf(hits \ Tasked) \cup YieldOf(xs)
      BY <2>3, YieldOfUnion
    <2>5. Collected' = Collected /\ LocatedSoFar' = LocatedSoFar
      BY <2>2 DEF Collected, LocatedSoFar
    <2>6. QED
      BY <2>2, <2>4, <2>5 DEF FoundSoFar, YieldOf
  <1>8. QED
    BY <1>1, <1>2, <1>3, <1>4, <1>5, <1>6, <1>7 DEF Next, Feed, SendTask, CloseTasks,
       CloseResults, Gather, WalkSitemaps, Return, vars, poolVars, sitemapVars

\* Every step reads a sitemap that was not read before, within the depth.
LEMMA ReadsStep ==
    ASSUME TypeOK, ReadsSeen, SitemapsReadOnce, [Next]_vars
    PROVE  ReadsSeen' /\ SitemapsReadOnce'
  <1>1. CASE UNCHANGED <<reads, seen>>
    BY <1>1 DEF ReadsSeen, SitemapsReadOnce
  <1>2. CASE ReadSitemap
    <2> DEFINE call == Head(agenda)
    <2>1. /\ call.loc \notin seen /\ call.depth <= MaxDepth
          /\ seen' = seen \cup {call.loc} /\ reads' = Append(reads, call)
      BY <1>2 DEF ReadSitemap, ToRead
    <2>2. reads \in Seq(Calls) /\ call \in Calls
      BY <1>2, RanTail DEF TypeOK, ReadSitemap
    <2>3. /\ DOMAIN reads' = 1 .. Len(reads) + 1
          /\ reads'[Len(reads) + 1] = call
          /\ \A i \in DOMAIN reads : reads'[i] = reads[i]
          /\ DOMAIN reads = 1 .. Len(reads)
      BY <2>1, <2>2
    <2> HIDE DEF call
    <2>4. \A i \in DOMAIN reads' : i \in DOMAIN reads \/ i = Len(reads) + 1
      BY <2>2, <2>3
    <2>5. \A i \in DOMAIN reads : reads'[i].loc \in seen /\ reads'[i].depth <= MaxDepth
      BY <2>3 DEF ReadsSeen, SitemapsReadOnce
    <2>6. ReadsSeen'
      BY <2>1, <2>3, <2>4, <2>5 DEF ReadsSeen
    <2>7. SitemapsReadOnce'
      BY <2>1, <2>3, <2>4, <2>5 DEF SitemapsReadOnce
    <2>8. QED
      BY <2>6, <2>7
  <1>3. QED
    BY <1>1, <1>2 DEF Next, Feed, SendTask, CloseTasks, CloseResults, Gather, Collect, EndPool,
       Work, Receive, ExitWorker, FetchTask, SendResult, WalkSitemaps, SkipSitemap, AskRobots,
       EndSitemap, WorkAlone, ParseRobots, ParseSourceMaps, ReadPage, End, Return, vars,
       poolVars, sitemapVars

-------------------------------------------------------------------------------
LEMMA IInvStep == IInv /\ [Next]_vars => IInv'
  <1> SUFFICES ASSUME IInv, [Next]_vars PROVE IInv'
    OBVIOUS
  <1>1. TypeOK'
    <2>1. CASE UNCHANGED vars
      BY <2>1 DEF IInv, TypeOK, vars, poolVars, sitemapVars, Room
    <2>2. QED
      BY <2>1, PoolType, OtherType DEF IInv, Next
  <1>2. HandsOK' /\ CloseOrder' /\ HitsInPlay' /\ FoundSoFar'
    BY HandsStep, CloseStep, HitsStep, FoundStep DEF IInv
  <1>3. ReadsSeen' /\ SitemapsReadOnce'
    BY ReadsStep DEF IInv
  <1>4. QED
    BY <1>1, <1>2, <1>3 DEF IInv

LEMMA Invariance == Spec => []IInv
  BY InitIInv, IInvStep, PTL DEF Spec

\* Discover's variables keep their types for all constants.
THEOREM TypeCorrect == Spec => []TypeOK
  <1>1. IInv => TypeOK
    BY DEF IInv
  <1>2. QED
    BY <1>1, Invariance, PTL

\* No worker of a pool ever sends on a result channel that is closed.
THEOREM NoSendOnClosedAlways == Spec => []NoSendOnClosed
  <1>1. IInv => NoSendOnClosed
    BY DEF IInv, CloseOrder, NoSendOnClosed
  <1>2. QED
    BY <1>1, Invariance, PTL

\* What Discover returns is what its workers and modules found, whatever the
\* pools, tasks and answers.
THEOREM ReturnsAllFoundAlways == Spec => []ReturnsAllFound
  <1>1. ASSUME IInv, returned PROVE found = YieldOf(hits) \cup located
    <2>1. /\ ended = Modules
          /\ \A p \in Pools : results[p] = <<>> /\ \A w \in Crew[p] : wpc[w] = "exited"
      BY <1>1 DEF IInv, CloseOrder, Modules
    <2>2. \A p \in Pools, t \in Tasked : InPlay(p, t) <=> t \in collected[p]
      BY <2>1 DEF InPlay, Ran
    <2>3. ended \cap Pools = Pools /\ LocatedSoFar = located
      BY <2>1 DEF Modules, LocatedSoFar
    <2>4. \A p \in Pools : collected[p] \subseteq Tasked
      BY <1>1 DEF IInv, TypeOK
    <2>5. Collected = hits \cap Tasked
      BY <1>1, <2>2, <2>3, <2>4 DEF IInv, HitsInPlay, Collected
    <2>6. hits = (hits \cap Tasked) \cup (hits \ Tasked)
      OBVIOUS
    <2>7. YieldOf(hits) = YieldOf(hits \cap Tasked) \cup YieldOf(hits \ Tasked)
      BY <2>6, YieldOfUnion
    <2>8. QED
      BY <1>1, <2>3, <2>5, <2>7 DEF IInv, FoundSoFar
  <1>2. IInv => ReturnsAllFound
    BY <1>1 DEF ReturnsAllFound
  <1>3. QED
    BY <1>2, Invariance, PTL

\* However sitemap indexes refer to each other, each is read once and within
\* the depth limit.
THEOREM SitemapsReadOnceAlways == Spec => []SitemapsReadOnce
  <1>1. IInv => SitemapsReadOnce
    BY DEF IInv
  <1>2. QED
    BY <1>1, Invariance, PTL
===============================================================================
