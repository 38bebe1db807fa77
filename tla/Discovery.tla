------------------------------- MODULE Discovery -------------------------------
(***************************************************************************)
(* internal/discovery/enhanced: Discover starts one goroutine per enabled  *)
(* module, waits for all of them and returns what they found.  Two modules *)
(* (path brute forcing and JavaScript extraction) are pools of workers     *)
(* between two channels; the sitemap module walks indexes that may refer   *)
(* to each other; the others work alone and are one step each here, up to  *)
(* and with the locked append of what they found.                          *)
(*                                                                         *)
(* What a response contains is given by the constants; whether a request   *)
(* succeeds is left open.  The lists of the result (URLs, routes, endpoints,*)
(* parameters, technologies) are one set, so dedupe is implied.            *)
(***************************************************************************)
EXTENDS Integers, Sequences, FiniteSets

CONSTANTS Pools,        \* pathBruter and jsExtractor, if enabled
          Alone,        \* those enabled of the other modules but sitemap
          Crew,         \* Crew[p]: the workers of pool p
          Tasks,        \* Tasks[p]: paths or JavaScript URLs, in the order sent
          Maps,         \* candidate source maps of the JavaScript URLs
          Yield,        \* Yield[x]: what task, module, source map or sitemap x gives
          Roots,        \* the common sitemap locations, in order
          RobotsMaps,   \* the sitemaps that robots.txt names
          Index,        \* Index[s]: sitemaps that sitemap s lists, if an index
          MaxDepth      \* maxDepth, 3 in the code

Sitemaps == DOMAIN Index
Workers  == UNION {Crew[p] : p \in Pools}
Ran(q)   == {q[i] : i \in DOMAIN q}
Modules  == Pools \cup Alone \cup {"sitemap"}
Tasked   == UNION {Ran(Tasks[p]) : p \in Pools}
Finders  == Tasked \cup Maps \cup (Alone \ {"sourceMap"})
YieldOf(xs) == UNION {Yield[x] : x \in xs}

ASSUME DiscoveryConstants ==
    /\ Alone \subseteq {"robots", "sourceMap", "fingerprint", "paramDiscov"}
    /\ Pools \cap (Alone \cup {"sitemap"}) = {}
    /\ Tasked \cap (Maps \cup Alone) = {} /\ Maps \cap Alone = {}
    /\ Tasks \in [Pools -> Seq(Tasked)]
    /\ \A p \in Pools, q \in Pools : p # q => Crew[p] \cap Crew[q] = {}
    /\ Roots \in Seq(Sitemaps) /\ RobotsMaps \in Seq(Sitemaps)
    /\ \A s \in Sitemaps : Index[s] \in Seq(Sitemaps)
    /\ MaxDepth \in Nat

VARIABLES todo,            \* todo[p]: tasks not yet sent
          tasks,           \* tasks[p]: pathChan or urlChan
          tasksClosed,     \* pools whose task channel is closed
          results,         \* results[p]: resultChan
          resultsClosed,   \* pools whose result channel is closed
          wpc, item,       \* where a worker is, and the task in its hands
          collected,       \* collected[p]: tasks whose results were received
          agenda,          \* calls of parseSitemap still to make
          robotsAsked,     \* findSitemapsInRobots was called
          seen,            \* sitemaps parsed or being parsed
          located,         \* URLs of the sitemaps parsed so far
          ended,           \* modules whose goroutine has ended
          found,           \* the lists of the DiscoveryResult
          returned,        \* Discover has returned
          hits,            \* ghost: tasks, source maps and modules that found something
          reads            \* ghost: sitemap fetches, with their depths

poolVars    == <<todo, tasks, tasksClosed, results, resultsClosed, wpc, item, collected>>
sitemapVars == <<agenda, robotsAsked, seen, located, reads>>
vars == <<poolVars, sitemapVars, ended, found, returned, hits>>

At(locs, depth) == [i \in DOMAIN locs |-> [loc |-> locs[i], depth |-> depth]]

Init ==
    /\ todo = Tasks
    /\ tasks = [p \in Pools |-> <<>>] /\ results = [p \in Pools |-> <<>>]
    /\ tasksClosed = {} /\ resultsClosed = {}
    /\ wpc = [w \in Workers |-> "receive"]
    /\ item = [w \in Workers |-> {}]
    /\ collected = [p \in Pools |-> {}]
    /\ agenda = At(Roots, 0)
    /\ robotsAsked = FALSE
    /\ seen = {} /\ located = {} /\ reads = <<>>
    /\ ended = {} /\ found = {} /\ hits = {}
    /\ returned = FALSE

-------------------------------------------------------------------------------
(* A pool: the goroutine that sends the tasks, the workers, the goroutine   *)
(* that closes the results after wg.Wait, and the collecting loop.          *)

\* Both channels have room for every task: no send on them ever blocks.
Room(p) == Len(Tasks[p])

SendTask(p) ==
    /\ todo[p] # <<>>
    /\ Len(tasks[p]) < Room(p)
    /\ tasks' = [tasks EXCEPT ![p] = Append(@, Head(todo[p]))]
    /\ todo' = [todo EXCEPT ![p] = Tail(@)]
    /\ UNCHANGED <<tasksClosed, results, resultsClosed, wpc, item, collected, sitemapVars,
                   ended, found, returned, hits>>

\* Mutant: the task channel is never closed.
KeepTasksOpen(p) == FALSE

CloseTasks(p) ==
    /\ todo[p] = <<>>
    /\ p \notin tasksClosed
    /\ tasksClosed' = tasksClosed \cup {p}
    /\ UNCHANGED <<todo, tasks, results, resultsClosed, wpc, item, collected, sitemapVars,
                   ended, found, returned, hits>>

Receive(p, w) ==
    /\ wpc[w] = "receive"
    /\ tasks[p] # <<>>
    /\ item' = [item EXCEPT ![w] = {Head(tasks[p])}]
    /\ tasks' = [tasks EXCEPT ![p] = Tail(@)]
    /\ wpc' = [wpc EXCEPT ![w] = "fetch"]
    /\ UNCHANGED <<todo, tasksClosed, results, resultsClosed, collected, sitemapVars,
                   ended, found, returned, hits>>

\* The range loop ends when the channel is closed and drained.
ExitWorker(p, w) ==
    /\ wpc[w] = "receive"
    /\ p \in tasksClosed /\ tasks[p] = <<>>
    /\ wpc' = [wpc EXCEPT ![w] = "exited"]
    /\ UNCHANGED <<todo, tasks, tasksClosed, results, resultsClosed, item, collected,
                   sitemapVars, ended, found, returned, hits>>

\* checkPath or extractFromURL: an error or an uninteresting status is nil.
FetchTask(w) ==
    /\ wpc[w] = "fetch"
    /\ \/ /\ wpc' = [wpc EXCEPT ![w] = "send"]
          /\ hits' = hits \cup item[w]
          /\ UNCHANGED item
       \/ /\ wpc' = [wpc EXCEPT ![w] = "receive"]
          /\ item' = [item EXCEPT ![w] = {}]
          /\ UNCHANGED hits
    /\ UNCHANGED <<todo, tasks, tasksClosed, results, resultsClosed, collected,
                   sitemapVars, ended, found, returned>>

SendResult(p, w) ==
    /\ wpc[w] = "send"
    /\ Len(results[p]) < Room(p)
    /\ \E t \in item[w] : results' = [results EXCEPT ![p] = Append(@, t)]
    /\ item' = [item EXCEPT ![w] = {}]
    /\ wpc' = [wpc EXCEPT ![w] = "receive"]
    /\ UNCHANGED <<todo, tasks, tasksClosed, resultsClosed, collected, sitemapVars,
                   ended, found, returned, hits>>

\* Mutant: the results are closed when the tasks are all taken.
TasksTaken(p) == p \in tasksClosed /\ tasks[p] = <<>>

WorkersDone(p) == \A w \in Crew[p] : wpc[w] = "exited"

CloseResults(p) ==
    /\ p \notin resultsClosed
    /\ WorkersDone(p)
    /\ resultsClosed' = resultsClosed \cup {p}
    /\ UNCHANGED <<todo, tasks, tasksClosed, results, wpc, item, collected, sitemapVars,
                   ended, found, returned, hits>>

Collect(p) ==
    /\ results[p] # <<>>
    /\ collected' = [collected EXCEPT ![p] = @ \cup {Head(results[p])}]
    /\ results' = [results EXCEPT ![p] = Tail(@)]
    /\ UNCHANGED <<todo, tasks, tasksClosed, resultsClosed, wpc, item, sitemapVars,
                   ended, found, returned, hits>>

\* Mutant: the collecting loop ends with a result still in the channel.
ResultsClosed(p) == p \in resultsClosed

Drained(p) == p \in resultsClosed /\ results[p] = <<>>

EndPool(p) ==
    /\ p \notin ended
    /\ Drained(p)
    /\ ended' = ended \cup {p}
    /\ found' = found \cup YieldOf(collected[p])
    /\ UNCHANGED <<poolVars, sitemapVars, returned, hits>>

-------------------------------------------------------------------------------
(* SitemapParser.Discover: parseSitemap, with the recursion as an agenda of *)
(* calls, the calls for an index's entries before those that follow it.     *)

ToRead(call) == call.depth <= MaxDepth /\ call.loc \notin seen

SkipSitemap ==
    /\ agenda # <<>>
    /\ ~ToRead(Head(agenda))
    /\ agenda' = Tail(agenda)
    /\ UNCHANGED <<poolVars, robotsAsked, seen, located, reads, ended, found, returned, hits>>

ReadSitemap ==
    /\ agenda # <<>>
    /\ ToRead(Head(agenda))
    /\ LET call == Head(agenda)
       IN  /\ seen' = seen \cup {call.loc}
           /\ reads' = Append(reads, call)
           /\ \/ agenda' = Tail(agenda) /\ UNCHANGED located   \* not served
              \/ /\ agenda' = At(Index[call.loc], call.depth + 1) \o Tail(agenda)
                 /\ located' = IF Index[call.loc] = <<>>
                               THEN located \cup Yield[call.loc] ELSE located
    /\ UNCHANGED <<poolVars, robotsAsked, ended, found, returned, hits>>

\* After the common locations come the sitemaps that robots.txt names.
AskRobots ==
    /\ agenda = <<>> /\ ~robotsAsked
    /\ robotsAsked' = TRUE
    /\ \/ agenda' = At(RobotsMaps, 0)
       \/ UNCHANGED agenda                                     \* not served
    /\ UNCHANGED <<poolVars, seen, located, reads, ended, found, returned, hits>>

EndSitemap ==
    /\ "sitemap" \notin ended
    /\ agenda = <<>> /\ robotsAsked
    /\ ended' = ended \cup {"sitemap"}
    /\ found' = found \cup located
    /\ UNCHANGED <<poolVars, sitemapVars, returned, hits>>

-------------------------------------------------------------------------------
(* The modules that work alone, and Discover's wait for all.                *)

\* The goroutine of m ends, having found what xs give.
End(m, xs) ==
    /\ m \in Alone \ ended
    /\ ended' = ended \cup {m}
    /\ found' = found \cup YieldOf(xs)
    /\ hits' = hits \cup xs
    /\ UNCHANGED <<poolVars, sitemapVars, returned>>

\* robots.txt may not be served.
ParseRobots == End("robots", {"robots"}) \/ End("robots", {})

\* Each source map exists and parses, or not.
ParseSourceMaps == \E ok \in SUBSET Maps : End("sourceMap", ok)

\* No request: the page is at hand.
ReadPage == \E m \in {"fingerprint", "paramDiscov"} : End(m, {m})

AllDone == ended = Modules

Return ==
    /\ ~returned
    /\ AllDone
    /\ returned' = TRUE
    /\ UNCHANGED <<poolVars, sitemapVars, ended, found, hits>>

-------------------------------------------------------------------------------
Work(p, w) == Receive(p, w) \/ ExitWorker(p, w) \/ FetchTask(w) \/ SendResult(p, w)

Feed(p)  == SendTask(p) \/ CloseTasks(p)

Gather(p) == Collect(p) \/ EndPool(p)

WalkSitemaps == SkipSitemap \/ ReadSitemap \/ AskRobots \/ EndSitemap

WorkAlone == ParseRobots \/ ParseSourceMaps \/ ReadPage

Next ==
    \/ \E p \in Pools : \/ Feed(p) \/ CloseResults(p) \/ Gather(p)
                        \/ \E w \in Crew[p] : Work(p, w)
    \/ WalkSitemaps \/ WorkAlone \/ Return

\* Every goroutine keeps being scheduled and every request ends (the clients
\* have timeouts).
Fairness ==
    /\ \A p \in Pools : WF_vars(Feed(p)) /\ WF_vars(CloseResults(p)) /\ WF_vars(Gather(p))
    /\ \A p \in Pools : \A w \in Crew[p] : WF_vars(Work(p, w))
    /\ WF_vars(WalkSitemaps) /\ WF_vars(Return)
    /\ WF_vars(ParseRobots) /\ WF_vars(ParseSourceMaps) /\ WF_vars(ReadPage)

Spec == Init /\ [][Next]_vars /\ Fairness

-------------------------------------------------------------------------------
(* Properties.                                                              *)

Calls == [loc : Sitemaps, depth : 0 .. MaxDepth + 1]

TypeOK ==
    /\ todo \in [Pools -> Seq(Tasked)] /\ tasks \in [Pools -> Seq(Tasked)]
    /\ results \in [Pools -> Seq(Tasked)] /\ collected \in [Pools -> SUBSET Tasked]
    /\ \A p \in Pools : Len(tasks[p]) <= Room(p) /\ Len(results[p]) <= Room(p)
    /\ tasksClosed \subseteq Pools /\ resultsClosed \subseteq Pools
    /\ wpc \in [Workers -> {"receive", "fetch", "send", "exited"}]
    /\ item \in [Workers -> SUBSET Tasked]
    /\ agenda \in Seq(Calls)
    /\ reads \in Seq(Calls) /\ seen \subseteq Sitemaps
    /\ located \subseteq YieldOf(Sitemaps)
    /\ found \subseteq YieldOf(Finders \cup Sitemaps)
    /\ ended \subseteq Modules /\ hits \subseteq Finders
    /\ {robotsAsked, returned} \subseteq BOOLEAN

\* No worker sends on a result channel that has been closed (a panic in Go).
NoSendOnClosed ==
    \A p \in resultsClosed : \A w \in Crew[p] : wpc[w] # "send"

\* What Discover returns is all that its modules found: no path, script,
\* source map, sitemap or robots entry gets lost between a worker and the
\* result, and nothing else is added.
ReturnsAllFound ==
    returned => found = YieldOf(hits) \cup located

\* Sitemap indexes that refer to each other are each read once, and none
\* beyond maxDepth indexes from a root.
SitemapsReadOnce ==
    /\ \A i, j \in DOMAIN reads : reads[i].loc = reads[j].loc => i = j
    /\ \A i \in DOMAIN reads : reads[i].depth <= MaxDepth

\* Discover returns: no goroutine waits forever on a channel.
DiscoverReturns == <>returned
===============================================================================
