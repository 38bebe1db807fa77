-------------------------------- MODULE Crawler --------------------------------
(***************************************************************************)
(* pkg/crawler/crawler.go: the crawl itself.  Workers take batches of URLs *)
(* from the shared queue, skip what is out of scope or visited, fetch the  *)
(* rest and push the links they find; one background goroutine pushes what *)
(* enhanced discovery finds on the start page; the context may be          *)
(* cancelled at any moment.                                                *)
(*                                                                         *)
(* The queue is used through the contract of URLQueue, which FastQueue     *)
(* implements: an accepted URL lands later, and a pop may miss what had not *)
(* landed when it began.  The order in which URLs are served is left open. *)
(* A page is abstracted to the links a fetch of it yields; a fetch may     *)
(* fail, or never return.                                                  *)
(***************************************************************************)
EXTENDS Integers, FiniteSets

CONSTANTS Workers,     \* worker goroutines: min(Workers, Browser.PoolSize)
          Scout,       \* the goroutine of runEnhancedDiscoveryOnPage
          URLs,        \* URL strings
          Target,      \* the start URL
          Sitemap,     \* URLs that quick discovery finds before the crawl
          Links,       \* Links[u]: links and routes on page u
          Dynamic,     \* Dynamic[u]: dynamic-content and shadow-DOM links on u
          Extra,       \* URLs that enhanced discovery finds on the start page
          Norm,        \* Norm[u]: the normalized form of u
          UIState,     \* URLs whose fragment is UI state
          Allowed,     \* URLs whose domain and patterns are in scope
          MaxDepth,    \* depth limit of the scope; 0 is no limit
          Capacity,    \* of the queue, 100000 in the code; 0 is no limit
          BatchSize,   \* 5 in the code
          MaxEmpty     \* maxEmptyChecks, 15 in the code

ASSUME CrawlerConstants ==
    /\ Workers # {} /\ Scout \notin Workers   \* Validate rejects 0 of either
    /\ Target \in URLs
    /\ Sitemap \subseteq URLs /\ IsFiniteSet(Sitemap)
    /\ Extra \subseteq URLs
    /\ UIState \subseteq URLs /\ Allowed \subseteq URLs
    /\ Links \in [URLs -> SUBSET URLs]
    /\ Dynamic \in [URLs -> SUBSET URLs]
    /\ Norm \in [URLs -> URLs]
    /\ MaxDepth \in Nat
    /\ Capacity \in Nat
    /\ BatchSize \in Nat \ {0} /\ MaxEmpty \in Nat \ {0}

VARIABLES queued, coming, taken, room, due, \* the queue, as in URLQueue
          depth,         \* depth[u] of the pending item for u, 0 if there is none
          len,           \* the queue's totalLen, which IsEmpty reads
          visited,       \* the deduplicator's exact set
          cancelled,     \* c.ctx is done
          pc,            \* where each goroutine is
          hold,          \* hold[w]: items of w's batch still to process
          empties,       \* emptyCount
          cur,           \* cur[w]: the item w is processing
          checked,       \* checked[a]: found items to push if not visited
          found,         \* found[a]: items for one PushBatch
          out, added,    \* out[a]: rest of the batch being pushed; added so far
          crawls,        \* ghost: crawls[w], URLs that w has marked visited
          raced,         \* ghost: raced[w], URLs that others have marked since w
                         \* asked whether its URL is visited
          dropped,       \* ghost: URLs that a full queue dropped
          expanded       \* ghost: items whose links were pushed

popVars   == <<taken, room, due>>
queueVars == <<queued, coming, popVars, depth, len>>
pushVars  == <<checked, found, out, added>>
ghosts    == <<crawls, raced, dropped, expanded>>
vars == <<queueVars, pushVars, ghosts, visited, cancelled, pc, hold, empties, cur>>

Actors == Workers \cup {Scout}
Item(u, d) == [url |-> u, depth |-> d]
Depths == IF MaxDepth = 0 THEN Nat ELSE 0 .. MaxDepth
Items  == [url : URLs, depth : Depths]
Labels == {"off", "next", "scan", "release", "empty", "limit", "fetch",
           "links", "push", "reserve", "flush", "done"}

Q == INSTANCE URLQueue WITH Procs <- Actors, MaxBatch <- BatchSize

\* Mutant: the depth of a link is not looked at.
AnyDepth(u, d) == u \in Allowed

InScope(u, d) == u \in Allowed /\ (MaxDepth = 0 \/ d <= MaxDepth)

\* The items for links found at depth d - 1: those in scope at depth d.
ItemsAt(us, d) == {Item(u, d) : u \in {v \in us : InScope(v, d)}}

Goto(a, label) == pc' = [pc EXCEPT ![a] = label]

Full(n) == Capacity > 0 /\ n >= Capacity

\* Quick discovery pushes the sitemap's URLs at depth 1, then the target is
\* pushed at depth 0: a target that the sitemap names is a duplicate by then,
\* and what does not fit is dropped.
Init ==
    /\ \E us \in SUBSET {u \in Sitemap : InScope(u, 1)} :
        /\ \/ Full(Cardinality(us)) /\ Cardinality(us) = Capacity
           \/ ~Full(Cardinality(us)) /\ us = {u \in Sitemap : InScope(u, 1)}
        /\ queued = IF Full(Cardinality(us)) THEN us ELSE us \cup {Target}
        /\ depth = [u \in URLs |-> IF u \in us THEN 1 ELSE 0]
    /\ len = Cardinality(queued)
    /\ dropped = ({u \in Sitemap : InScope(u, 1)} \cup {Target}) \ queued
    /\ coming = [a \in Actors |-> {}]
    /\ taken = [a \in Actors |-> {}]
    /\ room = [a \in Actors |-> 0]
    /\ due = [a \in Actors |-> {}]
    /\ visited = {} /\ cancelled = FALSE
    /\ pc = [a \in Actors |-> IF a = Scout THEN "off" ELSE "next"]
    /\ hold = [w \in Workers |-> {}]
    /\ empties = [w \in Workers |-> 0]
    /\ cur = [w \in Workers |-> Item(Target, 0)]
    /\ checked = [a \in Actors |-> {}]
    /\ found = [a \in Actors |-> {}]
    /\ out = [a \in Actors |-> {}]
    /\ added = [a \in Actors |-> 0]
    /\ crawls = [w \in Workers |-> {}]
    /\ raced = [w \in Workers |-> {}]
    /\ expanded = {}

-------------------------------------------------------------------------------
(* worker: PopBatch and the wait for work.                                  *)

\* With its batch done, a worker looks at the context and starts a PopBatch.
Poll(w) ==
    /\ pc[w] = "next"
    /\ hold[w] = {}
    /\ IF cancelled
       THEN Goto(w, "done") /\ UNCHANGED queueVars
       ELSE Goto(w, "scan") /\ Q!BeginPop(w, BatchSize) /\ UNCHANGED <<depth, len>>
    /\ UNCHANGED <<pushVars, ghosts, visited, cancelled, hold, empties, cur>>

\* PopBatch removes items from one shard, while its batch has room.
Take(w, us) ==
    /\ pc[w] = "scan"
    /\ Q!Take(w, us)
    /\ hold' = [hold EXCEPT ![w] = @ \cup {Item(u, depth[u]) : u \in us}]
    /\ depth' = [u \in URLs |-> IF u \in us THEN 0 ELSE depth[u]]
    /\ UNCHANGED <<pushVars, ghosts, len, visited, cancelled, pc, empties, cur>>

\* PopBatch has a full batch, or has looked at every shard.
EndScan(w) ==
    /\ pc[w] = "scan"
    /\ \/ room[w] = 0 /\ UNCHANGED <<queued, coming, popVars>>
       \/ Q!EndShort(w)
    /\ Goto(w, IF hold[w] = {} THEN "empty" ELSE "release")
    /\ UNCHANGED <<pushVars, ghosts, depth, len, visited, cancelled, hold, empties, cur>>

Release(w, u) ==
    /\ pc[w] = "release"
    /\ Q!Release(w, u)
    /\ UNCHANGED <<pushVars, ghosts, depth, len, visited, cancelled, pc, hold, empties, cur>>

\* PopBatch lowers the length and returns; the worker got work.
EndPop(w) ==
    /\ pc[w] = "release"
    /\ taken[w] = {}
    /\ len' = len - Cardinality(hold[w])
    /\ empties' = [empties EXCEPT ![w] = 0]
    /\ Goto(w, "next")
    /\ UNCHANGED <<pushVars, ghosts, queued, coming, popVars, depth, visited, cancelled, hold, cur>>


\* ErrQueueEmpty: IsEmpty is asked again; a worker that finds the queue empty
\* maxEmptyChecks times in a row exits.
CheckEmpty(w) ==
    /\ pc[w] = "empty"
    /\ LET n == IF len = 0 THEN empties[w] + 1 ELSE empties[w]
       IN  /\ empties' = [empties EXCEPT ![w] = n]
           /\ Goto(w, IF n >= MaxEmpty THEN "done" ELSE "next")
    /\ UNCHANGED <<queueVars, pushVars, ghosts, visited, cancelled, hold, cur>>

-------------------------------------------------------------------------------
(* worker: one item of the batch.                                           *)

\* Before each item the context is looked at: the rest of the batch is lost.
Abandon(w) ==
    /\ pc[w] = "next"
    /\ cancelled /\ hold[w] # {}
    /\ hold' = [hold EXCEPT ![w] = {}]
    /\ Goto(w, "done")
    /\ UNCHANGED <<queueVars, pushVars, ghosts, visited, cancelled, empties, cur>>

\* Mutant: a URL already visited ends the worker ("return" for "continue").
ReturnOnVisited(w) ==
    /\ pc[w] = "next"
    /\ ~cancelled
    /\ \E i \in hold[w] :
        /\ hold' = [hold EXCEPT ![w] = @ \ {i}]
        /\ IF InScope(i.url, i.depth) /\ i.url \notin visited
           THEN cur' = [cur EXCEPT ![w] = i] /\ Goto(w, "limit")
           ELSE UNCHANGED cur /\ Goto(w, "done")
    /\ UNCHANGED <<queueVars, pushVars, ghosts, visited, cancelled, empties>>

\* The scope and HasVisited checks; HasVisited is asked for the raw URL.
Consider(w) ==
    /\ pc[w] = "next"
    /\ ~cancelled
    /\ \E i \in hold[w] :
        /\ hold' = [hold EXCEPT ![w] = @ \ {i}]
        /\ IF InScope(i.url, i.depth) /\ i.url \notin visited
           THEN cur' = [cur EXCEPT ![w] = i] /\ Goto(w, "limit")
           ELSE UNCHANGED <<cur, pc>>
    /\ UNCHANGED <<queueVars, pushVars, ghosts, visited, cancelled, empties>>

\* WaitDomain fails once the context is done, and the item is dropped.
LimiterFails(w) ==
    /\ pc[w] = "limit"
    /\ cancelled
    /\ Goto(w, "next")
    /\ UNCHANGED <<queueVars, pushVars, ghosts, visited, cancelled, hold, empties, cur>>

\* w has marked us: workers that have asked about their URLs did so before.
Marked(w, us) ==
    /\ crawls' = [crawls EXCEPT ![w] = @ \cup us]
    /\ raced' = [v \in Workers |-> IF v = w THEN {}
                                   ELSE IF pc[v] = "limit" THEN raced[v] \cup us ELSE raced[v]]

\* Mutant: MarkVisited is left for a later, successful fetch.
MarkLater(w) ==
    /\ pc[w] = "limit"
    /\ Goto(w, "fetch")
    /\ Marked(w, {cur[w].url})
    /\ UNCHANGED <<queueVars, pushVars, dropped, expanded, visited, cancelled, hold, empties, cur>>

\* processURL up to MarkVisited, which is given the normalized URL.
Mark(w) ==
    /\ pc[w] = "limit"
    /\ IF cur[w].url \in UIState
       THEN /\ Goto(w, "next")
            /\ Marked(w, {})
            /\ UNCHANGED visited
       ELSE /\ Goto(w, "fetch")
            /\ visited' = visited \cup {Norm[cur[w].url]}
            /\ Marked(w, {cur[w].url})
    /\ UNCHANGED <<queueVars, pushVars, dropped, expanded, cancelled, hold, empties, cur>>

\* The fetch fails, or the page is an auth page or a duplicate: no links.
FetchNothing(w) ==
    /\ pc[w] = "fetch"
    /\ Goto(w, "next")
    /\ UNCHANGED <<queueVars, pushVars, ghosts, visited, cancelled, hold, empties, cur>>

\* The fetch succeeds; a page at depth 0 starts the background discovery.
FetchPage(w) ==
    /\ pc[w] = "fetch"
    /\ LET i      == cur[w]
           scouts == i.depth = 0 /\ pc[Scout] = "off"
       IN  /\ found' = [found EXCEPT ![w] = ItemsAt(Links[i.url], i.depth + 1)]
           /\ checked' = [a \in Actors |->
                 IF a = w THEN ItemsAt(Dynamic[i.url], i.depth + 1)
                 ELSE IF a = Scout /\ scouts THEN ItemsAt(Extra, 2)
                 ELSE checked[a]]
           /\ pc' = [a \in Actors |->
                 IF a = w \/ (a = Scout /\ scouts) THEN "links" ELSE pc[a]]
           /\ expanded' = expanded \cup {i}
    /\ UNCHANGED <<queueVars, out, added, crawls, raced, dropped, visited, cancelled, hold, empties, cur>>

-------------------------------------------------------------------------------
(* Pushing what a page yields: the items that HasVisited is asked about one *)
(* by one, then the HTML links and framework routes as one batch.           *)

PushChecked(a) ==
    /\ pc[a] = "links"
    /\ \E i \in checked[a] :
        /\ checked' = [checked EXCEPT ![a] = @ \ {i}]
        /\ IF i.url \in visited
           THEN UNCHANGED <<out, pc>>
           ELSE out' = [out EXCEPT ![a] = {i}] /\ Goto(a, "push")
    /\ UNCHANGED <<queueVars, ghosts, found, added, visited, cancelled, hold, empties, cur>>

PushFound(a) ==
    /\ pc[a] = "links"
    /\ checked[a] = {} /\ found[a] # {}
    /\ out' = [out EXCEPT ![a] = found[a]]
    /\ found' = [found EXCEPT ![a] = {}]
    /\ Goto(a, "push")
    /\ UNCHANGED <<queueVars, ghosts, checked, added, visited, cancelled, hold, empties, cur>>

\* Mutant: returns after the items that HasVisited is asked about.
EndLinksEarly(a) ==
    /\ pc[a] = "links"
    /\ checked[a] = {}
    /\ Goto(a, IF a = Scout THEN "done" ELSE "next")
    /\ UNCHANGED <<queueVars, pushVars, ghosts, visited, cancelled, hold, empties, cur>>

EndLinks(a) ==
    /\ pc[a] = "links"
    /\ checked[a] = {} /\ found[a] = {}
    /\ Goto(a, IF a = Scout THEN "done" ELSE "next")
    /\ UNCHANGED <<queueVars, pushVars, ghosts, visited, cancelled, hold, empties, cur>>

\* Before each item the length is compared with the capacity; once it is
\* reached, this item and the rest of the batch are dropped without an error.
CheckCapacity(a) ==
    /\ pc[a] = "push"
    /\ IF out[a] # {} /\ ~Full(len + added[a])
       THEN Goto(a, "reserve") /\ UNCHANGED <<out, dropped>>
       ELSE /\ Goto(a, "flush")
            /\ out' = [out EXCEPT ![a] = {}]
            /\ dropped' = dropped \cup {i.url : i \in out[a]}
    /\ UNCHANGED <<queueVars, crawls, raced, expanded, checked, found, added, visited, cancelled,
                   hold, empties, cur>>

\* The URL is reserved, to land later, unless it is pending or being taken.
Accept(a, i) ==
    /\ pc[a] = "reserve"
    /\ i \in out[a]
    /\ Q!Accept(a, i.url)
    /\ depth' = [depth EXCEPT ![i.url] = i.depth]
    /\ out' = [out EXCEPT ![a] = @ \ {i}]
    /\ added' = [added EXCEPT ![a] = @ + 1]
    /\ Goto(a, "push")
    /\ UNCHANGED <<ghosts, len, checked, found, visited, cancelled, hold, empties, cur>>

\* A pending URL is dropped without an error.
Duplicate(a, i) ==
    /\ pc[a] = "reserve"
    /\ i \in out[a]
    /\ i.url \in queued \cup Q!Coming \cup Q!Taken
    /\ out' = [out EXCEPT ![a] = @ \ {i}]
    /\ Goto(a, "push")
    /\ UNCHANGED <<queueVars, ghosts, checked, found, added, visited, cancelled, hold, empties, cur>>

\* What goes into one shard lands; any pop in progress may have passed it.
Land(a, us) ==
    /\ pc[a] = "flush"
    /\ Q!Land(a, us, {})
    /\ UNCHANGED <<pushVars, ghosts, depth, len, visited, cancelled, pc, hold, empties, cur>>

\* totalLen.Add(added): only now does IsEmpty see what was pushed.
EndPush(a) ==
    /\ pc[a] = "flush"
    /\ coming[a] = {}
    /\ len' = len + added[a]
    /\ added' = [added EXCEPT ![a] = 0]
    /\ Goto(a, "links")
    /\ UNCHANGED <<ghosts, queued, coming, popVars, depth, checked, found, out, visited, cancelled,
                   hold, empties, cur>>

-------------------------------------------------------------------------------
(* The context is cancelled, by the signal handler or by a shutdown.        *)

Interrupt ==
    /\ ~cancelled
    /\ cancelled' = TRUE
    /\ UNCHANGED <<queueVars, pushVars, ghosts, visited, pc, hold, empties, cur>>

-------------------------------------------------------------------------------
Work(w) ==
    \/ Poll(w) \/ EndScan(w) \/ EndPop(w) \/ CheckEmpty(w)
    \/ \E us \in SUBSET queued : Take(w, us)
    \/ \E u \in taken[w] : Release(w, u)
    \/ Abandon(w) \/ Consider(w) \/ LimiterFails(w) \/ Mark(w)

Fetch(w) == FetchNothing(w) \/ FetchPage(w)

Pushing(a) ==
    \/ PushChecked(a) \/ PushFound(a) \/ EndLinks(a) \/ CheckCapacity(a) \/ EndPush(a)
    \/ \E i \in out[a] : Accept(a, i) \/ Duplicate(a, i)
    \/ \E us \in SUBSET coming[a] : Land(a, us)

Next ==
    \/ \E w \in Workers : Work(w) \/ Fetch(w)
    \/ \E a \in Actors : Pushing(a)
    \/ Interrupt

\* Every goroutine keeps being scheduled.  A browser visit has no time limit, so
\* a fetch may never return, until the context that it runs in is cancelled.
Fairness == /\ \A w \in Workers : WF_vars(Work(w)) /\ WF_vars(cancelled /\ Fetch(w))
            /\ \A a \in Actors : WF_vars(Pushing(a))

Spec == Init /\ [][Next]_vars /\ Fairness

-------------------------------------------------------------------------------
(* Properties.                                                              *)

TypeOK ==
    /\ Q!TypeOK
    /\ depth \in [URLs -> Depths]
    /\ len \in Int
    /\ visited \subseteq URLs
    /\ cancelled \in BOOLEAN
    /\ pc \in [Actors -> Labels]
    /\ hold \in [Workers -> SUBSET Items]
    /\ empties \in [Workers -> 0 .. MaxEmpty]
    /\ cur \in [Workers -> Items]
    /\ checked \in [Actors -> SUBSET Items]
    /\ found \in [Actors -> SUBSET Items]
    /\ out \in [Actors -> SUBSET Items]
    /\ added \in [Actors -> Nat]
    /\ crawls \in [Workers -> SUBSET URLs]
    /\ raced \in [Workers -> SUBSET URLs]
    /\ dropped \subseteq URLs
    /\ expanded \subseteq Items

WorkersDone == \A w \in Workers : pc[w] = "done"

\* A worker exits after finding the queue empty for a while, though others may
\* have reserved URLs that have not landed, or landed URLs that its last pop
\* had passed and that the length does not count yet.  Unless interrupted, the
\* exits leave nothing behind but what the background discovery pushes after
\* the last worker has gone.
NothingLeftBehind ==
    WorkersDone /\ ~cancelled => queued \cup Q!Coming \subseteq Extra

\* An uninterrupted crawl has marked every in-scope link of every page whose
\* links it read, in spite of the deduplication in the queue and of the
\* HasVisited checks that race with other workers' pushes; all but those that
\* a queue at its capacity dropped, and what was left in the queue.
CrawlComplete ==
    WorkersDone /\ ~cancelled =>
        \A i \in expanded : \A u \in Links[i.url] \cup Dynamic[i.url] :
            \/ ~InScope(u, i.depth + 1)
            \/ u \in UIState
            \/ {u, Norm[u]} \cap visited # {}
            \/ u \in queued \cup Q!Coming
            \/ u \in dropped

\* HasVisited and MarkVisited are separate, so two workers may crawl the same
\* page; but only if neither had marked it when the other asked.  A page whose
\* URL is its own normal form is never crawled twice by one worker, and by a
\* second one only in that race.
RepeatedInRaceOnly ==
    \A w \in Workers :
        LET u == cur[w].url
        IN  pc[w] = "limit" /\ Norm[u] = u =>
                /\ u \notin crawls[w]
                /\ \A v \in Workers : u \in crawls[v] => u \in raced[w]

===============================================================================
