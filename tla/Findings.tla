-------------------------------- MODULE Findings --------------------------------
(***************************************************************************)
(* What a crawl reports: pkg/crawler/crawler.go from the probes of Start   *)
(* to its return, with internal/discovery/active.go and passive.go and the *)
(* content hashes of internal/state.  Probes run behind a semaphore;       *)
(* workers turn fetched pages into endpoints, forms and errors, each added *)
(* and counted under the crawler's mutex; one background goroutine adds    *)
(* what it discovers, before or after the end.                             *)
(*                                                                         *)
(* Which pages are crawled is the subject of Crawler: here they are a set, *)
(* and each has the findings that a fetch of it yields.                    *)
(***************************************************************************)
EXTENDS Integers, FiniteSets, Counting

CONSTANTS Workers,
          Pages, Root,    \* the pages crawled, the one at depth 0
          Hash,           \* Hash[p]: ContentHash, or NoHash
          NoHash,
          Paths,          \* CommonAPIPaths on the target
          MaxProbes,      \* capacity of sem, 10 in the code
          GraphQL,        \* the endpoint of ProbeGraphQL
          Quick,          \* API endpoints of DiscoverQuick
          Late,           \* API endpoints of Discover on the root page
          Requests,       \* Requests[p]: endpoint keys of p's API requests
          Ajax,           \* Ajax[p]: its AJAX endpoints and forms
          Parsed,         \* Parsed[p]: endpoints of its scripts, and its forms
          Forms           \* those findings that are forms

Keys      == UNION {Requests[p] : p \in Pages}
PageFinds == UNION {Ajax[p] \cup Parsed[p] : p \in Pages}
Endpoints == Paths \cup {GraphQL} \cup Quick \cup Late \cup Keys \cup (PageFinds \ Forms)
Items     == Endpoints \cup Forms \cup Pages       \* a page stands for its error

ASSUME FindingsConstants ==
    /\ Workers \cap {"main", "scout"} = {}
    /\ IsFiniteSet(Items) /\ MaxProbes \in Nat \ {0} /\ Root \in Pages
    /\ Forms \subseteq PageFinds /\ Forms \cap Endpoints = {}
    /\ Pages \cap (Endpoints \cup Forms) = {}
    \* An endpoint has a source, so those of different sources differ.
    /\ Paths \cap ({GraphQL} \cup Quick \cup Late \cup Keys \cup PageFinds) = {}
    /\ Keys \cap ({GraphQL} \cup Quick \cup Late \cup PageFinds) = {}

VARIABLES main,        \* where Start is
          probe,       \* probe[x]: where the goroutine of path x is
          sem,         \* tokens in the semaphore
          active,      \* paths in ActiveDiscovery.endpoints
          discovered,  \* paths in Probe's slice
          passive,     \* keys of PassiveDiscovery.endpoints
          cancelled,   \* the context is cancelled
          todo,        \* pages that no worker has taken
          pc, page,    \* where each worker is, with which page
          hashed,      \* pages whose content hash is stored
          scout,       \* the background discovery: "no", "runs", "adds"
          work,        \* work[a]: findings that a is about to add
          listed,      \* listed[f]: how often results contains f
          stats,       \* counters of the state manager
          counted,     \* results.Stats
          written,     \* listed as the output writer got it
          expanded,    \* ghost: pages whose findings are reported
          skipped      \* ghost: pages skipped as duplicates

probing == <<probe, sem, active, discovered>>
crawled == <<todo, page, hashed, expanded, skipped>>
output  == <<counted, written>>
vars == <<main, probing, passive, cancelled, crawled, pc, scout, work, listed, stats, output>>

Adders == Workers \cup {"main", "scout"}
Kinds  == {"endpoint", "form", "error"}
KindOf(f) == CASE f \in Endpoints -> "endpoint" [] f \in Forms -> "form" [] f \in Pages -> "error"

Init ==
    /\ main = "probe"
    /\ probe = [x \in Paths |-> "waits"] /\ sem = 0 /\ active = {} /\ discovered = {}
    /\ passive = {} /\ cancelled = FALSE
    /\ todo = Pages /\ pc = [w \in Workers |-> "idle"] /\ page = [w \in Workers |-> Root]
    /\ hashed = {} /\ expanded = {} /\ skipped = {}
    /\ scout = "no" /\ work = [a \in Adders |-> {}]
    /\ listed = [f \in Items |-> 0] /\ stats = [k \in Kinds |-> 0]
    /\ counted = [k \in Kinds |-> 0] /\ written = [f \in Items |-> 0]

Cancel ==
    /\ ~cancelled /\ cancelled' = TRUE
    /\ UNCHANGED <<main, probing, passive, crawled, pc, scout, work, listed, stats, output>>

-------------------------------------------------------------------------------
(* addEndpoint, addForm and addError: append and count under one lock.      *)

\* Mutant: a finding that is listed already is counted and not appended.
AddNew(f) ==
    /\ listed' = [listed EXCEPT ![f] = 1]
    /\ stats' = [stats EXCEPT ![KindOf(f)] = @ + 1]

Add(f) ==
    /\ listed' = [listed EXCEPT ![f] = @ + 1]
    /\ stats' = [stats EXCEPT ![KindOf(f)] = @ + 1]

AddNext(a) ==
    \E f \in work[a] :
        /\ Add(f)
        /\ work' = [work EXCEPT ![a] = @ \ {f}]
        /\ UNCHANGED <<main, probing, passive, cancelled, crawled, pc, scout, output>>

-------------------------------------------------------------------------------
(* Probe: a goroutine for each path, at most MaxProbes of them in a request.*)

ProbesOnly == UNCHANGED <<main, passive, cancelled, crawled, pc, scout, work, listed, stats, output>>

StartProbe(x) ==
    /\ probe[x] = "waits" /\ sem < MaxProbes
    /\ probe' = [probe EXCEPT ![x] = "asks"] /\ sem' = sem + 1
    /\ UNCHANGED <<active, discovered>> /\ ProbesOnly

\* The other case of the select.
LeaveProbe(x) ==
    /\ probe[x] = "waits" /\ cancelled
    /\ probe' = [probe EXCEPT ![x] = "ended"]
    /\ UNCHANGED <<sem, active, discovered>> /\ ProbesOnly

\* probeURL: the endpoint is kept if the response says that it exists.
ProbeURL(x) ==
    /\ probe[x] = "asks"
    /\ \/ active' = active \cup {x} /\ probe' = [probe EXCEPT ![x] = "found"]
       \/ UNCHANGED active /\ probe' = [probe EXCEPT ![x] = "leaves"]
    /\ UNCHANGED <<sem, discovered>> /\ ProbesOnly

AppendDiscovered(x) ==
    /\ probe[x] = "found"
    /\ discovered' = discovered \cup {x}
    /\ probe' = [probe EXCEPT ![x] = "leaves"]
    /\ UNCHANGED <<sem, active>> /\ ProbesOnly

\* Mutant: the token is given back only if the path was discovered.
KeepToken(x) ==
    /\ probe[x] = "leaves"
    /\ sem' = IF x \in discovered THEN sem - 1 ELSE sem
    /\ probe' = [probe EXCEPT ![x] = "ended"]
    /\ UNCHANGED <<active, discovered>> /\ ProbesOnly

\* The deferred receive from the semaphore and wg.Done.
EndProbe(x) ==
    /\ probe[x] = "leaves"
    /\ sem' = sem - 1
    /\ probe' = [probe EXCEPT ![x] = "ended"]
    /\ UNCHANGED <<active, discovered>> /\ ProbesOnly

-------------------------------------------------------------------------------
(* Start up to the workers.                                                 *)

MainMoves(from, to, fs) ==
    /\ main = from /\ work["main"] = {}
    /\ main' = to /\ work' = [work EXCEPT !["main"] = fs]
    /\ UNCHANGED <<probing, passive, cancelled, crawled, pc, scout, listed, stats, output>>

EndOfProbe ==
    /\ \A x \in Paths : probe[x] = "ended"
    /\ MainMoves("probe", "graphql", discovered)

ProbeGraphQL ==
    \/ MainMoves("graphql", "quick", {GraphQL})
    \/ MainMoves("graphql", "quick", {})

RunEnhancedDiscovery == MainMoves("quick", "crawl", Quick)

StartWorkers ==
    /\ MainMoves("crawl", "wait", {})

-------------------------------------------------------------------------------
(* A worker and one page: processURL.                                       *)

Goes(w, from, to, fs) ==
    /\ pc[w] = from /\ work[w] = {}
    /\ pc' = [pc EXCEPT ![w] = to]
    /\ work' = [work EXCEPT ![w] = fs]
    /\ UNCHANGED <<main, probing, cancelled, listed, stats, output>>

TakePage(w) ==
    /\ main = "wait" /\ ~cancelled
    /\ \E p \in todo : todo' = todo \ {p} /\ page' = [page EXCEPT ![w] = p]
    /\ Goes(w, "idle", "fetch", {})
    /\ UNCHANGED <<passive, hashed, expanded, skipped, scout>>

WorkerEnds(w) ==
    /\ main = "wait" /\ (cancelled \/ todo = {})
    /\ Goes(w, "idle", "ended", {})
    /\ UNCHANGED <<passive, crawled, scout>>

\* The visit fails, or ends on a login page: nothing but an error is reported.
FetchFails(w) ==
    /\ \E es \in {{page[w]}, {}} : Goes(w, "fetch", "idle", es)
    /\ UNCHANGED <<passive, crawled, scout>>

\* Mutant: the hash is stored where it is computed.
FetchAndStore(w) ==
    /\ \E es \in {{page[w]}, {}} : Goes(w, "fetch", "compare", es)
    /\ hashed' = hashed \cup {page[w]}
    /\ UNCHANGED <<passive, todo, page, expanded, skipped, scout>>

\* A soft 404 is reported as an error and processed like any page.
FetchPage(w) ==
    /\ \E es \in {{page[w]}, {}} : Goes(w, "fetch", "compare", es)
    /\ UNCHANGED <<passive, crawled, scout>>

SameContent(p, q) == p # q /\ Hash[p] = Hash[q] /\ Hash[p] # NoHash

HasDuplicateContent(w) ==
    /\ IF \E q \in hashed : SameContent(page[w], q)
       THEN Goes(w, "compare", "idle", {}) /\ skipped' = skipped \cup {page[w]}
       ELSE Goes(w, "compare", "store", {}) /\ UNCHANGED skipped
    /\ UNCHANGED <<passive, todo, page, hashed, expanded, scout>>

SetContentHash(w) ==
    /\ Goes(w, "store", "requests", {})
    /\ hashed' = IF Hash[page[w]] = NoHash THEN hashed ELSE hashed \cup {page[w]}
    /\ expanded' = expanded \cup {page[w]}
    /\ UNCHANGED <<passive, todo, page, skipped, scout>>

\* Mutant: what other pages' requests gave is not looked up.
ReportAll(w) ==
    /\ Goes(w, "requests", "ajax", Requests[page[w]])
    /\ passive' = passive \cup Requests[page[w]]
    /\ UNCHANGED <<crawled, scout>>

\* New keys only, under the lock of PassiveDiscovery.
ProcessRequests(w) ==
    /\ Goes(w, "requests", "ajax", Requests[page[w]] \ passive)
    /\ passive' = passive \cup Requests[page[w]]
    /\ UNCHANGED <<crawled, scout>>

ProcessAJAX(w) ==
    /\ Goes(w, "ajax", "scout", Ajax[page[w]])
    /\ UNCHANGED <<passive, crawled, scout>>

\* go runEnhancedDiscoveryOnPage, then processHTML and processForms.
ProcessHTML(w) ==
    /\ Goes(w, "scout", "idle", Parsed[page[w]])
    /\ scout' = IF page[w] = Root THEN "runs" ELSE scout
    /\ UNCHANGED <<passive, crawled>>

\* Discover returns; nobody waits for this goroutine.
ScoutReturns ==
    /\ scout = "runs" /\ scout' = "adds"
    /\ work' = [work EXCEPT !["scout"] = Late]
    /\ UNCHANGED <<main, probing, passive, cancelled, crawled, pc, listed, stats, output>>

-------------------------------------------------------------------------------
(* The end of Start.                                                        *)

\* GetEndpoints of both discoveries, once more.
Collected == [f \in Items |-> listed[f] + (IF f \in passive THEN 1 ELSE 0)
                                        + (IF f \in active THEN 1 ELSE 0)]

\* Mutant: nobody waits for the workers.
FinalizeAtOnce ==
    /\ main = "wait" /\ todo = {}
    /\ main' = "write"
    /\ counted' = stats /\ listed' = Collected
    /\ UNCHANGED <<probing, passive, cancelled, crawled, pc, scout, work, stats, written>>

Finalize ==
    /\ main = "wait" /\ \A w \in Workers : pc[w] = "ended"
    /\ main' = "write"
    /\ counted' = stats /\ listed' = Collected
    /\ UNCHANGED <<probing, passive, cancelled, crawled, pc, scout, work, stats, written>>

\* convertToOutputResult reads the results without the lock.
WriteResult ==
    /\ main = "write" /\ main' = "returned"
    /\ written' = listed
    /\ UNCHANGED <<probing, passive, cancelled, crawled, pc, scout, work, listed, stats, counted>>

-------------------------------------------------------------------------------
Probe(x) == StartProbe(x) \/ LeaveProbe(x) \/ ProbeURL(x) \/ AppendDiscovered(x) \/ EndProbe(x)

Begin == EndOfProbe \/ ProbeGraphQL \/ RunEnhancedDiscovery \/ StartWorkers

Work(w) ==
    \/ TakePage(w) \/ WorkerEnds(w) \/ FetchFails(w) \/ FetchPage(w)
    \/ HasDuplicateContent(w) \/ SetContentHash(w)
    \/ ProcessRequests(w) \/ ProcessAJAX(w) \/ ProcessHTML(w)

End == Finalize \/ WriteResult

Next ==
    \/ Cancel \/ Begin \/ End \/ ScoutReturns
    \/ \E x \in Paths : Probe(x)
    \/ \E w \in Workers : Work(w)
    \/ \E a \in Adders : AddNext(a)

\* Requests of the HTTP client end, and goroutines are scheduled.  A browser
\* visit has no time limit: it may never end, until the context is cancelled.
Fairness ==
    /\ WF_vars(Begin \/ End) /\ WF_vars(AddNext("main"))
    /\ \A x \in Paths : WF_vars(Probe(x))
    /\ \A w \in Workers :
        WF_vars((pc[w] = "fetch" => cancelled) /\ (Work(w) \/ AddNext(w)))

Spec == Init /\ [][Next]_vars /\ Fairness

-------------------------------------------------------------------------------
(* Properties.                                                              *)

Stages == {"probe", "graphql", "quick", "crawl", "wait", "write", "returned"}

TypeOK ==
    /\ main \in Stages
    /\ probe \in [Paths -> {"waits", "asks", "found", "leaves", "ended"}]
    /\ sem \in 0 .. MaxProbes
    /\ active \subseteq Paths /\ discovered \subseteq Paths /\ passive \subseteq Keys
    /\ cancelled \in BOOLEAN
    /\ todo \subseteq Pages /\ page \in [Workers -> Pages]
    /\ pc \in [Workers -> {"idle", "fetch", "compare", "store", "requests", "ajax", "scout", "ended"}]
    /\ hashed \subseteq Pages /\ expanded \subseteq Pages /\ skipped \subseteq Pages
    /\ scout \in {"no", "runs", "adds"}
    /\ work \in [Adders -> SUBSET Items]
    /\ listed \in [Items -> Nat] /\ written \in [Items -> Nat]
    /\ stats \in [Kinds -> Nat] /\ counted \in [Kinds -> Nat]

Ended == main \in {"write", "returned"}

\* What the workers and the probes found before Start finalizes its results
\* is written: the probes that answered, and of every page whose findings
\* are reported the API requests, AJAX endpoints, script endpoints and forms.
FoundAt(p) == Requests[p] \cup Ajax[p] \cup Parsed[p]
ReportComplete ==
    main = "returned" =>
        \A f \in active \cup UNION {FoundAt(p) : p \in expanded} : written[f] > 0

\* A request seen on several pages, by several workers, is reported by one of
\* them: it is listed once or about to be, and once more after the end.
Holders(f) == {a \in Adders : f \in work[a]}
Times(k)   == IF Ended THEN 2 ELSE 1
PassiveOnce ==
    \A k \in Keys :
        IF k \notin passive
        THEN Holders(k) = {} /\ listed[k] = 0
        ELSE \/ Holders(k) = {} /\ listed[k] = Times(k)
             \/ /\ \E a \in Adders : Holders(k) = {a}
                /\ listed[k] = Times(k) - 1

\* Of pages with the same content, however many workers fetch them at once,
\* one at least is reported in full.
ContentKept ==
    \A p \in skipped : \E q \in expanded : SameContent(p, q)

\* The counters agree with the lists, less the discoveries' own endpoints,
\* which are listed a second time and never counted; and the counters in the
\* result were those of its lists, less what the background discovery adds.
OfKind(kind, list) == [f \in Items |-> IF KindOf(f) = kind THEN list[f] ELSE 0]
ListedOf(kind, list) == Total(Items, OfKind(kind, list))
Twice(kind) == IF kind = "endpoint" THEN Cardinality(passive) + Cardinality(active) ELSE 0
StatsMatch ==
    \A k \in Kinds :
        /\ ListedOf(k, listed) = stats[k] + (IF Ended THEN Twice(k) ELSE 0)
        /\ main = "returned" =>
               ListedOf(k, written) - counted[k] - Twice(k)
                   \in 0 .. (IF k = "endpoint" THEN Cardinality(Late) ELSE 0)

===============================================================================
