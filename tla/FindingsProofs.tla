---------------------------- MODULE FindingsProofs ----------------------------
(***************************************************************************)
(* Findings for every number of workers, pages, paths and findings: nothing *)
(* found is missing from the report, a request is reported once, of pages   *)
(* with the same content one is kept, and the counters match the lists.     *)
(***************************************************************************)
EXTENDS Findings, CountingProofs

InRequest == {x \in Paths : probe[x] \in {"asks", "found", "leaves"}}

\* The semaphore counts the probes in flight; later there are none.
Tokens ==
    /\ sem = Cardinality(InRequest)
    /\ main # "probe" => \A x \in Paths : probe[x] = "ended"

\* A worker that has ended holds nothing, and Start waits for all of them.
Waited ==
    /\ \A w \in Workers : pc[w] = "ended" => work[w] = {}
    /\ Ended => \A w \in Workers : pc[w] = "ended"

\* What a page gave is reported, about to be, or its worker is not there yet.
Pending(p, stages) == \E w \in Workers : page[w] = p /\ pc[w] \in stages
Comes(f) == listed[f] > 0 \/ \E w \in Workers : f \in work[w]
OnTheWay ==
    \A p \in expanded :
        /\ \A k \in Requests[p] : k \in passive \/ Pending(p, {"requests"})
        /\ \A f \in Ajax[p] : Comes(f) \/ Pending(p, {"requests", "ajax"})
        /\ \A f \in Parsed[p] : Comes(f) \/ Pending(p, {"requests", "ajax", "scout"})

Found == active \cup UNION {FoundAt(p) : p \in expanded}
InReport == main = "write" => \A f \in Found : listed[f] > 0

Originals ==
    /\ hashed \subseteq expanded
    /\ ContentKept

\* Only workers report API requests.
NoKeys == \A a \in {"main", "scout"} : work[a] \cap Keys = {}

IInv == TypeOK /\ Tokens /\ Waited /\ NoKeys /\ PassiveOnce /\ OnTheWay /\ InReport /\ ReportComplete /\ Originals

-------------------------------------------------------------------------------
LEMMA FoundAreItems ==
    ASSUME TypeOK
    PROVE  /\ Found \subseteq Items
           /\ \A p \in Pages : /\ Requests[p] \subseteq Keys
                               /\ Ajax[p] \subseteq PageFinds /\ Parsed[p] \subseteq PageFinds
           /\ PageFinds \subseteq Items /\ Keys \subseteq Items /\ Paths \subseteq Items
           /\ discovered \subseteq Items /\ {GraphQL} \subseteq Items
           /\ Quick \subseteq Items /\ Late \subseteq Items /\ Pages \subseteq Items
  <1>1. PageFinds \subseteq Items
    BY DEF Items, Endpoints
  <1>2. Keys \subseteq Items /\ Paths \subseteq Items /\ {GraphQL} \subseteq Items
    BY DEF Items, Endpoints
  <1>3. Quick \subseteq Items /\ Late \subseteq Items /\ Pages \subseteq Items
    BY DEF Items, Endpoints
  <1>4. \A p \in Pages : /\ Requests[p] \subseteq Keys
                         /\ Ajax[p] \subseteq PageFinds /\ Parsed[p] \subseteq PageFinds
    BY DEF Keys, PageFinds
  <1>5. Found \subseteq Items
    BY <1>1, <1>2, <1>4 DEF TypeOK, Found, FoundAt
  <1>6. discovered \subseteq Items
    BY <1>2 DEF TypeOK
  <1>7. QED
    BY <1>1, <1>2, <1>3, <1>4, <1>5, <1>6

LEMMA KindsAreKinds == \A f \in Items : KindOf(f) \in Kinds
  BY FindingsConstants DEF KindOf, Kinds, Items

LEMMA InitIInv == Init => IInv
  <1> SUFFICES ASSUME Init PROVE IInv
    OBVIOUS
  <1>1. TypeOK
    <2>1. /\ main \in Stages /\ sem \in 0 .. MaxProbes
          /\ probe \in [Paths -> {"waits", "asks", "found", "leaves", "ended"}]
      BY FindingsConstants DEF Init, Stages
    <2>2. /\ active \subseteq Paths /\ discovered \subseteq Paths /\ passive \subseteq Keys
          /\ todo \subseteq Pages
          /\ hashed \subseteq Pages /\ expanded \subseteq Pages /\ skipped \subseteq Pages
      BY DEF Init
    <2>3. /\ cancelled \in BOOLEAN
          /\ page \in [Workers -> Pages] /\ scout \in {"no", "runs", "adds"}
          /\ pc \in [Workers -> {"idle", "fetch", "compare", "store", "requests", "ajax", "scout", "ended"}]
      BY FindingsConstants DEF Init
    <2>4. work \in [Adders -> SUBSET Items]
      BY DEF Init
    <2>5. /\ listed \in [Items -> Nat] /\ written \in [Items -> Nat]
          /\ stats \in [Kinds -> Nat] /\ counted \in [Kinds -> Nat]
      BY DEF Init
    <2>6. QED
      BY <2>1, <2>2, <2>3, <2>4, <2>5 DEF TypeOK
  <1>2. Tokens
    <2>1. InRequest = {}
      BY DEF Init, InRequest
    <2>2. QED
      BY <2>1, FS_EmptySet DEF Init, Tokens
  <1>3. Waited
    BY DEF Init, Waited, Ended
  <1>7. NoKeys
    BY DEF Init, NoKeys, Adders
  <1>4. PassiveOnce
    <2>1. \A k \in Keys : listed[k] = 0
      BY <1>1, FoundAreItems DEF Init
    <2>2. QED
      BY <2>1 DEF Init, PassiveOnce, Holders
  <1>5. OnTheWay /\ InReport /\ ReportComplete /\ Originals
    BY DEF Init, OnTheWay, InReport, ReportComplete, Originals, ContentKept
  <1>6. QED
    BY <1>1, <1>2, <1>3, <1>4, <1>5, <1>7 DEF IInv

-------------------------------------------------------------------------------
(* The steps, one lemma for each kind.                                     *)

\* Nothing but the probes changes, while Start waits for them.
LEMMA ProbeStep ==
    ASSUME IInv, NEW x \in Paths, Probe(x)
    PROVE  IInv'
  <1> USE DEF IInv
  <1>1. /\ ProbesOnly /\ discovered' \subseteq Paths /\ active' \subseteq Paths
        /\ probe' \in [Paths -> {"waits", "asks", "found", "leaves", "ended"}]
        /\ probe[x] # "ended"
    BY DEF Probe, StartProbe, LeaveProbe, ProbeURL, AppendDiscovered, EndProbe, TypeOK
  <1>2. main = "probe" /\ main' = "probe"
    BY <1>1 DEF Tokens, ProbesOnly
  <1>3. IsFiniteSet(InRequest) /\ Cardinality(InRequest) \in Nat
    <2>1. InRequest \subseteq Items
      BY FoundAreItems DEF InRequest
    <2>2. QED
      BY <2>1, FindingsConstants, FS_Subset, FS_CardinalityType
  <1>4. sem' = Cardinality(InRequest') /\ sem' \in 0 .. MaxProbes
    <2>1. CASE StartProbe(x)
      <3>1. InRequest' = InRequest \cup {x} /\ x \notin InRequest /\ sem' = sem + 1 /\ sem < MaxProbes
        BY <2>1 DEF StartProbe, InRequest, TypeOK
      <3>2. Cardinality(InRequest \cup {x}) = Cardinality(InRequest) + 1
        BY <1>3, <3>1, FS_AddElement
      <3>3. QED
        BY <3>1, <3>2, FindingsConstants DEF Tokens, TypeOK
    <2>2. CASE EndProbe(x)
      <3>1. InRequest' = InRequest \ {x} /\ x \in InRequest /\ sem' = sem - 1
        BY <2>2 DEF EndProbe, InRequest, TypeOK
      <3>2. /\ Cardinality(InRequest \ {x}) = Cardinality(InRequest) - 1
            /\ Cardinality(InRequest \ {x}) \in Nat
        BY <1>3, <3>1, FS_RemoveElement, FS_CardinalityType
      <3>3. QED
        BY <3>1, <3>2, FindingsConstants DEF Tokens, TypeOK
    <2>3. CASE LeaveProbe(x) \/ ProbeURL(x) \/ AppendDiscovered(x)
      <3>1. InRequest' = InRequest /\ sem' = sem
        BY <2>3 DEF LeaveProbe, ProbeURL, AppendDiscovered, InRequest, TypeOK
      <3>2. QED
        BY <3>1 DEF Tokens, TypeOK
    <2>4. QED
      BY <2>1, <2>2, <2>3 DEF Probe
  <1>5. TypeOK' /\ Tokens'
    <2>1. UNCHANGED <<main, passive, cancelled, todo, page, hashed, expanded, skipped,
                      pc, scout, work, listed, stats, counted, written>>
      BY <1>1 DEF ProbesOnly, crawled, output
    <2>2. QED
      BY <1>1, <1>2, <1>4, <2>1 DEF TypeOK, Tokens
  <1>6. Waited' /\ NoKeys' /\ PassiveOnce' /\ OnTheWay' /\ Originals'
    BY <1>1 DEF ProbesOnly, crawled, Waited, NoKeys, Ended, PassiveOnce, Holders, Times,
                OnTheWay, Comes, Pending, Originals, ContentKept, SameContent
  <1>7. InReport' /\ ReportComplete'
    BY <1>2 DEF InReport, ReportComplete
  <1>8. QED
    BY <1>5, <1>6, <1>7

\* Start, and the background discovery, get more to add: no request is in it.
LEMMA LoadStep ==
    ASSUME IInv, NEW a \in {"main", "scout"}, NEW fs \in SUBSET Items, fs \cap Keys = {},
           work' = [work EXCEPT ![a] = fs],
           UNCHANGED <<probing, passive, cancelled, crawled, pc, listed, stats, output>>,
           main' \in Stages, scout' \in {"no", "runs", "adds"},
           main' = main \/ (main' \notin {"write", "returned"} /\ ~Ended),
           main' # "probe" => \A x \in Paths : probe[x] = "ended"
    PROVE  IInv'
  <1> USE DEF IInv
  <1>1. /\ UNCHANGED <<probe, sem, active, discovered, passive, cancelled, todo, page, hashed,
                       expanded, skipped, pc, listed, stats, counted, written>>
        /\ Ended' = Ended
    BY DEF probing, crawled, output, Ended
  <1>2. /\ \A w \in Workers : work'[w] = work[w]
        /\ \A b \in Adders : b # a => work'[b] = work[b]
        /\ work'[a] = fs /\ work' \in [Adders -> SUBSET Items]
    BY FindingsConstants DEF TypeOK, Adders
  <1>3. TypeOK'
    BY <1>1, <1>2 DEF TypeOK
  <1>4. Tokens'
    BY <1>1 DEF Tokens, InRequest
  <1>5. Waited' /\ OnTheWay' /\ Originals'
    BY <1>1, <1>2 DEF Waited, OnTheWay, Comes, Pending, Originals, ContentKept, SameContent
  <1>6. NoKeys'
    BY <1>2 DEF NoKeys, Adders
  <1>7. PassiveOnce'
    <2>1. ASSUME NEW k \in Keys PROVE Holders(k)' = Holders(k)
      BY <1>2 DEF Holders, NoKeys
    <2>2. QED
      BY <1>1, <2>1 DEF PassiveOnce, Times
  <1>8. InReport' /\ ReportComplete'
    BY <1>1 DEF InReport, ReportComplete, Found, FoundAt, Ended
  <1>9. QED
    BY <1>3, <1>4, <1>5, <1>6, <1>7, <1>8

\* The steps of Start up to the workers.
LEMMA BeginStep ==
    ASSUME IInv, Begin \/ ScoutReturns
    PROVE  IInv'
  <1>1. /\ discovered \subseteq Items /\ discovered \cap Keys = {}
        /\ {GraphQL} \subseteq Items /\ {GraphQL} \cap Keys = {}
        /\ Quick \subseteq Items /\ Quick \cap Keys = {}
        /\ Late \subseteq Items /\ Late \cap Keys = {}
    BY FoundAreItems, FindingsConstants DEF IInv, TypeOK
  <1>2. CASE EndOfProbe
    <2>1. /\ work' = [work EXCEPT !["main"] = discovered] /\ main = "probe" /\ main' = "graphql"
          /\ UNCHANGED <<probing, passive, cancelled, crawled, pc, scout, listed, stats, output>>
          /\ \A x \in Paths : probe[x] = "ended"
      BY <1>2 DEF EndOfProbe, MainMoves
    <2>2. QED
      BY <1>1, <2>1, LoadStep DEF IInv, TypeOK, Stages, Ended
  <1>3. CASE ProbeGraphQL
    <2>1. PICK fs \in {{GraphQL}, {}} : MainMoves("graphql", "quick", fs)
      BY <1>3 DEF ProbeGraphQL
    <2>2. /\ work' = [work EXCEPT !["main"] = fs] /\ main = "graphql" /\ main' = "quick"
          /\ UNCHANGED <<probing, passive, cancelled, crawled, pc, scout, listed, stats, output>>
      BY <2>1 DEF MainMoves
    <2>3. QED
      BY <1>1, <2>2, LoadStep DEF IInv, TypeOK, Tokens, Stages, Ended
  <1>4. CASE RunEnhancedDiscovery
    <2>1. /\ work' = [work EXCEPT !["main"] = Quick] /\ main = "quick" /\ main' = "crawl"
          /\ UNCHANGED <<probing, passive, cancelled, crawled, pc, scout, listed, stats, output>>
      BY <1>4 DEF RunEnhancedDiscovery, MainMoves
    <2>2. QED
      BY <1>1, <2>1, LoadStep DEF IInv, TypeOK, Tokens, Stages, Ended
  <1>5. CASE StartWorkers
    <2>1. /\ work' = [work EXCEPT !["main"] = {}] /\ main = "crawl" /\ main' = "wait"
          /\ UNCHANGED <<probing, passive, cancelled, crawled, pc, scout, listed, stats, output>>
      BY <1>5 DEF StartWorkers, MainMoves
    <2>2. {} \in SUBSET Items /\ {} \cap Keys = {}
      OBVIOUS
    <2>3. QED
      BY <2>1, <2>2, LoadStep DEF IInv, TypeOK, Tokens, Stages, Ended
  <1>6. CASE ScoutReturns
    <2>1. /\ work' = [work EXCEPT !["scout"] = Late] /\ scout' = "adds" /\ main' = main
          /\ UNCHANGED <<probing, passive, cancelled, crawled, pc, listed, stats, output>>
      BY <1>6 DEF ScoutReturns
    <2>2. QED
      BY <1>1, <2>1, LoadStep DEF IInv, TypeOK, Tokens
  <1>7. QED
    BY <1>2, <1>3, <1>4, <1>5, <1>6 DEF Begin

\* One finding is added and counted.
LEMMA AddStep ==
    ASSUME IInv, NEW a \in Adders, AddNext(a)
    PROVE  IInv'
  <1> USE DEF IInv
  <1>1. PICK f \in work[a] :
            /\ listed' = [listed EXCEPT ![f] = @ + 1]
            /\ stats' = [stats EXCEPT ![KindOf(f)] = @ + 1]
            /\ work' = [work EXCEPT ![a] = @ \ {f}]
            /\ UNCHANGED <<main, probing, passive, cancelled, crawled, pc, scout, output>>
    BY DEF AddNext, Add
  <1>2. f \in Items
    BY DEF TypeOK
  <1>3. /\ UNCHANGED <<main, probe, sem, active, discovered, passive, cancelled, todo, page, hashed,
                       expanded, skipped, pc, scout, counted, written>>
        /\ Ended' = Ended
    BY <1>1 DEF probing, crawled, output, Ended
  <1>4. /\ listed' \in [Items -> Nat] /\ listed'[f] = listed[f] + 1
        /\ \A g \in Items : g # f => listed'[g] = listed[g]
        /\ \A g \in Items : listed[g] > 0 => listed'[g] > 0
    BY <1>1, <1>2 DEF TypeOK
  <1>5. stats' \in [Kinds -> Nat]
    BY <1>1, <1>2, KindsAreKinds DEF TypeOK
  <1>6. /\ work' \in [Adders -> SUBSET Items] /\ work'[a] = work[a] \ {f}
        /\ \A b \in Adders : b # a => work'[b] = work[b]
    BY <1>1 DEF TypeOK
  <1>7. TypeOK'
    BY <1>3, <1>4, <1>5, <1>6 DEF TypeOK
  <1>8. Tokens' /\ Originals'
    BY <1>3 DEF Tokens, InRequest, Originals, ContentKept, SameContent
  <1>9. Waited' /\ NoKeys'
    BY <1>3, <1>6 DEF Waited, NoKeys, Adders
  <1>10. PassiveOnce'
    <2>1. \A g \in Items : g # f => Holders(g)' = Holders(g)
      BY <1>6 DEF Holders
    <2>2. Holders(f)' = Holders(f) \ {a} /\ a \in Holders(f)
      BY <1>6 DEF Holders
    <2>3. \A k \in Keys : k \in Items /\ listed[k] \in Nat
      BY FoundAreItems DEF TypeOK
    <2>4. f \in Keys => f \in passive /\ Holders(f) = {a} /\ listed[f] = Times(f) - 1
      BY <2>2 DEF PassiveOnce
    <2>5. f \in Keys => f \in passive /\ Holders(f)' = {} /\ listed'[f] = Times(f)
      BY <1>4, <2>2, <2>3, <2>4 DEF Times
    <2>6. \A k \in Keys : Times(k)' = Times(k)
      BY <1>3 DEF Times
    <2>7. QED
      BY <1>3, <1>4, <2>1, <2>3, <2>5, <2>6 DEF PassiveOnce
  <1>11. OnTheWay'
    <2>1. \A g \in Items : Comes(g) => Comes(g)'
      BY <1>2, <1>4, <1>6 DEF Comes, Adders, TypeOK
    <2>2. \A p \in Pages : \A ss : Pending(p, ss)' = Pending(p, ss)
      BY <1>3 DEF Pending
    <2>3. expanded \subseteq Pages
      BY DEF TypeOK
    <2>4. \A p \in Pages : Ajax[p] \subseteq Items /\ Parsed[p] \subseteq Items
      BY FoundAreItems
    <2>5. QED
      BY <1>3, <2>1, <2>2, <2>3, <2>4 DEF OnTheWay
  <1>12. InReport' /\ ReportComplete'
    <2>1. Found' = Found /\ Found \subseteq Items
      BY <1>3, FoundAreItems DEF Found, FoundAt
    <2>2. QED
      BY <1>3, <1>4, <2>1 DEF InReport, ReportComplete, Found, FoundAt
  <1>13. QED
    BY <1>7, <1>8, <1>9, <1>10, <1>11, <1>12

-------------------------------------------------------------------------------
\* What every step of a worker has in common.
LEMMA WorkerFrame ==
    ASSUME IInv, NEW w \in Workers, NEW from, NEW to, NEW fs \in SUBSET Items,
           from # "ended", Goes(w, from, to, fs),
           to \in {"idle", "fetch", "compare", "store", "requests", "ajax", "scout", "ended"},
           to = "ended" => fs = {},
           passive' \subseteq Keys, todo' \subseteq Pages, page' \in [Workers -> Pages],
           hashed' \subseteq Pages, expanded' \subseteq Pages, skipped' \subseteq Pages,
           scout' \in {"no", "runs", "adds"}
    PROVE  /\ TypeOK' /\ Tokens' /\ Waited' /\ NoKeys' /\ InReport' /\ ReportComplete'
           /\ pc'[w] = to /\ \A v \in Workers : v # w => pc'[v] = pc[v]
           /\ work'[w] = fs /\ \A b \in Adders : b # w => work'[b] = work[b]
           /\ work[w] = {} /\ pc[w] = from /\ listed' = listed
           /\ ~Ended /\ ~Ended' /\ w \in Adders
  <1> USE DEF IInv
  <1>1. /\ UNCHANGED <<main, probe, sem, active, discovered, cancelled, listed, stats, counted, written>>
        /\ pc[w] = from /\ work[w] = {}
        /\ pc' = [pc EXCEPT ![w] = to] /\ work' = [work EXCEPT ![w] = fs]
    BY DEF Goes, probing, output
  <1>2. /\ pc'[w] = to /\ \A v \in Workers : v # w => pc'[v] = pc[v]
        /\ pc' \in [Workers -> {"idle", "fetch", "compare", "store", "requests", "ajax", "scout", "ended"}]
    BY <1>1 DEF TypeOK
  <1>3. w \in Adders /\ w \notin {"main", "scout"} /\ "main" \in Adders /\ "scout" \in Adders
    BY FindingsConstants DEF Adders
  <1>4. /\ work'[w] = fs /\ \A b \in Adders : b # w => work'[b] = work[b]
        /\ work' \in [Adders -> SUBSET Items]
    BY <1>1, <1>3 DEF TypeOK
  <1>5. ~Ended /\ ~Ended'
    BY <1>1 DEF Waited, Ended
  <1>6. TypeOK'
    BY <1>1, <1>2, <1>4 DEF TypeOK
  <1>7. Tokens'
    BY <1>1 DEF Tokens, InRequest
  <1>8. Waited' /\ NoKeys'
    BY <1>2, <1>3, <1>4, <1>5 DEF Waited, NoKeys, Adders
  <1>9. InReport' /\ ReportComplete'
    BY <1>5 DEF InReport, ReportComplete, Ended
  <1>10. QED
    BY <1>1, <1>2, <1>3, <1>4, <1>5, <1>6, <1>7, <1>8, <1>9

\* Before its page is expanded a worker reports nothing but errors.
LEMMA QuietStep ==
    ASSUME IInv, NEW w \in Workers,
           TakePage(w) \/ WorkerEnds(w) \/ FetchFails(w) \/ FetchPage(w) \/ HasDuplicateContent(w)
    PROVE  IInv'
  <1> USE DEF IInv
  <1>1. PICK from \in {"idle", "fetch", "compare"},
             to \in {"idle", "fetch", "compare", "store", "ended"}, fs \in SUBSET Pages :
            Goes(w, from, to, fs) /\ (to = "ended" => fs = {})
    <2>1. {page[w]} \in SUBSET Pages /\ {} \in SUBSET Pages
      BY DEF TypeOK
    <2>2. QED
      BY <2>1 DEF TakePage, WorkerEnds, FetchFails, FetchPage, HasDuplicateContent
  <1>2. /\ UNCHANGED <<passive, hashed, expanded, scout>>
        /\ todo' \subseteq Pages /\ page' \in [Workers -> Pages] /\ skipped' \subseteq Pages
        /\ \A v \in Workers : v # w => page'[v] = page[v]
        /\ \A p \in skipped' \ skipped : \E q \in hashed : SameContent(p, q)
    <2>1. CASE TakePage(w)
      <3>1. PICK p \in todo : todo' = todo \ {p} /\ page' = [page EXCEPT ![w] = p]
        BY <2>1 DEF TakePage
      <3>2. QED
        BY <2>1, <3>1 DEF TakePage, TypeOK
    <2>2. CASE HasDuplicateContent(w)
      BY <2>2 DEF HasDuplicateContent, TypeOK
    <2>3. CASE WorkerEnds(w) \/ FetchFails(w) \/ FetchPage(w)
      BY <2>3 DEF WorkerEnds, FetchFails, FetchPage, crawled, TypeOK
    <2>4. QED
      BY <2>1, <2>2, <2>3
  <1>3. fs \in SUBSET Items /\ fs \cap Keys = {}
    BY FoundAreItems, FindingsConstants DEF Endpoints
  <1>4. /\ TypeOK' /\ Tokens' /\ Waited' /\ NoKeys' /\ InReport' /\ ReportComplete'
        /\ pc'[w] = to /\ \A v \in Workers : v # w => pc'[v] = pc[v]
        /\ work'[w] = fs /\ \A b \in Adders : b # w => work'[b] = work[b]
        /\ work[w] = {} /\ pc[w] = from /\ listed' = listed
        /\ ~Ended /\ ~Ended' /\ w \in Adders
    BY <1>1, <1>2, <1>3, WorkerFrame DEF TypeOK
  <1>5. PassiveOnce'
    <2>1. \A k \in Keys : Holders(k)' = Holders(k)
      BY <1>3, <1>4 DEF Holders
    <2>2. QED
      BY <1>2, <1>4, <2>1 DEF PassiveOnce, Times
  <1>6. OnTheWay'
    <2>1. \A f : Comes(f) => Comes(f)'
      BY <1>4 DEF Comes, Adders
    <2>2. \A p, ss : ss \subseteq {"requests", "ajax", "scout"} /\ Pending(p, ss) => Pending(p, ss)'
      BY <1>2, <1>4 DEF Pending
    <2>3. QED
      BY <1>2, <2>1, <2>2 DEF OnTheWay
  <1>7. Originals'
    BY <1>2 DEF Originals, ContentKept, SameContent
  <1>8. QED
    BY <1>4, <1>5, <1>6, <1>7

\* From here on the page counts as expanded.
LEMMA ExpandStep ==
    ASSUME IInv, NEW w \in Workers, SetContentHash(w)
    PROVE  IInv'
  <1> USE DEF IInv
  <1>1. /\ Goes(w, "store", "requests", {})
        /\ hashed' \subseteq hashed \cup {page[w]} /\ expanded' = expanded \cup {page[w]}
        /\ page[w] \in Pages
        /\ UNCHANGED <<passive, todo, page, skipped, scout>>
    BY DEF SetContentHash, TypeOK
  <1>2. /\ TypeOK' /\ Tokens' /\ Waited' /\ NoKeys' /\ InReport' /\ ReportComplete'
        /\ pc'[w] = "requests" /\ \A v \in Workers : v # w => pc'[v] = pc[v]
        /\ work'[w] = {} /\ \A b \in Adders : b # w => work'[b] = work[b]
        /\ work[w] = {} /\ pc[w] = "store" /\ listed' = listed
        /\ ~Ended /\ ~Ended' /\ w \in Adders
    BY <1>1, WorkerFrame DEF TypeOK
  <1>3. PassiveOnce'
    <2>1. \A k \in Keys : Holders(k)' = Holders(k)
      BY <1>2 DEF Holders
    <2>2. QED
      BY <1>1, <1>2, <2>1 DEF PassiveOnce, Times
  <1>4. OnTheWay'
    <2>1. \A f : Comes(f) => Comes(f)'
      BY <1>2 DEF Comes, Adders
    <2>2. \A p, ss : ss \subseteq {"requests", "ajax", "scout"} /\ Pending(p, ss) => Pending(p, ss)'
      BY <1>1, <1>2 DEF Pending
    <2>3. \A ss : "requests" \in ss => Pending(page[w], ss)'
      BY <1>1, <1>2 DEF Pending
    <2>4. QED
      BY <1>1, <2>1, <2>2, <2>3 DEF OnTheWay
  <1>5. Originals'
    BY <1>1 DEF Originals, ContentKept, SameContent
  <1>6. QED
    BY <1>2, <1>3, <1>4, <1>5

\* The new requests are in the hands of this worker only.
LEMMA RequestsStep ==
    ASSUME IInv, NEW w \in Workers, ProcessRequests(w)
    PROVE  IInv'
  <1> USE DEF IInv
  <1> DEFINE fs == Requests[page[w]] \ passive
  <1>1. /\ Goes(w, "requests", "ajax", fs)
        /\ passive' = passive \cup Requests[page[w]]
        /\ UNCHANGED <<todo, page, hashed, expanded, skipped, scout>>
    BY DEF ProcessRequests, crawled
  <1>2. page[w] \in Pages /\ Requests[page[w]] \subseteq Keys /\ fs \subseteq Items
    BY FoundAreItems DEF TypeOK
  <1>3. passive' \subseteq Keys
    BY <1>1, <1>2 DEF TypeOK
  <1> HIDE DEF fs
  <1>4. /\ TypeOK' /\ Tokens' /\ Waited' /\ NoKeys' /\ InReport' /\ ReportComplete'
        /\ pc'[w] = "ajax" /\ \A v \in Workers : v # w => pc'[v] = pc[v]
        /\ work'[w] = fs /\ \A b \in Adders : b # w => work'[b] = work[b]
        /\ work[w] = {} /\ pc[w] = "requests" /\ listed' = listed
        /\ ~Ended /\ ~Ended' /\ w \in Adders
    BY <1>1, <1>2, <1>3, WorkerFrame DEF TypeOK
  <1>5. PassiveOnce'
    <2>1. ASSUME NEW k \in Keys, k \notin fs
          PROVE  Holders(k)' = Holders(k) /\ (k \in passive' <=> k \in passive)
      BY <1>1, <1>4, <2>1 DEF Holders, fs
    <2>2. ASSUME NEW k \in Keys, k \in fs
          PROVE  Holders(k)' = {w} /\ k \in passive' /\ listed'[k] = 0
      <3>1. k \notin passive /\ Holders(k) = {} /\ listed[k] = 0
        BY <2>2 DEF PassiveOnce, fs
      <3>2. QED
        BY <1>1, <1>4, <2>2, <3>1 DEF Holders, fs
    <2>3. \A k \in Keys : Times(k) = 1 /\ Times(k)' = 1
      BY <1>4 DEF Times
    <2>4. QED
      BY <1>4, <2>1, <2>2, <2>3 DEF PassiveOnce
  <1>6. OnTheWay'
    <2>1. \A f : Comes(f) => Comes(f)'
      BY <1>4 DEF Comes, Adders
    <2>2. \A p, ss : "ajax" \in ss /\ Pending(p, ss) => Pending(p, ss)'
      BY <1>1, <1>4 DEF Pending
    <2>3. \A p \in Pages : Pending(p, {"requests"}) => p = page[w] \/ Pending(p, {"requests"})'
      BY <1>1, <1>4 DEF Pending
    <2>4. QED
      BY <1>1, <2>1, <2>2, <2>3 DEF OnTheWay, TypeOK
  <1>7. Originals'
    BY <1>1 DEF Originals, ContentKept, SameContent
  <1>8. QED
    BY <1>4, <1>5, <1>6, <1>7

\* What the page itself yields is in the worker's hands, no request among it.
LEMMA PageStep ==
    ASSUME IInv, NEW w \in Workers, ProcessAJAX(w) \/ ProcessHTML(w)
    PROVE  IInv'
  <1> USE DEF IInv
  <1>1. PICK from \in {"ajax", "scout"}, to \in {"scout", "idle"},
             fs \in {Ajax[page[w]], Parsed[page[w]]} :
            /\ Goes(w, from, to, fs)
            /\ from = "ajax" => to = "scout" /\ fs = Ajax[page[w]]
            /\ from = "scout" => to = "idle" /\ fs = Parsed[page[w]]
    BY DEF ProcessAJAX, ProcessHTML
  <1>2. UNCHANGED <<passive, todo, page, hashed, expanded, skipped>> /\ scout' \in {scout, "runs"}
    BY DEF ProcessAJAX, ProcessHTML, crawled
  <1>3. fs \in SUBSET Items /\ fs \cap Keys = {}
    BY <1>1, FoundAreItems, FindingsConstants DEF TypeOK
  <1>4. /\ TypeOK' /\ Tokens' /\ Waited' /\ NoKeys' /\ InReport' /\ ReportComplete'
        /\ pc'[w] = to /\ \A v \in Workers : v # w => pc'[v] = pc[v]
        /\ work'[w] = fs /\ \A b \in Adders : b # w => work'[b] = work[b]
        /\ work[w] = {} /\ pc[w] = from /\ listed' = listed
        /\ ~Ended /\ ~Ended' /\ w \in Adders
    BY <1>1, <1>2, <1>3, WorkerFrame DEF TypeOK
  <1>5. PassiveOnce'
    <2>1. \A k \in Keys : Holders(k)' = Holders(k)
      BY <1>3, <1>4 DEF Holders
    <2>2. QED
      BY <1>2, <1>4, <2>1 DEF PassiveOnce, Times
  <1>6. OnTheWay'
    <2>1. \A f : Comes(f) => Comes(f)'
      BY <1>4 DEF Comes, Adders
    <2>2. \A p : Pending(p, {"requests"}) => Pending(p, {"requests"})'
      BY <1>1, <1>2, <1>4 DEF Pending
    <2>3. \A f \in fs : Comes(f)'
      BY <1>4 DEF Comes
    <2>4. ASSUME NEW p \in expanded, NEW f \in Ajax[p]
          PROVE  Comes(f)' \/ Pending(p, {"requests", "ajax"})'
      <3>1. CASE Pending(p, {"requests", "ajax"})
        BY <1>1, <1>2, <1>4, <2>3, <3>1 DEF Pending
      <3>2. QED
        BY <2>1, <3>1 DEF OnTheWay
    <2>5. ASSUME NEW p \in expanded, NEW f \in Parsed[p]
          PROVE  Comes(f)' \/ Pending(p, {"requests", "ajax", "scout"})'
      <3>1. CASE Pending(p, {"requests", "ajax", "scout"})
        BY <1>1, <1>2, <1>4, <2>3, <3>1 DEF Pending
      <3>2. QED
        BY <2>1, <3>1 DEF OnTheWay
    <2>6. QED
      BY <1>2, <2>2, <2>4, <2>5 DEF OnTheWay
  <1>7. Originals'
    BY <1>2 DEF Originals, ContentKept, SameContent
  <1>8. QED
    BY <1>4, <1>5, <1>6, <1>7

-------------------------------------------------------------------------------
\* All workers have ended: what was on its way is in the list.
LEMMA FinalizeStep ==
    ASSUME IInv, Finalize
    PROVE  IInv'
  <1> USE DEF IInv
  <1>1. /\ main = "wait" /\ main' = "write" /\ counted' = stats /\ listed' = Collected
        /\ UNCHANGED <<probe, sem, active, discovered, passive, cancelled, todo, page, hashed,
                       expanded, skipped, pc, scout, work, stats, written>>
        /\ ~Ended /\ Ended'
    BY DEF Finalize, probing, crawled, Ended
  <1>2. \A w \in Workers : pc[w] = "ended" /\ work[w] = {}
    BY DEF Finalize, Waited
  <1>3. ASSUME NEW f \in Items
        PROVE  /\ listed[f] \in Nat /\ listed'[f] \in Nat /\ listed'[f] >= listed[f]
               /\ f \in passive \cup active => listed'[f] > 0
               /\ f \in passive /\ f \notin active => listed'[f] = listed[f] + 1
               /\ f \notin passive /\ f \notin active => listed'[f] = listed[f]
    <2>1. listed[f] \in Nat
      BY DEF TypeOK
    <2>2. listed'[f] = listed[f] + (IF f \in passive THEN 1 ELSE 0) + (IF f \in active THEN 1 ELSE 0)
      BY <1>1 DEF Collected
    <2>3. QED
      BY <2>1, <2>2
  <1>4. TypeOK'
    <2>1. listed' \in [Items -> Nat]
      BY <1>1, <1>3 DEF Collected
    <2>2. QED
      BY <1>1, <2>1 DEF TypeOK, Stages
  <1>5. Tokens' /\ Waited' /\ NoKeys' /\ Originals'
    BY <1>1, <1>2 DEF Tokens, InRequest, Waited, NoKeys, Originals, ContentKept, SameContent
  <1>6. PassiveOnce'
    <2>1. \A k \in Keys : k \in Items /\ k \notin active
      BY FoundAreItems, FindingsConstants DEF TypeOK
    <2>2. \A k \in Keys : Holders(k)' = Holders(k) /\ Times(k) = 1 /\ Times(k)' = 2
      BY <1>1 DEF Holders, Times
    <2>3. QED
      BY <1>1, <1>3, <2>1, <2>2 DEF PassiveOnce
  <1>7. \A p, ss : ss \subseteq {"requests", "ajax", "scout"} => ~Pending(p, ss)
    BY <1>2 DEF Pending
  <1>8. \A f \in Found : listed'[f] > 0
    <2>1. \A f : Comes(f) => listed[f] > 0
      BY <1>2 DEF Comes
    <2>2. ASSUME NEW p \in expanded, NEW f \in FoundAt(p)
          PROVE  f \in passive \/ listed[f] > 0
      BY <1>7, <2>1 DEF OnTheWay, FoundAt
    <2>3. Found \subseteq Items
      BY FoundAreItems
    <2>4. \A f \in Found : f \in passive \cup active \/ listed[f] > 0
      BY <2>2 DEF Found
    <2>5. QED
      BY <1>3, <2>3, <2>4
  <1>9. InReport' /\ ReportComplete'
    BY <1>1, <1>8 DEF InReport, ReportComplete, Found, FoundAt
  <1>10. OnTheWay'
    <2>1. \A p \in expanded : FoundAt(p) \subseteq Items /\ FoundAt(p) \subseteq Found
      BY FoundAreItems DEF Found
    <2>2. \A p \in expanded : \A f \in FoundAt(p) : Comes(f)'
      BY <1>8, <2>1 DEF Comes
    <2>3. \A p \in expanded : \A k \in Requests[p] : k \in passive
      BY <1>7 DEF OnTheWay
    <2>4. QED
      BY <1>1, <2>2, <2>3 DEF OnTheWay, FoundAt
  <1>11. QED
    BY <1>4, <1>5, <1>6, <1>9, <1>10

LEMMA WriteStep ==
    ASSUME IInv, WriteResult
    PROVE  IInv'
  <1> USE DEF IInv
  <1>1. /\ main = "write" /\ main' = "returned" /\ written' = listed
        /\ UNCHANGED <<probe, sem, active, discovered, passive, cancelled, todo, page, hashed,
                       expanded, skipped, pc, scout, work, listed, stats, counted>>
        /\ Ended' = Ended
    BY DEF WriteResult, probing, crawled, Ended
  <1>2. TypeOK'
    BY <1>1 DEF TypeOK, Stages
  <1>3. Tokens' /\ Waited' /\ NoKeys' /\ Originals'
    BY <1>1 DEF Tokens, InRequest, Waited, NoKeys, Originals, ContentKept, SameContent
  <1>4. PassiveOnce' /\ OnTheWay'
    BY <1>1 DEF PassiveOnce, Holders, Times, OnTheWay, Comes, Pending
  <1>5. InReport' /\ ReportComplete'
    BY <1>1 DEF InReport, ReportComplete, Found, FoundAt
  <1>6. QED
    BY <1>2, <1>3, <1>4, <1>5

\* A cancelled context alone, and stuttering, change nothing of this.
LEMMA CancelStep ==
    ASSUME IInv, Cancel \/ UNCHANGED vars
    PROVE  IInv'
  <1> USE DEF IInv
  <1>1. /\ UNCHANGED <<main, probe, sem, active, discovered, passive, todo, page, hashed,
                       expanded, skipped, pc, scout, work, listed, stats, counted, written>>
        /\ cancelled' \in BOOLEAN /\ Ended' = Ended
    BY DEF Cancel, vars, probing, crawled, output, Ended, TypeOK
  <1>2. TypeOK'
    BY <1>1 DEF TypeOK
  <1>3. Tokens' /\ Waited' /\ NoKeys' /\ Originals'
    BY <1>1 DEF Tokens, InRequest, Waited, NoKeys, Originals, ContentKept, SameContent
  <1>4. PassiveOnce' /\ OnTheWay'
    BY <1>1 DEF PassiveOnce, Holders, Times, OnTheWay, Comes, Pending
  <1>5. InReport' /\ ReportComplete'
    BY <1>1 DEF InReport, ReportComplete, Found, FoundAt
  <1>6. QED
    BY <1>2, <1>3, <1>4, <1>5

LEMMA StepIInv == IInv /\ [Next]_vars => IInv'
  <1> SUFFICES ASSUME IInv, [Next]_vars PROVE IInv'
    OBVIOUS
  <1>1. CASE \E w \in Workers : Work(w)
    BY <1>1, QuietStep, ExpandStep, RequestsStep, PageStep DEF Work
  <1>2. QED
    BY <1>1, CancelStep, BeginStep, ProbeStep, AddStep, FinalizeStep, WriteStep DEF Next, End

LEMMA Invariance == Spec => []IInv
  BY InitIInv, StepIInv, PTL DEF Spec

-------------------------------------------------------------------------------
(* The counters.                                                           *)

\* The root page has one visit at most, which starts the background discovery.
Visits(w) == page[w] = Root /\ pc[w] \notin {"idle", "ended"}
RootOnce ==
    /\ scout # "no" => Root \notin todo
    /\ \A w \in Workers : Visits(w) =>
           /\ Root \notin todo /\ scout = "no"
           /\ \A v \in Workers : Visits(v) => v = w

\* So it adds its findings once, and Start has added its own before it waits.
LateOnce ==
    /\ main \in {"wait", "write", "returned"} => work["main"] = {}
    /\ work["scout"] \subseteq Late
    /\ scout # "adds" => work["scout"] = {}

\* The first half of StatsMatch.
Tally == \A k \in Kinds : ListedOf(k, listed) = stats[k] + (IF Ended THEN Twice(k) ELSE 0)

\* What is counted after the end is what the background discovery has added.
ToAdd == IF scout = "runs" THEN Cardinality(Late) ELSE Cardinality(work["scout"])
Counted ==
    Ended =>
        /\ \A k \in Kinds : counted[k] <= stats[k]
        /\ \A k \in Kinds \ {"endpoint"} : stats[k] = counted[k]
        /\ stats["endpoint"] + ToAdd <= counted["endpoint"] + Cardinality(Late)

\* The second half of StatsMatch.
Reported ==
    main = "returned" =>
        \A k \in Kinds : ListedOf(k, written) - counted[k] - Twice(k)
                             \in 0 .. (IF k = "endpoint" THEN Cardinality(Late) ELSE 0)

SInv == RootOnce /\ LateOnce /\ Tally /\ Counted /\ Reported

LEMMA OfKindType ==
    ASSUME NEW k, NEW list \in [Items -> Nat]
    PROVE  OfKind(k, list) \in [Items -> Nat]
  BY DEF OfKind

\* Sets of endpoints are finite, and counted by naturals.
LEMMA Sizes ==
    ASSUME TypeOK, LateOnce
    PROVE  /\ IsFiniteSet(passive) /\ IsFiniteSet(active) /\ IsFiniteSet(Late)
           /\ IsFiniteSet(work["scout"])
           /\ Cardinality(passive) \in Nat /\ Cardinality(active) \in Nat
           /\ Cardinality(Late) \in Nat /\ Cardinality(work["scout"]) \in Nat
           /\ Cardinality(work["scout"]) <= Cardinality(Late)
  <1>1. passive \subseteq Items /\ active \subseteq Items /\ Late \subseteq Items
    BY FoundAreItems DEF TypeOK
  <1>2. work["scout"] \subseteq Late
    BY DEF LateOnce
  <1>3. IsFiniteSet(passive) /\ IsFiniteSet(active) /\ IsFiniteSet(Late)
    BY <1>1, FindingsConstants, FS_Subset
  <1>4. IsFiniteSet(work["scout"]) /\ Cardinality(work["scout"]) <= Cardinality(Late)
    BY <1>2, <1>3, FS_Subset
  <1>5. QED
    BY <1>3, <1>4, FS_CardinalityType

LEMMA TallyStays ==
    ASSUME Tally, UNCHANGED <<listed, stats>>, Ended' = Ended,
           Ended => UNCHANGED <<passive, active>>
    PROVE  Tally'
  BY DEF Tally, ListedOf, OfKind, Twice

LEMMA InitSInv == Init => SInv
  <1> SUFFICES ASSUME Init PROVE SInv
    OBVIOUS
  <1>1. RootOnce
    BY DEF Init, RootOnce, Visits
  <1>2. LateOnce
    BY DEF Init, LateOnce, Adders
  <1>3. Tally
    <2>1. ASSUME NEW k \in Kinds PROVE ListedOf(k, listed) = 0 /\ stats[k] = 0
      <3>1. \A f \in Items : OfKind(k, listed)[f] = 0
        BY DEF Init, OfKind
      <3>2. QED
        BY <3>1, TotalZero DEF Init, ListedOf
    <2>2. ~Ended
      BY DEF Init, Ended
    <2>3. QED
      BY <2>1, <2>2 DEF Tally
  <1>4. Counted /\ Reported
    BY DEF Init, Counted, Reported, Ended
  <1>5. QED
    BY <1>1, <1>2, <1>3, <1>4 DEF SInv

\* No step before the end that adds nothing changes what is counted.
LEMMA EarlyStep ==
    ASSUME Tally, ~Ended, ~Ended', UNCHANGED <<listed, stats>>
    PROVE  Tally' /\ Counted' /\ Reported'
  BY TallyStays DEF Counted, Reported, Ended

\* A worker: it takes the root page once, and starts the discovery from there.
LEMMA WorkerSStep ==
    ASSUME IInv, SInv, NEW w \in Workers, Work(w)
    PROVE  SInv'
  <1> USE DEF SInv
  <1>1. PICK from, to, fs :
            /\ from \in {"idle", "fetch", "compare", "store", "requests", "ajax", "scout"}
            /\ Goes(w, from, to, fs)
    BY DEF Work, TakePage, WorkerEnds, FetchFails, FetchPage, HasDuplicateContent,
           SetContentHash, ProcessRequests, ProcessAJAX, ProcessHTML
  <1>2. /\ UNCHANGED <<main, listed, stats>> /\ pc[w] = from /\ from # "ended"
        /\ work' = [work EXCEPT ![w] = fs]
        /\ pc'[w] = to /\ \A v \in Workers : v # w => pc'[v] = pc[v]
    BY <1>1 DEF Goes, IInv, TypeOK
  <1>3. ~Ended /\ ~Ended'
    BY <1>2 DEF IInv, Waited, Ended
  <1>4. work'["main"] = work["main"] /\ work'["scout"] = work["scout"]
    BY <1>2, FindingsConstants DEF IInv, TypeOK, Adders
  <1>5. Tally' /\ Counted' /\ Reported'
    BY <1>2, <1>3, EarlyStep
  <1>6. CASE TakePage(w)
    <2>1. PICK p \in todo : todo' = todo \ {p} /\ page' = [page EXCEPT ![w] = p]
      BY <1>6 DEF TakePage
    <2>2. /\ page'[w] = p /\ \A v \in Workers : v # w => page'[v] = page[v]
          /\ pc[w] = "idle" /\ scout' = scout
      BY <1>6, <2>1 DEF TakePage, Goes, IInv, TypeOK
    <2>3. ~Visits(w) /\ \A v \in Workers : v # w => Visits(v)' = Visits(v)
      BY <1>2, <2>2 DEF Visits
    <2>4. CASE p = Root
      <3>1. Root \notin todo' /\ scout = "no" /\ \A v \in Workers : ~Visits(v)
        BY <2>1, <2>4 DEF RootOnce
      <3>2. QED
        BY <1>2, <1>4, <1>5, <2>2, <2>3, <3>1 DEF RootOnce, LateOnce
    <2>5. CASE p # Root
      <3>1. ~Visits(w)' /\ (Root \in todo' <=> Root \in todo)
        BY <2>1, <2>2, <2>5 DEF Visits
      <3>2. QED
        BY <1>2, <1>4, <1>5, <2>2, <2>3, <3>1 DEF RootOnce, LateOnce
    <2>6. QED
      BY <2>4, <2>5
  <1>7. CASE ProcessHTML(w) /\ page[w] = Root
    <2>1. UNCHANGED <<todo, page>> /\ scout' = "runs" /\ pc[w] = "scout" /\ pc'[w] = "idle"
      BY <1>2, <1>7 DEF ProcessHTML, Goes, crawled, IInv, TypeOK
    <2>2. Visits(w) /\ ~Visits(w)' /\ \A v \in Workers : v # w => Visits(v)' = Visits(v)
      BY <1>2, <1>7, <2>1 DEF Visits
    <2>3. Root \notin todo /\ scout = "no" /\ \A v \in Workers : v # w => ~Visits(v)
      BY <2>2 DEF RootOnce
    <2>4. QED
      BY <1>2, <1>4, <1>5, <2>1, <2>2, <2>3 DEF RootOnce, LateOnce
  <1>8. CASE ~TakePage(w) /\ ~(ProcessHTML(w) /\ page[w] = Root)
    <2>1. UNCHANGED <<todo, page, scout>> /\ (pc[w] = "idle" => to \in {"idle", "ended"})
      BY <1>2, <1>8 DEF Work, WorkerEnds, FetchFails, FetchPage, HasDuplicateContent,
         SetContentHash, ProcessRequests, ProcessAJAX, ProcessHTML, Goes, crawled, IInv, TypeOK
    <2>2. \A v \in Workers : Visits(v)' => Visits(v)
      BY <1>2, <2>1 DEF Visits
    <2>3. QED
      BY <1>2, <1>4, <1>5, <2>1, <2>2 DEF RootOnce, LateOnce
  <1>9. QED
    BY <1>6, <1>7, <1>8

\* Start before the end, and the background discovery when it returns.
LEMMA BeginSStep ==
    ASSUME IInv, SInv, Begin \/ ScoutReturns
    PROVE  SInv'
  <1> USE DEF SInv
  <1>1. CASE Begin
    <2>1. PICK from, to, fs :
              /\ from \in {"probe", "graphql", "quick", "crawl"}
              /\ to \in {"graphql", "quick", "crawl", "wait"}
              /\ MainMoves(from, to, fs) /\ (to = "wait" => fs = {})
      BY <1>1 DEF Begin, EndOfProbe, ProbeGraphQL, RunEnhancedDiscovery, StartWorkers
    <2>2. /\ main = from /\ main' = to /\ work' = [work EXCEPT !["main"] = fs]
          /\ UNCHANGED <<todo, page, pc, scout, listed, stats>>
      BY <2>1 DEF MainMoves, crawled
    <2>3. work'["main"] = fs /\ work'["scout"] = work["scout"]
      BY <2>2 DEF IInv, TypeOK, Adders
    <2>4. ~Ended /\ ~Ended'
      BY <2>1, <2>2 DEF Ended
    <2>5. RootOnce' /\ LateOnce'
      BY <2>1, <2>2, <2>3 DEF RootOnce, Visits, LateOnce
    <2>6. QED
      BY <2>2, <2>4, <2>5, EarlyStep
  <1>2. CASE ScoutReturns
    <2>1. /\ scout = "runs" /\ scout' = "adds" /\ work' = [work EXCEPT !["scout"] = Late]
          /\ UNCHANGED <<main, passive, active, todo, page, pc, listed, stats, counted, written>>
          /\ Ended' = Ended
      BY <1>2 DEF ScoutReturns, probing, crawled, output, Ended
    <2>2. work'["main"] = work["main"] /\ work'["scout"] = Late
      BY <2>1 DEF IInv, TypeOK, Adders
    <2>3. RootOnce' /\ LateOnce'
      BY <2>1, <2>2 DEF RootOnce, Visits, LateOnce
    <2>4. Tally'
      BY <2>1, TallyStays
    <2>5. ToAdd' = ToAdd
      BY <2>1, <2>2 DEF ToAdd
    <2>6. Counted' /\ Reported'
      BY <2>1, <2>5 DEF Counted, Reported, ListedOf, OfKind, Twice
    <2>7. QED
      BY <2>3, <2>4, <2>6
  <1>3. QED
    BY <1>1, <1>2

\* A probe, a cancelled context, and stuttering.
LEMMA QuietSStep ==
    ASSUME IInv, SInv, (\E x \in Paths : Probe(x)) \/ Cancel \/ UNCHANGED vars
    PROVE  SInv'
  <1> USE DEF SInv
  <1>1. /\ UNCHANGED <<main, passive, todo, page, pc, scout, work, listed, stats, counted, written>>
        /\ Ended' = Ended
    BY DEF Probe, StartProbe, LeaveProbe, ProbeURL, AppendDiscovered, EndProbe, ProbesOnly,
           Cancel, vars, crawled, output, Ended
  <1>2. Ended => active' = active
    <2>1. ASSUME NEW x \in Paths, Probe(x) PROVE main = "probe"
      BY <2>1 DEF Probe, StartProbe, LeaveProbe, ProbeURL, AppendDiscovered, EndProbe, IInv, Tokens
    <2>2. QED
      BY <2>1 DEF Cancel, vars, probing, Ended
  <1>3. RootOnce' /\ LateOnce'
    BY <1>1 DEF RootOnce, Visits, LateOnce
  <1>4. Tally'
    BY <1>1, <1>2, TallyStays
  <1>5. Counted' /\ Reported'
    BY <1>1, <1>2 DEF Counted, ToAdd, Reported, Twice, ListedOf, OfKind, Ended
  <1>6. QED
    BY <1>3, <1>4, <1>5

\* One finding more in the list, and one more counted of its kind.
LEMMA AddSStep ==
    ASSUME IInv, SInv, NEW a \in Adders, AddNext(a)
    PROVE  SInv'
  <1> USE DEF SInv
  <1>1. PICK f \in work[a] :
            /\ listed' = [listed EXCEPT ![f] = @ + 1]
            /\ stats' = [stats EXCEPT ![KindOf(f)] = @ + 1]
            /\ work' = [work EXCEPT ![a] = @ \ {f}]
            /\ UNCHANGED <<main, passive, active, todo, page, pc, scout, counted, written>>
            /\ Ended' = Ended
    BY DEF AddNext, Add, probing, crawled, output, Ended
  <1>2. f \in Items /\ KindOf(f) \in Kinds
    BY KindsAreKinds DEF IInv, TypeOK
  <1>3. /\ listed \in [Items -> Nat] /\ listed' \in [Items -> Nat]
        /\ listed'[f] = listed[f] + 1
        /\ \A g \in Items : g # f => listed'[g] = listed[g]
    BY <1>1, <1>2 DEF IInv, TypeOK
  <1>4. /\ \A k \in Kinds : stats[k] \in Nat /\ counted[k] \in Nat
        /\ stats'[KindOf(f)] = stats[KindOf(f)] + 1
        /\ \A k \in Kinds : k # KindOf(f) => stats'[k] = stats[k]
    BY <1>1, <1>2 DEF IInv, TypeOK
  <1>5. /\ work'[a] = work[a] \ {f} /\ \A b \in Adders : b # a => work'[b] = work[b]
        /\ "main" \in Adders /\ "scout" \in Adders
    BY <1>1 DEF IInv, TypeOK, Adders
  <1>6. RootOnce'
    BY <1>1 DEF RootOnce, Visits
  <1>7. LateOnce'
    BY <1>1, <1>5 DEF LateOnce
  <1>8. Tally'
    <2>1. ASSUME NEW k \in Kinds
          PROVE  /\ ListedOf(k, listed') = ListedOf(k, listed) + (IF k = KindOf(f) THEN 1 ELSE 0)
                 /\ ListedOf(k, listed) \in Nat
      <3> DEFINE old == OfKind(k, listed)
                 new == OfKind(k, listed')
      <3>1. old \in [Items -> Nat] /\ new \in [Items -> Nat]
        BY <1>3, OfKindType
      <3>2. /\ \A g \in Items : g # f => new[g] = old[g]
            /\ new[f] = old[f] + (IF k = KindOf(f) THEN 1 ELSE 0) /\ old[f] \in Nat
        BY <1>2, <1>3 DEF OfKind
      <3> HIDE DEF old, new
      <3>3. /\ Total(Items, new) = Total(Items, old) - old[f] + new[f]
            /\ Total(Items, old) \in Nat
        BY <1>2, <3>1, <3>2, FindingsConstants, TotalUpdate
      <3>4. QED
        BY <3>2, <3>3 DEF ListedOf, old, new
    <2>2. \A k \in Kinds : Twice(k)' = Twice(k)
      BY <1>1 DEF Twice
    <2>3. ASSUME NEW k \in Kinds
          PROVE  ListedOf(k, listed)' = stats'[k] + (IF Ended' THEN Twice(k)' ELSE 0)
      <3>1. ListedOf(k, listed)' = ListedOf(k, listed')
        BY DEF ListedOf, OfKind
      <3>2. ListedOf(k, listed) = stats[k] + (IF Ended THEN Twice(k) ELSE 0)
        BY DEF Tally
      <3>3. stats'[k] = stats[k] + (IF k = KindOf(f) THEN 1 ELSE 0) /\ stats[k] \in Nat
        BY <1>4
      <3>4. Twice(k) \in Nat
        BY Sizes DEF Twice, IInv
      <3>5. Ended' <=> Ended
        BY <1>1 DEF Ended
      <3>6. CASE k = KindOf(f)
        BY <2>1, <2>2, <3>1, <3>2, <3>3, <3>4, <3>5, <3>6
      <3>7. CASE k # KindOf(f)
        BY <2>1, <2>2, <3>1, <3>2, <3>3, <3>4, <3>5, <3>7
      <3>8. QED
        BY <3>6, <3>7
    <2>4. QED
      BY <2>3 DEF Tally
  <1>9. Counted'
    <2> SUFFICES ASSUME Ended PROVE Counted'
      BY <1>1 DEF Counted
    <2>1. a = "scout" /\ scout = "adds"
      BY <1>1 DEF IInv, Waited, Ended, LateOnce, Adders
    <2>2. KindOf(f) = "endpoint" /\ "endpoint" \in Kinds
      <3>1. f \in Endpoints
        BY <1>1, <2>1 DEF LateOnce, Endpoints
      <3>2. f \notin Forms /\ f \notin Pages
        BY <3>1, FindingsConstants
      <3>3. QED
        BY <3>1, <3>2 DEF KindOf, Kinds
    <2>3. /\ Cardinality(work["scout"] \ {f}) = Cardinality(work["scout"]) - 1
          /\ Cardinality(work["scout"]) \in Nat /\ Cardinality(Late) \in Nat
      BY <1>1, <2>1, Sizes, FS_RemoveElement DEF IInv
    <2>4. ToAdd = Cardinality(work["scout"]) /\ ToAdd' = Cardinality(work["scout"]) - 1
      BY <1>1, <1>5, <2>1, <2>3 DEF ToAdd
    <2>5. counted' = counted
      BY <1>1
    <2>6. /\ stats'["endpoint"] = stats["endpoint"] + 1
          /\ stats["endpoint"] \in Nat /\ counted["endpoint"] \in Nat
      BY <1>4, <2>2
    <2>7. stats'["endpoint"] + ToAdd' <= counted["endpoint"] + Cardinality(Late)
      <3>1. stats["endpoint"] + ToAdd <= counted["endpoint"] + Cardinality(Late)
        BY DEF Counted
      <3>2. QED
        BY <2>3, <2>4, <2>6, <3>1
    <2>8. \A k \in Kinds : counted[k] <= stats'[k]
      BY <1>4, <2>2, <2>6 DEF Counted
    <2>9. \A k \in Kinds \ {"endpoint"} : stats'[k] = counted[k]
      BY <1>4, <2>2 DEF Counted
    <2>10. QED
      BY <2>5, <2>7, <2>8, <2>9 DEF Counted
  <1>10. Reported'
    BY <1>1 DEF Reported, ListedOf, OfKind, Twice
  <1>11. QED
    BY <1>6, <1>7, <1>8, <1>9, <1>10

\* What the discoveries found is listed once more, and not counted.
LEMMA FinalizeSStep ==
    ASSUME IInv, SInv, Finalize
    PROVE  SInv'
  <1> USE DEF SInv
  <1>1. /\ main = "wait" /\ main' = "write" /\ counted' = stats /\ listed' = Collected
        /\ UNCHANGED <<active, passive, todo, page, pc, scout, work, stats>>
        /\ ~Ended /\ Ended'
    BY DEF Finalize, probing, crawled, Ended
  <1>2. RootOnce' /\ LateOnce'
    BY <1>1 DEF RootOnce, Visits, LateOnce
  <1>3. /\ passive \subseteq Items /\ active \subseteq Items /\ passive \cap active = {}
        /\ \A f \in passive \cup active : KindOf(f) = "endpoint"
    BY FoundAreItems, FindingsConstants DEF IInv, TypeOK, KindOf, Endpoints
  <1>4. listed \in [Items -> Nat] /\ Collected \in [Items -> Nat]
    BY <1>1, FinalizeStep DEF IInv, TypeOK
  <1>5. ASSUME NEW k \in Kinds
        PROVE  ListedOf(k, listed)' = stats'[k] + Twice(k)'
    <2> DEFINE old == OfKind(k, listed)
               new == OfKind(k, Collected)
               more == IF k = "endpoint" THEN passive \cup active ELSE {}
    <2>1. old \in [Items -> Nat] /\ new \in [Items -> Nat] /\ more \in SUBSET Items
      BY <1>3, <1>4, OfKindType
    <2>2. \A f \in Items : new[f] = IF f \in more THEN old[f] + 1 ELSE old[f]
      <3>1. ASSUME NEW f \in Items
            PROVE  /\ listed[f] \in Nat
                   /\ Collected[f] = IF f \in passive \cup active THEN listed[f] + 1 ELSE listed[f]
        BY <1>3, <1>4 DEF Collected
      <3>2. QED
        BY <1>3, <3>1 DEF OfKind
    <2>3. Cardinality(more) = Twice(k) /\ Twice(k) \in Nat
      <3>1. CASE k = "endpoint"
        <4>1. /\ IsFiniteSet(passive) /\ IsFiniteSet(active)
              /\ Cardinality(passive) \in Nat /\ Cardinality(active) \in Nat
          BY Sizes DEF IInv
        <4>2. Cardinality(passive \cup active)
                = Cardinality(passive) + Cardinality(active) - Cardinality({})
          BY <1>3, <4>1, FS_Union
        <4>3. QED
          BY <3>1, <4>1, <4>2, FS_EmptySet DEF Twice
      <3>2. CASE k # "endpoint"
        BY <3>2, FS_EmptySet DEF Twice
      <3>3. QED
        BY <3>1, <3>2
    <2>4. ListedOf(k, listed) = stats[k]
      BY <1>1 DEF Tally, IInv, TypeOK
    <2>5. ListedOf(k, listed)' = Total(Items, new)
      BY <1>1 DEF ListedOf, OfKind
    <2> HIDE DEF old, new, more
    <2>6. Total(Items, new) = Total(Items, old) + Cardinality(more)
      BY <2>1, <2>2, FindingsConstants, TotalPlus
    <2>7. QED
      BY <1>1, <2>3, <2>4, <2>5, <2>6 DEF ListedOf, old, Twice
  <1>6. Tally'
    BY <1>1, <1>5 DEF Tally
  <1>7. Counted'
    <2>1. \A k \in Kinds : stats[k] \in Nat
      BY DEF IInv, TypeOK
    <2>2. ToAdd' <= Cardinality(Late) /\ ToAdd' \in Nat /\ Cardinality(Late) \in Nat
      BY <1>1, Sizes DEF ToAdd, IInv
    <2>3. "endpoint" \in Kinds
      BY DEF Kinds
    <2>4. QED
      BY <1>1, <2>1, <2>2, <2>3 DEF Counted
  <1>8. Reported'
    BY <1>1 DEF Reported
  <1>9. QED
    BY <1>2, <1>6, <1>7, <1>8

\* The lists are written as they are, with the counters of the end.
LEMMA WriteSStep ==
    ASSUME IInv, SInv, WriteResult
    PROVE  SInv'
  <1> USE DEF SInv
  <1>1. /\ main = "write" /\ main' = "returned" /\ written' = listed
        /\ UNCHANGED <<passive, active, todo, page, pc, scout, work, listed, stats, counted>>
        /\ Ended /\ Ended'
    BY DEF WriteResult, probing, crawled, Ended
  <1>2. RootOnce' /\ LateOnce'
    BY <1>1 DEF RootOnce, Visits, LateOnce
  <1>3. Tally'
    BY <1>1, TallyStays
  <1>4. Counted'
    BY <1>1 DEF Counted, ToAdd
  <1>5. ASSUME NEW k \in Kinds
        PROVE  ListedOf(k, written)' - counted[k] - Twice(k)
                   \in 0 .. (IF k = "endpoint" THEN Cardinality(Late) ELSE 0)
    <2>1. ListedOf(k, written)' = ListedOf(k, listed)
      BY <1>1 DEF ListedOf, OfKind
    <2>2. ListedOf(k, listed) = stats[k] + Twice(k)
      BY <1>1 DEF Tally
    <2>3. stats[k] \in Nat /\ counted[k] \in Nat
      BY DEF IInv, TypeOK
    <2>4. Twice(k) \in Nat /\ Cardinality(Late) \in Nat /\ ToAdd \in Nat
      BY Sizes DEF Twice, ToAdd, IInv
    <2>5. counted[k] <= stats[k] /\ (k # "endpoint" => stats[k] = counted[k])
      BY <1>1 DEF Counted
    <2>6. k = "endpoint" => stats[k] + ToAdd <= counted[k] + Cardinality(Late)
      BY <1>1 DEF Counted
    <2>7. CASE k = "endpoint"
      BY <2>1, <2>2, <2>3, <2>4, <2>5, <2>6, <2>7
    <2>8. CASE k # "endpoint"
      BY <2>1, <2>2, <2>3, <2>4, <2>5, <2>8
    <2>9. QED
      BY <2>7, <2>8
  <1>6. Reported'
    BY <1>1, <1>5 DEF Reported, Twice
  <1>7. QED
    BY <1>2, <1>3, <1>4, <1>6

\* Types, and the bound on probes, for any paths, pages and workers.
THEOREM TypeCorrect == Spec => []TypeOK
  <1>1. IInv => TypeOK
    BY DEF IInv
  <1>2. QED
    BY <1>1, Invariance, PTL

\* Whatever is found before the end is written.
THEOREM ReportCompleteAlways == Spec => []ReportComplete
  <1>1. IInv => ReportComplete
    BY DEF IInv
  <1>2. QED
    BY <1>1, Invariance, PTL

\* However many workers see a request, one of them reports it.
THEOREM PassiveOnceAlways == Spec => []PassiveOnce
  <1>1. IInv => PassiveOnce
    BY DEF IInv
  <1>2. QED
    BY <1>1, Invariance, PTL

\* A page is skipped only for one with the same content that is reported.
THEOREM ContentKeptAlways == Spec => []ContentKept
  <1>1. IInv => ContentKept
    BY DEF IInv, Originals
  <1>2. QED
    BY <1>1, Invariance, PTL

\* The counters in the report are those of its lists, but for what the
\* discoveries and the background discovery list without being counted.
THEOREM StatsMatchAlways == Spec => []StatsMatch
  <1>1. SInv => StatsMatch
    BY DEF SInv, Tally, Reported, StatsMatch
  <1>2. IInv /\ SInv /\ [Next]_vars => SInv'
    BY WorkerSStep, BeginSStep, QuietSStep, AddSStep, FinalizeSStep, WriteSStep DEF Next, End
  <1>3. QED
    BY <1>1, <1>2, InitSInv, Invariance, PTL DEF Spec
===============================================================================
