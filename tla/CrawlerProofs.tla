----------------------------- MODULE CrawlerProofs -----------------------------
(***************************************************************************)
(* Crawler for any site, any number of workers and any batch size: types,  *)
(* what the workers' exits leave behind, that every link found is dealt    *)
(* with, and when a page is crawled twice.                                 *)
(***************************************************************************)
EXTENDS Crawler, FiniteSetTheorems, TLAPS

\* The sets that are counted are finite.
FiniteQueue ==
    /\ IsFiniteSet(queued)
    /\ \A a \in Actors : IsFiniteSet(coming[a])
    /\ \A w \in Workers : IsFiniteSet(hold[w])

-------------------------------------------------------------------------------
(* The operators.                                                           *)

LEMMA ItemFields ==
    ASSUME NEW u \in URLs, NEW d \in Depths
    PROVE  Item(u, d) \in Items /\ Item(u, d).url = u /\ Item(u, d).depth = d
  BY DEF Item, Items

\* ItemsAt yields one item, at the given depth, for each URL in scope there.
LEMMA ItemsAtFacts ==
    ASSUME NEW us \in SUBSET URLs, NEW d \in Nat
    PROVE  /\ ItemsAt(us, d) \subseteq Items
           /\ \A i \in ItemsAt(us, d) :
                 i.url \in us /\ i.depth = d /\ InScope(i.url, i.depth)
           /\ \A u \in us : InScope(u, d) => \E i \in ItemsAt(us, d) : i.url = u
  <1>1. (\E u \in us : InScope(u, d)) => d \in Depths
    BY CrawlerConstants DEF InScope, Depths
  <1>2. \A u \in us : InScope(u, d) => Item(u, d) \in Items /\ Item(u, d).url = u /\ Item(u, d).depth = d
    BY <1>1, ItemFields
  <1>3. QED
    BY <1>2 DEF ItemsAt

LEMMA DepthsAreNat == Depths \subseteq Nat /\ 0 \in Depths
  BY CrawlerConstants DEF Depths

-------------------------------------------------------------------------------
(* Types.                                                                   *)

\* A worker whose count reaches the limit has gone.
Patient == \A w \in Workers : pc[w] # "done" => empties[w] < MaxEmpty

Typed == TypeOK /\ FiniteQueue

LEMMA InitTyped == Init => Typed /\ Patient
  <1> SUFFICES ASSUME Init PROVE Typed /\ Patient
    OBVIOUS
  <1> DEFINE inScope == {u \in Sitemap : InScope(u, 1)}
  <1>1. PICK us \in SUBSET inScope :
          /\ queued = us \/ queued = us \cup {Target}
          /\ depth = [u \in URLs |-> IF u \in us THEN 1 ELSE 0]
    BY DEF Init
  <1>2. IsFiniteSet(queued)
    BY <1>1, CrawlerConstants, FS_Subset, FS_AddElement
  <1>3. len \in Int
    BY <1>2, FS_CardinalityType DEF Init
  <1>4. depth \in [URLs -> Depths]
    <2>1. \A u \in us : 1 \in Depths
      BY <1>1, CrawlerConstants DEF InScope, Depths
    <2>2. QED
      BY <1>1, <2>1, DepthsAreNat
  <1>5. queued \subseteq URLs
    BY <1>1, CrawlerConstants
  <1>6. Q!TypeOK
    BY <1>5 DEF Init, Q!TypeOK
  <1>7. /\ visited \subseteq URLs /\ cancelled \in BOOLEAN /\ pc \in [Actors -> Labels]
        /\ hold \in [Workers -> SUBSET Items] /\ dropped \subseteq URLs
    BY CrawlerConstants DEF Init, Labels
  <1>8. empties \in [Workers -> 0 .. MaxEmpty] /\ added \in [Actors -> Nat]
    BY CrawlerConstants DEF Init
  <1>9. cur \in [Workers -> Items]
    BY CrawlerConstants, DepthsAreNat, ItemFields DEF Init
  <1>10. /\ checked \in [Actors -> SUBSET Items] /\ found \in [Actors -> SUBSET Items]
         /\ out \in [Actors -> SUBSET Items] /\ expanded \subseteq Items
         /\ crawls \in [Workers -> SUBSET URLs] /\ raced \in [Workers -> SUBSET URLs]
    BY DEF Init
  <1>11. FiniteQueue
    BY <1>2, FS_EmptySet DEF Init, FiniteQueue
  <1>12. Patient
    BY CrawlerConstants DEF Init, Patient
  <1>13. QED
    BY <1>3, <1>4, <1>6, <1>7, <1>8, <1>9, <1>10, <1>11, <1>12 DEF Typed, TypeOK

\* What PopBatch does.
LEMMA PopTyped ==
    ASSUME Typed, NEW w \in Workers
    PROVE  /\ Poll(w) \/ EndScan(w) \/ EndPop(w) => Typed'
           /\ \A us \in SUBSET queued : Take(w, us) => Typed'
           /\ \A u \in taken[w] : Release(w, u) => Typed'
  <1> USE DEF Typed, Goto, queueVars, popVars, pushVars, ghosts
  <1>0. w \in Actors /\ Workers \subseteq Actors
    BY DEF Actors
  <1>1. CASE Poll(w)
    <2>1. Q!TypeOK'
      BY <1>1, CrawlerConstants DEF Poll, Q!BeginPop, TypeOK, Q!TypeOK
    <2>2. UNCHANGED <<queued, coming, taken>>
      BY <1>1 DEF Poll, Q!BeginPop
    <2>3. QED
      BY <1>0, <1>1, <2>1, <2>2 DEF Poll, TypeOK, FiniteQueue, Labels
  <1>2. CASE EndScan(w)
    <2>1. Q!TypeOK' /\ UNCHANGED <<queued, coming, taken>>
      BY <1>2 DEF EndScan, Q!EndShort, TypeOK, Q!TypeOK
    <2>2. QED
      BY <1>0, <1>2, <2>1 DEF EndScan, TypeOK, FiniteQueue, Labels
  <1>3. CASE EndPop(w)
    <2>1. Cardinality(hold[w]) \in Int
      BY FS_CardinalityType DEF FiniteQueue
    <2>2. len' \in Int
      BY <1>3, <2>1 DEF EndPop, TypeOK
    <2>3. empties' \in [Workers -> 0 .. MaxEmpty]
      BY <1>3, CrawlerConstants DEF EndPop, TypeOK
    <2>4. pc' \in [Actors -> Labels]
      BY <1>3 DEF EndPop, TypeOK, Labels
    <2>5. QED
      BY <1>3, <2>2, <2>3, <2>4 DEF EndPop, TypeOK, Q!TypeOK, FiniteQueue
  <1>4. ASSUME NEW us \in SUBSET queued, Take(w, us)
        PROVE  Typed'
    <2> DEFINE items == {Item(u, depth[u]) : u \in us}
    <2>1. items \subseteq Items
      BY ItemFields DEF TypeOK, Q!TypeOK
    <2>2. IsFiniteSet(us) /\ Cardinality(us) \in Nat
      BY FS_Subset, FS_CardinalityType DEF FiniteQueue
    <2>3. IsFiniteSet(items)
      <3> DEFINE item == [u \in us |-> Item(u, depth[u])]
      <3>1. items = {item[u] : u \in us}
        OBVIOUS
      <3>2. item \in Surjection(us, items)
        BY DEF Surjection
      <3>3. QED
        BY <2>2, <3>2, FS_Surjection
    <2>4. FiniteQueue'
      <3>1. IsFiniteSet(queued \ us)
        BY FS_Subset DEF FiniteQueue
      <3>2. IsFiniteSet(hold[w] \cup items)
        BY <2>3, FS_Union DEF FiniteQueue
      <3>3. hold' = [hold EXCEPT ![w] = hold[w] \cup items]
        BY <1>4 DEF Take
      <3>4. queued' = queued \ us /\ coming' = coming
        BY <1>4 DEF Take, Q!Take
      <3>5. QED
        BY <3>1, <3>2, <3>3, <3>4 DEF FiniteQueue, TypeOK
    <2>5. Q!TypeOK'
      <3>1. room' = [room EXCEPT ![w] = @ - Cardinality(us)] /\ Cardinality(us) <= room[w]
        BY <1>4 DEF Take, Q!Take, Q!Cardinality, Cardinality
      <3>2. room[w] \in Nat
        BY <1>0 DEF TypeOK, Q!TypeOK
      <3>3. room[w] - Cardinality(us) \in Nat
        BY <2>2, <3>1, <3>2
      <3>4. room' \in [Actors -> Nat]
        BY <3>1, <3>3 DEF TypeOK, Q!TypeOK
      <3>5. due' \in [Actors -> SUBSET URLs]
        BY <1>4 DEF Take, Q!Take, TypeOK, Q!TypeOK
      <3>6. QED
        BY <1>4, <3>4, <3>5 DEF Take, Q!Take, TypeOK, Q!TypeOK
    <2>6. depth' \in [URLs -> Depths]
      BY <1>4, DepthsAreNat DEF Take, TypeOK
    <2>7. hold' \in [Workers -> SUBSET Items]
      BY <1>4, <2>1 DEF Take, TypeOK
    <2>8. QED
      BY <1>0, <1>4, <2>4, <2>5, <2>6, <2>7 DEF Take, TypeOK, Labels
  <1>5. ASSUME NEW u \in taken[w], Release(w, u)
        PROVE  Typed'
    BY <1>5 DEF Release, Q!Release, TypeOK, Q!TypeOK, FiniteQueue
  <1>6. QED
    BY <1>1, <1>2, <1>3, <1>4, <1>5

\* What a worker does between its batches and to its items.
LEMMA WorkTyped ==
    ASSUME Typed, Patient, NEW w \in Workers, Work(w) \/ Fetch(w)
    PROVE  Typed'
  <1> USE DEF Typed, Goto, queueVars, popVars, pushVars, ghosts
  <1>0. w \in Actors /\ Scout \in Actors /\ Workers \subseteq Actors
    BY DEF Actors
  <1>1. CASE CheckEmpty(w)
    <2>1. empties' \in [Workers -> 0 .. MaxEmpty]
      <3>1. empties[w] < MaxEmpty /\ empties[w] \in Nat
        BY <1>1, CrawlerConstants DEF CheckEmpty, TypeOK, Patient
      <3>2. empties' \in {[empties EXCEPT ![w] = empties[w] + 1], [empties EXCEPT ![w] = empties[w]]}
        BY <1>1 DEF CheckEmpty
      <3>3. empties[w] + 1 \in 0 .. MaxEmpty /\ empties[w] \in 0 .. MaxEmpty
        BY <3>1, CrawlerConstants
      <3>4. QED
        BY <3>2, <3>3 DEF TypeOK
    <2>2. QED
      BY <1>0, <1>1, <2>1 DEF CheckEmpty, TypeOK, Q!TypeOK, FiniteQueue, Labels
  <1>2. CASE Abandon(w)
    <2>1. FiniteQueue'
      BY <1>2, FS_EmptySet DEF Abandon, FiniteQueue, TypeOK
    <2>2. QED
      BY <1>0, <1>2, <2>1 DEF Abandon, TypeOK, Q!TypeOK, Labels
  <1>3. CASE Consider(w)
    <2>1. PICK i \in hold[w] :
            /\ hold' = [hold EXCEPT ![w] = @ \ {i}]
            /\ \/ cur' = [cur EXCEPT ![w] = i] /\ pc' = [pc EXCEPT ![w] = "limit"]
               \/ UNCHANGED <<cur, pc>>
      BY <1>3 DEF Consider
    <2>2. IsFiniteSet(hold[w] \ {i})
      BY FS_Subset DEF FiniteQueue
    <2>3. FiniteQueue'
      BY <1>3, <2>1, <2>2 DEF Consider, FiniteQueue, TypeOK
    <2>4. i \in Items
      BY DEF TypeOK
    <2>5. QED
      BY <1>0, <1>3, <2>1, <2>3, <2>4 DEF Consider, TypeOK, Q!TypeOK, Labels
  <1>4. CASE LimiterFails(w) \/ FetchNothing(w)
    BY <1>0, <1>4 DEF LimiterFails, FetchNothing, TypeOK, Q!TypeOK, FiniteQueue, Labels
  <1>5. CASE Mark(w)
    <2>1. cur[w].url \in URLs /\ Norm[cur[w].url] \in URLs
      BY CrawlerConstants DEF TypeOK, Items
    <2>2. PICK us \in SUBSET URLs : Marked(w, us)
      BY <1>5, <2>1 DEF Mark
    <2>3. crawls' \in [Workers -> SUBSET URLs] /\ raced' \in [Workers -> SUBSET URLs]
      BY <2>2 DEF Marked, TypeOK
    <2>4. visited' \subseteq URLs /\ pc' \in [Actors -> Labels]
      BY <1>0, <1>5, <2>1 DEF Mark, TypeOK, Labels
    <2>5. QED
      BY <1>5, <2>3, <2>4 DEF Mark, TypeOK, Q!TypeOK, FiniteQueue
  <1>6. CASE FetchPage(w)
    <2>0. cur[w] \in Items /\ cur[w].url \in URLs /\ cur[w].depth \in Nat
      BY DepthsAreNat DEF TypeOK, Items
    <2>1. cur[w].depth + 1 \in Nat
      BY <2>0
    <2>2. /\ ItemsAt(Links[cur[w].url], cur[w].depth + 1) \subseteq Items
          /\ ItemsAt(Dynamic[cur[w].url], cur[w].depth + 1) \subseteq Items
          /\ ItemsAt(Extra, 2) \subseteq Items
      BY <2>0, <2>1, ItemsAtFacts, CrawlerConstants
    <2>3. checked' \in [Actors -> SUBSET Items] /\ found' \in [Actors -> SUBSET Items]
      BY <1>6, <2>2 DEF FetchPage, TypeOK
    <2>4. pc' \in [Actors -> Labels] /\ expanded' \subseteq Items
      BY <1>6, <2>0 DEF FetchPage, TypeOK, Labels
    <2>5. QED
      BY <1>6, <2>3, <2>4 DEF FetchPage, TypeOK, Q!TypeOK, FiniteQueue
  <1>7. QED
    BY <1>1, <1>2, <1>3, <1>4, <1>5, <1>6, PopTyped DEF Work, Fetch

LEMMA PushingTyped ==
    ASSUME Typed, NEW a \in Actors, Pushing(a)
    PROVE  Typed'
  <1> USE DEF Typed, Goto, queueVars, popVars, pushVars, ghosts
  <1>1. CASE PushChecked(a)
    <2>1. PICK i \in checked[a] :
            /\ checked' = [checked EXCEPT ![a] = @ \ {i}]
            /\ \/ UNCHANGED <<out, pc>>
               \/ out' = [out EXCEPT ![a] = {i}] /\ pc' = [pc EXCEPT ![a] = "push"]
      BY <1>1 DEF PushChecked
    <2>2. QED
      BY <1>1, <2>1 DEF PushChecked, TypeOK, Q!TypeOK, FiniteQueue, Labels
  <1>2. CASE PushFound(a)
    BY <1>2 DEF PushFound, TypeOK, Q!TypeOK, FiniteQueue, Labels
  <1>3. CASE EndLinks(a)
    BY <1>3 DEF EndLinks, TypeOK, Q!TypeOK, FiniteQueue, Labels
  <1>4. CASE EndPush(a)
    BY <1>4 DEF EndPush, TypeOK, Q!TypeOK, FiniteQueue, Labels
  <1>5. CASE CheckCapacity(a)
    <2>1. {i.url : i \in out[a]} \subseteq URLs
      BY DEF TypeOK, Items
    <2>2. dropped' \subseteq URLs /\ out' \in [Actors -> SUBSET Items] /\ pc' \in [Actors -> Labels]
      BY <1>5, <2>1 DEF CheckCapacity, TypeOK, Labels
    <2>3. QED
      BY <1>5, <2>2 DEF CheckCapacity, TypeOK, Q!TypeOK, FiniteQueue
  <1>6. ASSUME NEW i \in out[a], Accept(a, i)
        PROVE  Typed'
    <2>1. i \in Items /\ i.url \in URLs /\ i.depth \in Depths
      BY DEF TypeOK, Items
    <2>2. coming' = [coming EXCEPT ![a] = @ \cup {i.url}] /\ UNCHANGED <<queued, popVars>>
      BY <1>6 DEF Accept, Q!Accept
    <2>3. IsFiniteSet(coming[a] \cup {i.url})
      BY FS_AddElement DEF FiniteQueue
    <2>4. FiniteQueue' /\ Q!TypeOK'
      BY <1>6, <2>1, <2>2, <2>3 DEF Accept, FiniteQueue, TypeOK, Q!TypeOK
    <2>5. pc' \in [Actors -> Labels] /\ depth' \in [URLs -> Depths] /\ added' \in [Actors -> Nat]
      BY <1>6, <2>1 DEF Accept, TypeOK, Labels
    <2>6. out' \in [Actors -> SUBSET Items]
      BY <1>6 DEF Accept, TypeOK
    <2>7. QED
      BY <1>6, <2>4, <2>5, <2>6 DEF Accept, TypeOK
  <1>7. ASSUME NEW i \in out[a], Duplicate(a, i)
        PROVE  Typed'
    BY <1>7 DEF Duplicate, TypeOK, Q!TypeOK, FiniteQueue, Labels
  <1>8. ASSUME NEW us \in SUBSET coming[a], Land(a, us)
        PROVE  Typed'
    <2>1. /\ queued' = queued \cup us /\ coming' = [coming EXCEPT ![a] = @ \ us]
          /\ UNCHANGED <<taken, room, due>>
      BY <1>8 DEF Land, Q!Land, TypeOK, Q!TypeOK
    <2>2. IsFiniteSet(queued \cup us) /\ IsFiniteSet(coming[a] \ us)
      BY FS_Subset, FS_Union DEF FiniteQueue
    <2>3. FiniteQueue' /\ Q!TypeOK'
      BY <1>8, <2>1, <2>2 DEF Land, FiniteQueue, TypeOK, Q!TypeOK
    <2>4. QED
      BY <1>8, <2>3 DEF Land, TypeOK
  <1>9. QED
    BY <1>1, <1>2, <1>3, <1>4, <1>5, <1>6, <1>7, <1>8 DEF Pushing

LEMMA StepTyped == Typed /\ Patient /\ [Next]_vars => Typed'
  <1>1. Typed /\ Interrupt => Typed'
    BY DEF Typed, TypeOK, Q!TypeOK, FiniteQueue, Interrupt, queueVars, popVars, pushVars, ghosts
  <1>2. Typed /\ UNCHANGED vars => Typed'
    BY DEF Typed, TypeOK, Q!TypeOK, FiniteQueue, vars, queueVars, popVars, pushVars, ghosts
  <1>3. QED
    BY <1>1, <1>2, WorkTyped, PushingTyped DEF Next

LEMMA StepPatient == Typed /\ Patient /\ [Next]_vars => Patient'
  <1> SUFFICES ASSUME Typed, Patient, [Next]_vars PROVE Patient'
    OBVIOUS
  <1> USE DEF Typed, Patient, Goto, queueVars, popVars, pushVars, ghosts
  <1>1. ASSUME NEW w \in Workers, Work(w) \/ Fetch(w)
        PROVE  Patient'
    <2>1. CASE EndPop(w)
      BY <2>1, CrawlerConstants DEF EndPop, TypeOK
    <2>2. CASE CheckEmpty(w)
      <3> DEFINE n == IF len = 0 THEN empties[w] + 1 ELSE empties[w]
      <3>1. empties' = [empties EXCEPT ![w] = n] /\ pc' = [pc EXCEPT ![w] = IF n >= MaxEmpty THEN "done" ELSE "next"]
        BY <2>2 DEF CheckEmpty
      <3>2. n \in Nat
        BY DEF TypeOK
      <3>3. \A v \in Workers : v # w => empties'[v] = empties[v] /\ pc'[v] = pc[v]
        BY <3>1 DEF TypeOK, Actors
      <3>4. empties'[w] = n /\ pc'[w] = IF n >= MaxEmpty THEN "done" ELSE "next"
        BY <3>1 DEF TypeOK, Actors
      <3> HIDE DEF n
      <3>5. QED
        BY <3>2, <3>3, <3>4, CrawlerConstants
    <2>3. CASE Poll(w) \/ EndScan(w) \/ Abandon(w) \/ LimiterFails(w) \/ FetchNothing(w)
      BY <2>3 DEF Poll, EndScan, Abandon, LimiterFails, FetchNothing, TypeOK, Actors
    <2>4. CASE Consider(w) \/ Mark(w) \/ FetchPage(w)
      BY <2>4 DEF Consider, Mark, FetchPage, TypeOK, Actors
    <2>5. ASSUME NEW us \in SUBSET queued, Take(w, us)
          PROVE  Patient'
      BY <2>5 DEF Take
    <2>6. ASSUME NEW u \in taken[w], Release(w, u)
          PROVE  Patient'
      BY <2>6 DEF Release
    <2>7. QED
      BY <1>1, <2>1, <2>2, <2>3, <2>4, <2>5, <2>6 DEF Work, Fetch
  <1>2. ASSUME NEW a \in Actors, Pushing(a)
        PROVE  Patient'
    BY <1>2 DEF Pushing, PushChecked, PushFound, EndLinks, CheckCapacity, Accept, Duplicate, Land,
                EndPush, TypeOK, Actors
  <1>3. CASE Interrupt \/ UNCHANGED vars
    BY <1>3 DEF Interrupt, vars
  <1>4. QED
    BY <1>1, <1>2, <1>3 DEF Next

-------------------------------------------------------------------------------
(* Where items can be.                                                      *)

\* Only a pushing goroutine has items to push, the background discovery pushes
\* what is in Extra, and a worker that goes idle has no items.
HandsFree ==
    /\ pc[Scout] \in {"off", "links", "push", "reserve", "flush", "done"}
    /\ found[Scout] = {} /\ taken[Scout] = {}
    /\ coming[Scout] \cup {i.url : i \in checked[Scout] \cup out[Scout]} \subseteq Extra
    /\ \A a \in Actors :
        /\ pc[a] \notin {"links", "push", "reserve", "flush"} => checked[a] = {} /\ found[a] = {}
        /\ pc[a] \notin {"push", "reserve"} => out[a] = {}
        /\ pc[a] \notin {"push", "reserve", "flush"} => coming[a] = {}
    /\ \A w \in Workers : pc[w] \in {"empty", "done"} => hold[w] = {}

\* A scan that has taken nothing has room, and what PopBatch has removed and
\* still reserves is in its caller's batch.
TakenIsHeld ==
    \A w \in Workers :
        /\ pc[w] = "scan" /\ hold[w] = {} => room[w] > 0
        /\ \A u \in taken[w] : pc[w] \in {"scan", "release"} /\ \E i \in hold[w] : i.url = u

\* An item on its way is in scope at its depth, unless it is a target that no
\* pattern allows.
Fits(i) == i.url \in Allowed => InScope(i.url, i.depth)
ItemsFit ==
    /\ \A u \in queued \cup Q!Coming : Fits(Item(u, depth[u]))
    /\ \A w \in Workers : \A i \in hold[w] : Fits(i)
    /\ \A a \in Actors : \A i \in checked[a] \cup found[a] \cup out[a] : Fits(i)

Places == HandsFree /\ TakenIsHeld /\ ItemsFit

LEMMA InitPlaces == Init => Places
  <1> SUFFICES ASSUME Init PROVE Places
    OBVIOUS
  <1>0. Scout \in Actors /\ Workers \subseteq Actors
    BY DEF Actors
  <1>1. HandsFree /\ TakenIsHeld
    BY <1>0, CrawlerConstants DEF Init, HandsFree, TakenIsHeld
  <1>2. \A u \in queued : Fits(Item(u, depth[u]))
    <2>1. SUFFICES ASSUME NEW u \in queued, u \in Allowed
                   PROVE  InScope(u, depth[u])
      BY DEF Fits, Item
    <2> DEFINE inScope == {v \in Sitemap : InScope(v, 1)}
    <2>2. PICK us \in SUBSET inScope :
            /\ queued = us \/ queued = us \cup {Target}
            /\ depth = [v \in URLs |-> IF v \in us THEN 1 ELSE 0]
      BY DEF Init
    <2>3. u \in URLs
      BY <2>2, CrawlerConstants
    <2>4. depth[u] = IF u \in us THEN 1 ELSE 0
      BY <2>2, <2>3
    <2>5. u \in us => InScope(u, 1)
      BY <2>2
    <2>6. InScope(u, 0)
      BY <2>1, CrawlerConstants DEF InScope
    <2>7. QED
      BY <2>4, <2>5, <2>6
  <1>3. Q!Coming = {}
    BY DEF Init, Q!Coming
  <1>4. QED
    BY <1>0, <1>1, <1>2, <1>3 DEF Init, Places, ItemsFit

\* The URLs on their way change only with coming.
LEMMA ComingOf ==
    /\ UNCHANGED coming => Q!Coming' = Q!Coming
    /\ \A a \in Actors : coming[a] \subseteq Q!Coming
  BY DEF Q!Coming

\* Steps that leave what a worker holds alone, and what it pushes.
LEMMA PopPlaces ==
    ASSUME Typed, Places, NEW w \in Workers
    PROVE  /\ Poll(w) \/ EndScan(w) \/ EndPop(w) => Places'
           /\ \A us \in SUBSET queued : Take(w, us) => Places'
           /\ \A u \in taken[w] : Release(w, u) => Places'
  <1> USE DEF Typed, Places, Goto, queueVars, popVars, pushVars, ghosts
  <1>0. w \in Actors /\ Scout \in Actors /\ w # Scout /\ Workers \subseteq Actors
    BY CrawlerConstants DEF Actors
  <1>1. CASE Poll(w)
    <2>1. /\ UNCHANGED <<queued, coming, taken, depth, hold, checked, found, out>>
          /\ \A a \in Actors : a # w => pc'[a] = pc[a] /\ room'[a] = room[a]
          /\ pc[w] = "next" /\ hold[w] = {}
          /\ pc'[w] = "done" \/ (pc'[w] = "scan" /\ room'[w] = BatchSize)
      BY <1>0, <1>1 DEF Poll, Q!BeginPop, TypeOK, Q!TypeOK
    <2>2. HandsFree'
      BY <1>0, <2>1 DEF HandsFree
    <2>3. TakenIsHeld'
      BY <1>0, <2>1, CrawlerConstants DEF TakenIsHeld
    <2>4. ItemsFit'
      BY <2>1, ComingOf DEF ItemsFit
    <2>5. QED
      BY <2>2, <2>3, <2>4
  <1>2. CASE EndScan(w)
    <2>1. /\ UNCHANGED <<queued, coming, taken, depth, hold, checked, found, out>>
          /\ \A a \in Actors : a # w => pc'[a] = pc[a] /\ room'[a] = room[a]
          /\ pc[w] = "scan" /\ pc'[w] = IF hold[w] = {} THEN "empty" ELSE "release"
      BY <1>0, <1>2 DEF EndScan, Q!EndShort, TypeOK, Q!TypeOK
    <2>2. HandsFree'
      BY <1>0, <2>1 DEF HandsFree
    <2>3. TakenIsHeld'
      BY <1>0, <2>1 DEF TakenIsHeld
    <2>4. ItemsFit'
      BY <2>1, ComingOf DEF ItemsFit
    <2>5. QED
      BY <2>2, <2>3, <2>4
  <1>3. CASE EndPop(w)
    <2>1. /\ UNCHANGED <<queued, coming, taken, room, depth, hold, checked, found, out>>
          /\ \A a \in Actors : a # w => pc'[a] = pc[a]
          /\ pc[w] = "release" /\ pc'[w] = "next" /\ taken[w] = {}
      BY <1>0, <1>3 DEF EndPop, TypeOK
    <2>2. HandsFree'
      BY <1>0, <2>1 DEF HandsFree
    <2>3. TakenIsHeld'
      BY <1>0, <2>1 DEF TakenIsHeld
    <2>4. ItemsFit'
      BY <2>1, ComingOf DEF ItemsFit
    <2>5. QED
      BY <2>2, <2>3, <2>4
  <1>4. ASSUME NEW us \in SUBSET queued, Take(w, us)
        PROVE  Places'
    <2>1. /\ hold'[w] = hold[w] \cup {Item(u, depth[u]) : u \in us} /\ taken'[w] = taken[w] \cup us
          /\ \A a \in Actors : a # w => taken'[a] = taken[a] /\ room'[a] = room[a]
          /\ \A v \in Workers : v # w => hold'[v] = hold[v]
          /\ queued' = queued \ us /\ UNCHANGED <<coming, checked, found, out, pc>>
          /\ pc[w] = "scan" /\ us # {}
      BY <1>0, <1>4 DEF Take, Q!Take, TypeOK, Q!TypeOK
    <2>2. HandsFree'
      BY <1>0, <2>1 DEF HandsFree
    <2>3. TakenIsHeld'
      <3>1. \A u \in us : Item(u, depth[u]).url = u /\ Item(u, depth[u]) \in hold'[w]
        BY <2>1 DEF Item
      <3>2. hold'[w] # {} /\ hold[w] \subseteq hold'[w]
        BY <2>1, <3>1
      <3>3. \A u \in taken'[w] : \E i \in hold'[w] : i.url = u
        BY <2>1, <3>1, <3>2 DEF TakenIsHeld
      <3>4. QED
        BY <1>0, <2>1, <3>2, <3>3 DEF TakenIsHeld
    <2>4. ItemsFit'
      <3>1. ASSUME NEW u \in queued' \cup Q!Coming'
            PROVE  Fits(Item(u, depth'[u]))
        <4>1. u \in URLs /\ u \in queued \cup Q!Coming
          BY <2>1, ComingOf DEF TypeOK, Q!TypeOK, Q!Coming
        <4>2. depth'[u] = depth[u] \/ depth'[u] = 0
          BY <1>4, <4>1 DEF Take
        <4>3. Fits(Item(u, 0))
          BY CrawlerConstants DEF Fits, Item, InScope
        <4>4. QED
          BY <4>1, <4>2, <4>3 DEF ItemsFit
      <3>2. \A i \in hold'[w] : Fits(i)
        BY <2>1 DEF ItemsFit
      <3>3. QED
        BY <2>1, <3>1, <3>2 DEF ItemsFit, Fits
    <2>5. QED
      BY <2>2, <2>3, <2>4
  <1>5. ASSUME NEW u \in taken[w], Release(w, u)
        PROVE  Places'
    <2>1. /\ \A a \in Actors : taken'[a] \subseteq taken[a]
          /\ UNCHANGED <<queued, coming, room, depth, hold, checked, found, out, pc>>
      BY <1>5 DEF Release, Q!Release, TypeOK, Q!TypeOK
    <2>2. HandsFree'
      BY <1>0, <2>1 DEF HandsFree
    <2>3. TakenIsHeld'
      BY <1>0, <2>1 DEF TakenIsHeld
    <2>4. ItemsFit'
      BY <2>1, ComingOf DEF ItemsFit
    <2>5. QED
      BY <2>2, <2>3, <2>4
  <1>6. QED
    BY <1>1, <1>2, <1>3, <1>4, <1>5

LEMMA WorkPlaces ==
    ASSUME Typed, Places, NEW w \in Workers, Work(w) \/ Fetch(w)
    PROVE  Places'
  <1> USE DEF Typed, Places, Goto, queueVars, popVars, pushVars, ghosts
  <1>0. w \in Actors /\ Scout \in Actors /\ w # Scout /\ Workers \subseteq Actors
    BY CrawlerConstants DEF Actors
  <1>1. CASE CheckEmpty(w) \/ LimiterFails(w) \/ Mark(w) \/ FetchNothing(w) \/ Abandon(w) \/ Consider(w)
    <2>1. /\ UNCHANGED <<queued, coming, taken, room, depth, checked, found, out>>
          /\ \A a \in Actors : a # w => pc'[a] = pc[a]
          /\ \A v \in Workers : v # w => hold'[v] = hold[v]
      BY <1>0, <1>1 DEF CheckEmpty, LimiterFails, Mark, FetchNothing, Abandon, Consider, TypeOK
    <2>2. /\ pc[w] \in {"empty", "limit", "fetch", "next"}
          /\ pc'[w] \in {"next", "done", "fetch", "limit"}
          /\ hold'[w] \subseteq hold[w]
          /\ pc'[w] = "done" => hold'[w] = {}
      BY <1>0, <1>1 DEF CheckEmpty, LimiterFails, Mark, FetchNothing, Abandon, Consider, TypeOK, HandsFree
    <2>3. HandsFree'
      BY <1>0, <2>1, <2>2 DEF HandsFree
    <2>4. TakenIsHeld'
      BY <1>0, <2>1, <2>2 DEF TakenIsHeld
    <2>5. ItemsFit'
      BY <2>1, <2>2, ComingOf DEF ItemsFit, Fits
    <2>6. QED
      BY <2>3, <2>4, <2>5
  <1>2. CASE FetchPage(w)
    <2>1. cur[w].url \in URLs /\ cur[w].depth \in Nat
      BY DepthsAreNat DEF TypeOK, Items
    <2>2. cur[w].depth + 1 \in Nat
      BY <2>1
    <2> DEFINE scouts == cur[w].depth = 0 /\ pc[Scout] = "off"
    <2>3. /\ \A i \in ItemsAt(Links[cur[w].url], cur[w].depth + 1) : Fits(i)
          /\ \A i \in ItemsAt(Dynamic[cur[w].url], cur[w].depth + 1) : Fits(i)
          /\ \A i \in ItemsAt(Extra, 2) : Fits(i) /\ i.url \in Extra
      <3>1. \A us \in SUBSET URLs, d \in Nat : \A i \in ItemsAt(us, d) : Fits(i) /\ i.url \in us
        BY ItemsAtFacts DEF Fits
      <3>2. /\ Links[cur[w].url] \in SUBSET URLs /\ Dynamic[cur[w].url] \in SUBSET URLs
            /\ Extra \in SUBSET URLs
        BY <2>1, CrawlerConstants
      <3>3. QED
        BY <2>2, <3>1, <3>2
    <2>4. /\ found'[w] = ItemsAt(Links[cur[w].url], cur[w].depth + 1)
          /\ checked'[w] = ItemsAt(Dynamic[cur[w].url], cur[w].depth + 1)
          /\ pc'[w] = "links" /\ pc[w] = "fetch"
          /\ \A a \in Actors : a # w => found'[a] = found[a]
          /\ \A a \in Actors : a # w /\ a # Scout => checked'[a] = checked[a] /\ pc'[a] = pc[a]
          /\ scouts => checked'[Scout] = ItemsAt(Extra, 2) /\ pc'[Scout] = "links"
          /\ ~scouts => checked'[Scout] = checked[Scout] /\ pc'[Scout] = pc[Scout]
          /\ UNCHANGED <<queued, coming, taken, room, depth, hold, out>>
      BY <1>0, <1>2 DEF FetchPage, TypeOK
    <2> HIDE DEF scouts
    <2>5. HandsFree'
      <3>1. /\ pc'[Scout] \in {"off", "links", "push", "reserve", "flush", "done"}
            /\ found'[Scout] = {} /\ taken'[Scout] = {}
        BY <1>0, <2>4 DEF HandsFree
      <3>2. coming'[Scout] \cup {i.url : i \in checked'[Scout] \cup out'[Scout]} \subseteq Extra
        BY <1>0, <2>3, <2>4 DEF HandsFree
      <3>3. scouts => /\ out[Scout] = {} /\ coming[Scout] = {} /\ checked[Scout] = {}
        BY <1>0 DEF HandsFree, scouts
      <3>4. ASSUME NEW a \in Actors
            PROVE  /\ pc'[a] \notin {"links", "push", "reserve", "flush"} => checked'[a] = {} /\ found'[a] = {}
                   /\ pc'[a] \notin {"push", "reserve"} => out'[a] = {}
                   /\ pc'[a] \notin {"push", "reserve", "flush"} => coming'[a] = {}
        BY <1>0, <2>4, <3>3 DEF HandsFree
      <3>5. \A v \in Workers : pc'[v] \in {"empty", "done"} => hold'[v] = {}
        BY <1>0, <2>4, CrawlerConstants DEF HandsFree
      <3>6. QED
        BY <3>1, <3>2, <3>4, <3>5 DEF HandsFree
    <2>6. TakenIsHeld'
      BY <1>0, <2>4, CrawlerConstants DEF TakenIsHeld
    <2>7. ItemsFit'
      <3>1. \A a \in Actors : \A i \in checked'[a] \cup found'[a] : Fits(i)
        BY <1>0, <2>3, <2>4 DEF ItemsFit
      <3>2. QED
        BY <2>4, <3>1, ComingOf DEF ItemsFit, Fits
    <2>8. QED
      BY <2>5, <2>6, <2>7
  <1>3. QED
    BY <1>1, <1>2, PopPlaces DEF Work, Fetch

LEMMA PushingPlaces ==
    ASSUME Typed, Places, NEW a \in Actors, Pushing(a)
    PROVE  Places'
  <1> USE DEF Typed, Places, Goto, queueVars, popVars, pushVars, ghosts
  <1>0. Scout \in Actors /\ Workers \subseteq Actors /\ Scout \notin Workers
    BY CrawlerConstants DEF Actors
  <1>1. CASE PushChecked(a)
    <2>1. PICK i \in checked[a] :
            /\ checked' = [checked EXCEPT ![a] = @ \ {i}]
            /\ \/ UNCHANGED <<out, pc>>
               \/ out' = [out EXCEPT ![a] = {i}] /\ pc' = [pc EXCEPT ![a] = "push"]
      BY <1>1 DEF PushChecked
    <2>2. UNCHANGED <<queued, coming, taken, room, depth, hold, found>> /\ pc[a] = "links"
      BY <1>1 DEF PushChecked
    <2>3. HandsFree'
      BY <1>0, <2>1, <2>2 DEF HandsFree, TypeOK
    <2>4. TakenIsHeld'
      BY <1>0, <2>1, <2>2 DEF TakenIsHeld, TypeOK
    <2>5. ItemsFit'
      BY <2>1, <2>2, ComingOf DEF ItemsFit, Fits, TypeOK
    <2>6. QED
      BY <2>3, <2>4, <2>5
  <1>2. CASE PushFound(a)
    <2>1. HandsFree'
      BY <1>0, <1>2 DEF PushFound, HandsFree, TypeOK
    <2>2. TakenIsHeld'
      BY <1>0, <1>2 DEF PushFound, TakenIsHeld, TypeOK
    <2>3. ItemsFit'
      BY <1>2, ComingOf DEF PushFound, ItemsFit, Fits, TypeOK
    <2>4. QED
      BY <2>1, <2>2, <2>3
  <1>3. CASE EndLinks(a) \/ EndPush(a)
    <2>1. /\ UNCHANGED <<queued, coming, taken, room, depth, hold, checked, found, out>>
          /\ pc[a] \in {"links", "flush"}
          /\ pc' = [pc EXCEPT ![a] = pc'[a]]
          /\ \/ pc'[a] = "links"
             \/ checked[a] = {} /\ found[a] = {} /\ pc'[a] = IF a = Scout THEN "done" ELSE "next"
          /\ out[a] = {} /\ coming[a] = {}
      BY <1>3 DEF EndLinks, EndPush, TypeOK, HandsFree
    <2>2. hold = hold' /\ (a \in Workers => pc'[a] # "done")
      BY <1>0, <2>1
    <2>3. HandsFree'
      BY <1>0, <2>1, <2>2 DEF HandsFree, TypeOK
    <2>4. TakenIsHeld'
      BY <1>0, <2>1 DEF TakenIsHeld, TypeOK
    <2>5. ItemsFit'
      BY <2>1, ComingOf DEF ItemsFit, Fits
    <2>6. QED
      BY <2>3, <2>4, <2>5
  <1>4. CASE CheckCapacity(a)
    <2>1. /\ UNCHANGED <<queued, coming, taken, room, depth, hold, checked, found>>
          /\ pc[a] = "push" /\ \A b \in Actors : b # a => out'[b] = out[b] /\ pc'[b] = pc[b]
          /\ \/ out'[a] = out[a] /\ pc'[a] = "reserve"
             \/ out'[a] = {} /\ pc'[a] = "flush"
      BY <1>4 DEF CheckCapacity, TypeOK
    <2>2. HandsFree'
      BY <1>0, <2>1 DEF HandsFree
    <2>3. TakenIsHeld'
      BY <1>0, <2>1 DEF TakenIsHeld
    <2>4. ItemsFit'
      BY <2>1, ComingOf DEF ItemsFit, Fits
    <2>5. QED
      BY <2>2, <2>3, <2>4
  <1>5. ASSUME NEW i \in out[a], Accept(a, i)
        PROVE  Places'
    <2>1. /\ coming' = [coming EXCEPT ![a] = @ \cup {i.url}] /\ UNCHANGED <<queued, taken, room>>
          /\ depth' = [depth EXCEPT ![i.url] = i.depth]
          /\ out' = [out EXCEPT ![a] = @ \ {i}] /\ pc' = [pc EXCEPT ![a] = "push"]
          /\ pc[a] = "reserve" /\ UNCHANGED <<hold, checked, found>>
      BY <1>5 DEF Accept, Q!Accept
    <2>2. i \in Items /\ i.url \in URLs /\ Fits(i)
      BY DEF TypeOK, Items, ItemsFit
    <2>3. HandsFree'
      BY <1>0, <2>1 DEF HandsFree, TypeOK, Q!TypeOK
    <2>4. TakenIsHeld'
      BY <1>0, <2>1 DEF TakenIsHeld, TypeOK
    <2>5. \A u \in queued' \cup Q!Coming' : Fits(Item(u, depth'[u]))
      <3>1. SUFFICES ASSUME NEW u \in queued' \cup Q!Coming' PROVE Fits(Item(u, depth'[u]))
        OBVIOUS
      <3>2. u \in queued \cup Q!Coming \cup {i.url} /\ u \in URLs
        BY <2>1, <2>2 DEF Q!Coming, TypeOK, Q!TypeOK
      <3>3. CASE u = i.url
        BY <2>1, <2>2, <3>3 DEF TypeOK, Fits, Item
      <3>4. CASE u # i.url
        BY <2>1, <3>2, <3>4 DEF TypeOK, ItemsFit
      <3>5. QED
        BY <3>3, <3>4
    <2>6. ItemsFit'
      BY <2>1, <2>5 DEF ItemsFit, Fits, TypeOK
    <2>7. QED
      BY <2>3, <2>4, <2>6
  <1>6. ASSUME NEW i \in out[a], Duplicate(a, i)
        PROVE  Places'
    <2>1. /\ UNCHANGED <<queued, coming, taken, room, depth, hold, checked, found>>
          /\ out' = [out EXCEPT ![a] = @ \ {i}] /\ pc' = [pc EXCEPT ![a] = "push"]
          /\ pc[a] = "reserve"
      BY <1>6 DEF Duplicate
    <2>2. HandsFree'
      BY <1>0, <2>1 DEF HandsFree, TypeOK
    <2>3. TakenIsHeld'
      BY <1>0, <2>1 DEF TakenIsHeld, TypeOK
    <2>4. ItemsFit'
      BY <2>1, ComingOf DEF ItemsFit, Fits, TypeOK
    <2>5. QED
      BY <2>2, <2>3, <2>4
  <1>7. ASSUME NEW us \in SUBSET coming[a], Land(a, us)
        PROVE  Places'
    <2>1. /\ queued' = queued \cup us /\ coming' = [coming EXCEPT ![a] = @ \ us]
          /\ UNCHANGED <<taken, room, depth, hold, checked, found, out, pc>>
      BY <1>7 DEF Land, Q!Land
    <2>2. queued' \cup Q!Coming' \subseteq queued \cup Q!Coming
      BY <2>1 DEF Q!Coming, TypeOK, Q!TypeOK
    <2>3. HandsFree'
      BY <1>0, <2>1 DEF HandsFree, TypeOK, Q!TypeOK
    <2>4. TakenIsHeld'
      BY <2>1 DEF TakenIsHeld
    <2>5. ItemsFit'
      BY <2>1, <2>2 DEF ItemsFit
    <2>6. QED
      BY <2>3, <2>4, <2>5
  <1>8. QED
    BY <1>1, <1>2, <1>3, <1>4, <1>5, <1>6, <1>7 DEF Pushing

LEMMA StepPlaces == Typed /\ Places /\ [Next]_vars => Places'
  <1>1. Places /\ (Interrupt \/ UNCHANGED vars) => Places'
    BY ComingOf DEF Places, HandsFree, TakenIsHeld, ItemsFit, Fits, Interrupt, vars, queueVars, popVars, pushVars, ghosts
  <1>2. QED
    BY <1>1, WorkPlaces, PushingPlaces DEF Next

-------------------------------------------------------------------------------
(* Every link found is dealt with.                                          *)

Known(u) == u \in UIState \/ {u, Norm[u]} \cap visited # {}

\* A worker has u among the items of its batch, or among those it will push.
Carries(w, u) == \E i \in hold[w] \cup checked[w] \cup found[w] \cup out[w] : i.url = u

\* u is on its way to MarkVisited.
Pending(u) ==
    \/ u \in queued \cup Q!Coming
    \/ \E w \in Workers : Carries(w, u) \/ (pc[w] = "limit" /\ cur[w].url = u)

\* Until the crawl is interrupted, no link of an expanded page gets lost unseen.
LinksFollowed ==
    ~cancelled =>
        \A i \in expanded : \A u \in Links[i.url] \cup Dynamic[i.url] :
            InScope(u, i.depth + 1) => Known(u) \/ Pending(u) \/ u \in dropped

\* What is known stays known, and what a full queue dropped stays dropped.
LEMMA VisitedGrows ==
    Typed /\ [Next]_vars => visited \subseteq visited' /\ dropped \subseteq dropped'
  <1> USE DEF ghosts
  <1>1. ASSUME NEW w \in Workers, Work(w) \/ Fetch(w)
        PROVE  visited \subseteq visited' /\ dropped \subseteq dropped'
    BY <1>1 DEF Work, Fetch, Poll, Take, EndScan, Release, EndPop, CheckEmpty, Abandon, Consider,
                LimiterFails, Mark, FetchNothing, FetchPage
  <1>2. ASSUME NEW a \in Actors, Pushing(a)
        PROVE  visited \subseteq visited' /\ dropped \subseteq dropped'
    BY <1>2 DEF Pushing, PushChecked, PushFound, EndLinks, CheckCapacity, Accept, Duplicate, Land, EndPush
  <1>3. QED
    BY <1>1, <1>2 DEF Next, Interrupt, vars

\* Steps of PopBatch keep a pending URL pending.
LEMMA PopKeepsPending ==
    ASSUME Typed, NEW w \in Workers, NEW u \in URLs, Pending(u)
    PROVE  /\ Poll(w) \/ EndScan(w) \/ EndPop(w) => Pending(u)'
           /\ \A us \in SUBSET queued : Take(w, us) => Pending(u)'
           /\ \A v \in taken[w] : Release(w, v) => Pending(u)'
  <1> USE DEF Typed, Goto, queueVars, popVars, pushVars, ghosts
  <1>0. w \in Actors /\ Workers \subseteq Actors
    BY DEF Actors
  <1>1. CASE Poll(w) \/ EndScan(w) \/ EndPop(w)
    <2>1. /\ UNCHANGED <<queued, coming, hold, checked, found, out, cur>>
          /\ pc[w] # "limit" /\ \A v \in Workers : v # w => pc'[v] = pc[v]
      BY <1>0, <1>1 DEF Poll, EndScan, EndPop, Q!BeginPop, Q!EndShort, TypeOK
    <2>2. QED
      BY <2>1, ComingOf DEF Pending, Carries
  <1>2. ASSUME NEW us \in SUBSET queued, Take(w, us)
        PROVE  Pending(u)'
    <2>1. /\ hold'[w] = hold[w] \cup {Item(v, depth[v]) : v \in us}
          /\ \A v \in Workers : v # w => hold'[v] = hold[v]
          /\ queued' = queued \ us /\ UNCHANGED <<coming, checked, found, out, cur, pc>>
      BY <1>0, <1>2 DEF Take, Q!Take, TypeOK
    <2>2. CASE u \in us
      <3>1. Item(u, depth[u]) \in hold'[w] /\ Item(u, depth[u]).url = u
        BY <2>1, <2>2 DEF Item
      <3>2. QED
        BY <3>1 DEF Pending, Carries
    <2>3. CASE u \notin us
      <3>1. \A v \in Workers : hold[v] \subseteq hold'[v]
        BY <2>1
      <3>2. QED
        BY <2>1, <2>3, <3>1, ComingOf DEF Pending, Carries
    <2>4. QED
      BY <2>2, <2>3
  <1>3. ASSUME NEW v \in taken[w], Release(w, v)
        PROVE  Pending(u)'
    BY <1>3, ComingOf DEF Release, Q!Release, Pending, Carries
  <1>4. QED
    BY <1>1, <1>2, <1>3

\* A worker's step keeps a pending URL pending, or makes it known.
LEMMA WorkKeepsPending ==
    ASSUME Typed, Places, ~cancelled, NEW w \in Workers, Work(w) \/ Fetch(w),
           NEW u \in Allowed, Pending(u)
    PROVE  Pending(u)' \/ Known(u)'
  <1> USE DEF Typed, Places, Goto, queueVars, popVars, pushVars, ghosts
  <1>0. w \in Actors /\ Workers \subseteq Actors /\ u \in URLs
    BY CrawlerConstants DEF Actors
  <1>1. CASE CheckEmpty(w) \/ FetchNothing(w)
    <2>1. /\ UNCHANGED <<queued, coming, hold, checked, found, out, cur>>
          /\ pc[w] # "limit" /\ \A v \in Workers : v # w => pc'[v] = pc[v]
      BY <1>0, <1>1 DEF CheckEmpty, FetchNothing, TypeOK
    <2>2. QED
      BY <2>1, ComingOf DEF Pending, Carries
  <1>2. CASE Consider(w)
    <2>1. PICK i \in hold[w] :
            /\ hold' = [hold EXCEPT ![w] = @ \ {i}]
            /\ IF InScope(i.url, i.depth) /\ i.url \notin visited
               THEN cur' = [cur EXCEPT ![w] = i] /\ pc' = [pc EXCEPT ![w] = "limit"]
               ELSE UNCHANGED <<cur, pc>>
      BY <1>2 DEF Consider
    <2>2. /\ hold'[w] = hold[w] \ {i} /\ \A v \in Workers : v # w => hold'[v] = hold[v]
          /\ pc[w] = "next" /\ UNCHANGED <<queued, coming, checked, found, out, visited>>
          /\ \A v \in Workers : v # w => cur'[v] = cur[v] /\ pc'[v] = pc[v]
      BY <1>0, <1>2, <2>1 DEF Consider, TypeOK
    <2>3. CASE i.url = u
      <3>1. InScope(i.url, i.depth)
        BY <2>3 DEF ItemsFit, Fits
      <3>2. CASE u \in visited
        BY <2>2, <3>2 DEF Known
      <3>3. CASE u \notin visited
        <4>1. cur'[w] = i /\ pc'[w] = "limit"
          BY <1>0, <2>1, <2>3, <3>1, <3>3 DEF TypeOK
        <4>2. QED
          BY <2>3, <4>1 DEF Pending
      <3>4. QED
        BY <3>2, <3>3
    <2>4. CASE i.url # u
      BY <2>2, <2>4, ComingOf DEF Pending, Carries
    <2>5. QED
      BY <2>3, <2>4
  <1>3. CASE Mark(w)
    <2>1. /\ UNCHANGED <<queued, coming, hold, checked, found, out, cur>>
          /\ \A v \in Workers : v # w => pc'[v] = pc[v]
          /\ cur[w].url \in UIState \/ Norm[cur[w].url] \in visited'
      BY <1>0, <1>3 DEF Mark, TypeOK
    <2>2. CASE pc[w] = "limit" /\ cur[w].url = u
      BY <2>1, <2>2 DEF Known
    <2>3. CASE ~(pc[w] = "limit" /\ cur[w].url = u)
      BY <2>1, <2>3, ComingOf DEF Pending, Carries
    <2>4. QED
      BY <2>2, <2>3
  <1>4. CASE FetchPage(w)
    <2>1. pc[w] = "fetch"
      BY <1>4 DEF FetchPage
    <2>2. checked[w] = {} /\ found[w] = {}
      BY <1>0, <2>1 DEF HandsFree
    <2>3. /\ UNCHANGED <<queued, coming, hold, out, cur>>
          /\ \A v \in Workers : v # w => checked'[v] = checked[v] /\ found'[v] = found[v] /\ pc'[v] = pc[v]
      BY <1>0, <1>4, CrawlerConstants DEF FetchPage, TypeOK
    <2>4. QED
      BY <2>1, <2>2, <2>3, ComingOf DEF Pending, Carries
  <1>5. ~Abandon(w) /\ ~LimiterFails(w)
    BY DEF Abandon, LimiterFails
  <1>6. QED
    BY <1>0, <1>1, <1>2, <1>3, <1>4, <1>5, PopKeepsPending DEF Work, Fetch

\* So does a step of a push, unless the queue is full.
LEMMA PushingKeepsPending ==
    ASSUME Typed, Places, NEW a \in Actors, Pushing(a),
           NEW u \in Allowed, Pending(u)
    PROVE  Pending(u)' \/ Known(u)' \/ u \in dropped'
  <1> USE DEF Typed, Places, Goto, queueVars, popVars, pushVars, ghosts
  <1>0. Workers \subseteq Actors /\ Actors = Workers \cup {Scout} /\ u \in URLs
    BY CrawlerConstants DEF Actors
  <1>1. CASE PushChecked(a)
    <2>1. PICK i \in checked[a] :
            /\ checked' = [checked EXCEPT ![a] = @ \ {i}]
            /\ IF i.url \in visited
               THEN UNCHANGED <<out, pc>>
               ELSE out' = [out EXCEPT ![a] = {i}] /\ pc' = [pc EXCEPT ![a] = "push"]
      BY <1>1 DEF PushChecked
    <2>2. /\ UNCHANGED <<queued, coming, hold, found, visited, cur>> /\ pc[a] = "links" /\ out[a] = {}
          /\ \A v \in Workers : pc[v] = "limit" => pc'[v] = "limit"
          /\ checked'[a] = checked[a] \ {i}
          /\ \A v \in Actors : v # a => checked'[v] = checked[v] /\ out'[v] = out[v]
      BY <1>0, <1>1, <2>1 DEF PushChecked, TypeOK, HandsFree
    <2>3. CASE i.url = u /\ u \in visited
      BY <2>2, <2>3 DEF Known
    <2>4. CASE i.url = u /\ u \notin visited
      <3>1. out'[a] = {i}
        BY <2>1, <2>4 DEF TypeOK
      <3>2. \A v \in Workers : Carries(v, u) => Carries(v, u)'
        BY <1>0, <2>2, <2>4, <3>1 DEF Carries
      <3>3. QED
        BY <2>2, <3>2, ComingOf DEF Pending
    <2>5. CASE i.url # u
      <3>1. \A v \in Workers : Carries(v, u) => Carries(v, u)'
        BY <1>0, <2>2, <2>5 DEF Carries
      <3>2. QED
        BY <2>2, <3>1, ComingOf DEF Pending
    <2>6. QED
      BY <2>3, <2>4, <2>5
  <1>2. CASE PushFound(a)
    <2>1. /\ UNCHANGED <<queued, coming, hold, checked, cur>>
          /\ \A v \in Workers : pc[v] = "limit" => pc'[v] = "limit"
          /\ out'[a] = found[a] /\ out[a] = {}
          /\ \A v \in Actors : v # a => found'[v] = found[v] /\ out'[v] = out[v]
      BY <1>0, <1>2 DEF PushFound, TypeOK, HandsFree
    <2>2. \A v \in Workers : Carries(v, u) => Carries(v, u)'
      BY <1>0, <2>1 DEF Carries
    <2>3. QED
      BY <2>1, <2>2, ComingOf DEF Pending
  <1>3. CASE EndLinks(a) \/ EndPush(a)
    <2>1. /\ UNCHANGED <<queued, coming, hold, checked, found, out, cur>>
          /\ \A v \in Workers : pc[v] = "limit" => pc'[v] = "limit"
      BY <1>0, <1>3 DEF EndLinks, EndPush, TypeOK
    <2>2. QED
      BY <2>1, ComingOf DEF Pending, Carries
  <1>4. CASE CheckCapacity(a)
    <2>1. /\ UNCHANGED <<queued, coming, hold, checked, found, cur>>
          /\ \A v \in Workers : pc[v] = "limit" => pc'[v] = "limit"
          /\ \A v \in Actors : v # a => out'[v] = out[v]
          /\ out'[a] = out[a] \/ \A i \in out[a] : i.url \in dropped'
      BY <1>0, <1>4 DEF CheckCapacity, TypeOK
    <2>2. u \notin dropped' => \A v \in Workers : Carries(v, u) => Carries(v, u)'
      BY <1>0, <2>1 DEF Carries
    <2>3. QED
      BY <2>1, <2>2, ComingOf DEF Pending
  <1>5. ASSUME NEW i \in out[a], Accept(a, i) \/ Duplicate(a, i)
        PROVE  Pending(u)'
    <2>1. /\ UNCHANGED <<queued, taken, hold, checked, found, cur>>
          /\ out'[a] = out[a] \ {i} /\ \A v \in Actors : v # a => out'[v] = out[v]
          /\ \A v \in Workers : pc[v] = "limit" => pc'[v] = "limit"
          /\ \A v \in Actors : coming[v] \subseteq coming'[v]
      BY <1>0, <1>5 DEF Accept, Duplicate, Q!Accept, TypeOK, Q!TypeOK
    <2>2. Q!Coming \subseteq Q!Coming'
      BY <2>1 DEF Q!Coming
    <2>3. i.url \in queued' \cup Q!Coming' \cup Q!Taken
      <3>1. CASE Accept(a, i)
        <4>1. i.url \in coming'[a]
          BY <3>1 DEF Accept, Q!Accept, TypeOK, Q!TypeOK
        <4>2. QED
          BY <4>1 DEF Q!Coming
      <3>2. CASE Duplicate(a, i)
        BY <2>1, <2>2, <3>2 DEF Duplicate
      <3>3. QED
        BY <1>5, <3>1, <3>2
    <2>4. CASE i.url = u /\ u \in queued' \cup Q!Coming'
      BY <2>4 DEF Pending
    <2>5. CASE i.url = u /\ u \in Q!Taken
      <3>1. PICK v \in Actors : u \in taken[v]
        BY <2>5 DEF Q!Taken
      <3>2. v \in Workers
        BY <1>0, <3>1 DEF HandsFree
      <3>3. \E j \in hold'[v] : j.url = u
        BY <2>1, <3>1, <3>2 DEF TakenIsHeld
      <3>4. QED
        BY <3>2, <3>3 DEF Pending, Carries
    <2>6. CASE i.url # u
      <3>1. \A v \in Workers : Carries(v, u) => Carries(v, u)'
        BY <1>0, <2>1, <2>6 DEF Carries
      <3>2. QED
        BY <2>1, <2>2, <3>1 DEF Pending
    <2>7. QED
      BY <2>3, <2>4, <2>5, <2>6
  <1>6. ASSUME NEW us \in SUBSET coming[a], Land(a, us)
        PROVE  Pending(u)'
    <2>1. /\ queued' = queued \cup us /\ coming' = [coming EXCEPT ![a] = @ \ us]
          /\ UNCHANGED <<hold, checked, found, out, cur, pc>>
      BY <1>6 DEF Land, Q!Land
    <2>2. queued \cup Q!Coming \subseteq queued' \cup Q!Coming'
      BY <2>1 DEF Q!Coming, TypeOK, Q!TypeOK
    <2>3. QED
      BY <2>1, <2>2 DEF Pending, Carries
  <1>7. QED
    BY <1>1, <1>2, <1>3, <1>4, <1>5, <1>6 DEF Pushing

\* A page that is expanded hands its links to the worker that fetched it.
LEMMA ExpandedCarried ==
    ASSUME Typed, Places, NEW w \in Workers, FetchPage(w),
           NEW u \in Links[cur[w].url] \cup Dynamic[cur[w].url], InScope(u, cur[w].depth + 1)
    PROVE  Pending(u)'
  <1> USE DEF Typed, Places
  <1>0. w \in Actors /\ w # Scout
    BY CrawlerConstants DEF Actors
  <1>1. cur[w].url \in URLs /\ cur[w].depth \in Nat
    BY DepthsAreNat DEF TypeOK, Items
  <1>2. cur[w].depth + 1 \in Nat
    BY <1>1
  <1>3. /\ found'[w] = ItemsAt(Links[cur[w].url], cur[w].depth + 1)
        /\ checked'[w] = ItemsAt(Dynamic[cur[w].url], cur[w].depth + 1)
    BY <1>0 DEF FetchPage, TypeOK
  <1>4. CASE u \in Links[cur[w].url]
    <2>1. \E i \in ItemsAt(Links[cur[w].url], cur[w].depth + 1) : i.url = u
      BY <1>1, <1>2, <1>4, ItemsAtFacts, CrawlerConstants
    <2>2. QED
      BY <1>3, <2>1 DEF Pending, Carries
  <1>5. CASE u \in Dynamic[cur[w].url]
    <2>1. \E i \in ItemsAt(Dynamic[cur[w].url], cur[w].depth + 1) : i.url = u
      BY <1>1, <1>2, <1>5, ItemsAtFacts, CrawlerConstants
    <2>2. QED
      BY <1>3, <2>1 DEF Pending, Carries
  <1>6. QED
    BY <1>4, <1>5

LEMMA StepLinksFollowed ==
    Typed /\ Places /\ LinksFollowed /\ [Next]_vars => LinksFollowed'
  <1> SUFFICES ASSUME Typed, Places, LinksFollowed, [Next]_vars, ~cancelled',
                      NEW i \in expanded', NEW u \in Links[i.url] \cup Dynamic[i.url],
                      InScope(u, i.depth + 1)
               PROVE  Known(u)' \/ Pending(u)' \/ u \in dropped'
    BY DEF LinksFollowed
  <1>1. u \in Allowed
    BY DEF InScope
  <1>2. ~cancelled
    BY DEF Next, Work, Fetch, Pushing, Poll, Take, EndScan, Release, EndPop, CheckEmpty, Abandon,
           Consider, LimiterFails, Mark, FetchNothing, FetchPage, PushChecked, PushFound,
           EndLinks, CheckCapacity, Accept, Duplicate, Land, EndPush, Interrupt, vars
  <1>3. (Known(u) => Known(u)') /\ (u \in dropped => u \in dropped')
    BY VisitedGrows DEF Known
  <1>4. CASE i \in expanded
    <2>1. Known(u) \/ Pending(u) \/ u \in dropped
      BY <1>2, <1>4 DEF LinksFollowed
    <2>2. ASSUME Pending(u), UNCHANGED vars
          PROVE  Pending(u)'
      BY <2>2, ComingOf DEF Pending, Carries, vars, queueVars, popVars, pushVars
    <2>3. ~Interrupt
      BY DEF Interrupt
    <2>4. QED
      BY <1>1, <1>2, <1>3, <2>1, <2>2, <2>3, WorkKeepsPending, PushingKeepsPending DEF Next
  <1>5. CASE i \notin expanded
    <2>1. PICK w \in Workers : FetchPage(w)
      BY <1>5 DEF Next, Work, Fetch, Pushing, Poll, Take, EndScan, Release, EndPop, CheckEmpty, Abandon,
           Consider, LimiterFails, Mark, FetchNothing, PushChecked, PushFound,
           EndLinks, CheckCapacity, Accept, Duplicate, Land, EndPush, Interrupt, vars, ghosts
    <2>2. i = cur[w]
      BY <1>5, <2>1 DEF FetchPage
    <2>3. QED
      BY <2>1, <2>2, ExpandedCarried
  <1>6. QED
    BY <1>4, <1>5

-------------------------------------------------------------------------------
(* What the workers' exits leave behind.                                    *)

\* w will come across u, or look again: it is not about to leave, and a scan
\* that has found nothing yet has u before it.
WillSee(w, u) ==
    pc[w] \notin {"empty", "done"} /\ (pc[w] = "scan" => u \in due[w] \/ hold[w] # {})

\* Whatever a worker pushed, some worker will come across.
SomeoneLooks ==
    ~cancelled => \A u \in queued \ Extra : \E w \in Workers : WillSee(w, u)

LEMMA WorkSomeoneLooks ==
    ASSUME Typed, Places, SomeoneLooks, ~cancelled, NEW w \in Workers, Work(w) \/ Fetch(w)
    PROVE  SomeoneLooks'
  <1> USE DEF Typed, Places, Goto, queueVars, popVars, pushVars, ghosts
  <1>0. Workers \subseteq Actors /\ Scout \notin Workers /\ w \in Actors
    BY CrawlerConstants DEF Actors
  <1> SUFFICES ASSUME NEW u \in queued', u \notin Extra
               PROVE  \E v \in Workers : WillSee(v, u)'
    BY DEF SomeoneLooks
  <1>1. CASE Poll(w)
    <2>1. queued' = queued /\ pc'[w] = "scan" /\ due'[w] = queued
      BY <1>0, <1>1 DEF Poll, Q!BeginPop, TypeOK, Q!TypeOK
    <2>2. QED
      BY <2>1 DEF WillSee
  <1>2. ASSUME NEW us \in SUBSET queued, Take(w, us)
        PROVE  \E v \in Workers : WillSee(v, u)'
    <2>1. us # {} /\ hold'[w] = hold[w] \cup {Item(x, depth[x]) : x \in us} /\ pc'[w] = "scan"
      BY <1>2 DEF Take, Q!Take, TypeOK
    <2>2. hold'[w] # {}
      BY <2>1
    <2>3. QED
      BY <2>1, <2>2 DEF WillSee
  <1>3. CASE EndScan(w)
    <2>1. /\ queued' = queued /\ UNCHANGED hold /\ pc[w] = "scan"
          /\ \A v \in Workers : v # w => due'[v] = due[v] /\ pc'[v] = pc[v]
          /\ pc'[w] = IF hold[w] = {} THEN "empty" ELSE "release"
      BY <1>0, <1>3 DEF EndScan, Q!EndShort, TypeOK
    <2>2. PICK v \in Workers : WillSee(v, u)
      BY <2>1 DEF SomeoneLooks
    <2>3. hold[w] = {} => due[w] = {}
      BY <1>3, <2>1 DEF EndScan, Q!EndShort, TakenIsHeld
    <2>4. CASE hold[w] # {}
      BY <2>1, <2>4 DEF WillSee
    <2>5. CASE hold[w] = {}
      BY <2>1, <2>2, <2>3, <2>5 DEF WillSee
    <2>6. QED
      BY <2>4, <2>5
  <1>4. ASSUME NEW x \in taken[w], Release(w, x)
        PROVE  \E v \in Workers : WillSee(v, u)'
    BY <1>4 DEF Release, Q!Release, SomeoneLooks, WillSee
  <1>5. CASE EndPop(w) \/ Consider(w) \/ LimiterFails(w) \/ Mark(w) \/ FetchNothing(w) \/ FetchPage(w)
    <2>1. pc'[w] \in {"next", "limit", "fetch", "links"}
      BY <1>0, <1>5 DEF EndPop, Consider, LimiterFails, Mark, FetchNothing, FetchPage, TypeOK
    <2>2. QED
      BY <2>1 DEF WillSee
  <1>6. CASE CheckEmpty(w)
    <2>1. UNCHANGED <<queued, due, hold>> /\ pc[w] = "empty" /\ \A v \in Workers : v # w => pc'[v] = pc[v]
      BY <1>0, <1>6 DEF CheckEmpty, TypeOK
    <2>2. QED
      BY <2>1 DEF SomeoneLooks, WillSee
  <1>7. ~Abandon(w)
    BY DEF Abandon
  <1>8. QED
    BY <1>1, <1>2, <1>3, <1>4, <1>5, <1>6, <1>7 DEF Work, Fetch

LEMMA PushingSomeoneLooks ==
    ASSUME Typed, Places, SomeoneLooks, ~cancelled, NEW a \in Actors, Pushing(a)
    PROVE  SomeoneLooks'
  <1> USE DEF Typed, Places, Goto, queueVars, popVars, pushVars, ghosts
  <1>0. Workers \subseteq Actors /\ Scout \notin Workers /\ Actors = Workers \cup {Scout}
    BY CrawlerConstants DEF Actors
  <1>1. ASSUME ~\E us \in SUBSET coming[a] : Land(a, us)
        PROVE  SomeoneLooks'
    <2>1. UNCHANGED <<queued, due, hold>>
      BY <1>1 DEF Pushing, PushChecked, PushFound, EndLinks, CheckCapacity, Accept, Q!Accept,
                  Duplicate, EndPush
    <2>2. \A v \in Workers : pc'[v] # pc[v] => pc'[v] \notin {"scan", "empty", "done"}
      BY <1>0, <1>1, CrawlerConstants
         DEF Pushing, PushChecked, PushFound, EndLinks, CheckCapacity, Accept, Duplicate, EndPush, TypeOK
    <2>3. QED
      BY <2>1, <2>2 DEF SomeoneLooks, WillSee
  <1>2. ASSUME NEW us \in SUBSET coming[a], Land(a, us)
        PROVE  SomeoneLooks'
    <2>1. /\ queued' = queued \cup us /\ UNCHANGED <<pc, hold>> /\ pc[a] = "flush"
          /\ \A v \in Workers : due'[v] = due[v]
      BY <1>0, <1>2 DEF Land, Q!Land, TypeOK, Q!TypeOK
    <2>2. \A v \in Workers, u \in queued : WillSee(v, u) => WillSee(v, u)'
      BY <2>1 DEF WillSee
    <2>3. \A u \in us : u \in Extra \/ (a \in Workers /\ WillSee(a, u)')
      BY <1>0, <2>1 DEF HandsFree, WillSee
    <2>4. QED
      BY <2>1, <2>2, <2>3 DEF SomeoneLooks
  <1>3. QED
    BY <1>1, <1>2

LEMMA StepSomeoneLooks ==
    Typed /\ Places /\ SomeoneLooks /\ [Next]_vars => SomeoneLooks'
  <1>1. ASSUME SomeoneLooks, UNCHANGED vars
        PROVE  SomeoneLooks'
    BY <1>1 DEF SomeoneLooks, WillSee, vars, queueVars, popVars
  <1>2. Interrupt => SomeoneLooks'
    BY DEF Interrupt, SomeoneLooks
  <1>3. cancelled /\ [Next]_vars => cancelled'
    BY DEF Next, Work, Fetch, Pushing, Poll, Take, EndScan, Release, EndPop, CheckEmpty, Abandon,
           Consider, LimiterFails, Mark, FetchNothing, FetchPage, PushChecked, PushFound,
           EndLinks, CheckCapacity, Accept, Duplicate, Land, EndPush, Interrupt, vars
  <1>4. cancelled' => SomeoneLooks'
    BY DEF SomeoneLooks
  <1>5. QED
    BY <1>1, <1>2, <1>3, <1>4, WorkSomeoneLooks, PushingSomeoneLooks DEF Next

-------------------------------------------------------------------------------
(* When a page is crawled twice.                                            *)

\* What a worker has marked under its own name, everybody sees as visited.
MarksShow == \A w \in Workers : \A u \in crawls[w] : Norm[u] = u => u \in visited

LEMMA StepOnce ==
    Typed /\ MarksShow /\ RepeatedInRaceOnly /\ [Next]_vars => MarksShow' /\ RepeatedInRaceOnly'
  <1> SUFFICES ASSUME Typed, MarksShow, RepeatedInRaceOnly, [Next]_vars
               PROVE  MarksShow' /\ RepeatedInRaceOnly'
    OBVIOUS
  <1> USE DEF Typed, Goto, queueVars, popVars, pushVars, ghosts
  <1>0. Workers \subseteq Actors
    BY DEF Actors
  <1>1. ASSUME NEW w \in Workers, Consider(w)
        PROVE  MarksShow' /\ RepeatedInRaceOnly'
    <2>1. PICK i \in hold[w] :
            IF InScope(i.url, i.depth) /\ i.url \notin visited
            THEN cur' = [cur EXCEPT ![w] = i] /\ pc' = [pc EXCEPT ![w] = "limit"]
            ELSE UNCHANGED <<cur, pc>>
      BY <1>1 DEF Consider
    <2>2. UNCHANGED <<crawls, raced, visited>>
      BY <1>1 DEF Consider
    <2>3. CASE InScope(i.url, i.depth) /\ i.url \notin visited
      <3>1. cur'[w] = i /\ \A v \in Workers : v # w => cur'[v] = cur[v] /\ pc'[v] = pc[v]
        BY <1>0, <2>1, <2>3 DEF TypeOK
      <3>2. Norm[i.url] = i.url => \A v \in Workers : i.url \notin crawls[v]
        BY <2>3 DEF MarksShow
      <3>3. QED
        BY <2>2, <3>1, <3>2 DEF MarksShow, RepeatedInRaceOnly
    <2>4. CASE ~(InScope(i.url, i.depth) /\ i.url \notin visited)
      BY <2>1, <2>2, <2>4 DEF MarksShow, RepeatedInRaceOnly
    <2>5. QED
      BY <2>3, <2>4
  <1>2. ASSUME NEW w \in Workers, Mark(w)
        PROVE  MarksShow' /\ RepeatedInRaceOnly'
    <2>1. PICK us \in SUBSET URLs :
            /\ Marked(w, us)
            /\ us = {} \/ (us = {cur[w].url} /\ Norm[cur[w].url] \in visited')
      <3>1. cur[w].url \in URLs
        BY DEF TypeOK, Items
      <3>2. QED
        BY <1>2, <3>1 DEF Mark
    <2>2. /\ cur' = cur /\ pc'[w] # "limit" /\ visited \subseteq visited'
          /\ \A v \in Workers : v # w => pc'[v] = pc[v]
      BY <1>0, <1>2 DEF Mark, TypeOK
    <2>3. /\ crawls'[w] = crawls[w] \cup us
          /\ \A v \in Workers : v # w => /\ crawls'[v] = crawls[v]
                                         /\ pc[v] = "limit" => raced'[v] = raced[v] \cup us
      BY <2>1 DEF Marked, TypeOK
    <2>4. MarksShow'
      BY <2>1, <2>2, <2>3 DEF MarksShow
    <2>5. RepeatedInRaceOnly'
      <3>1. SUFFICES ASSUME NEW v \in Workers, pc'[v] = "limit", Norm[cur[v].url] = cur[v].url
                     PROVE  /\ cur[v].url \notin crawls'[v]
                            /\ \A x \in Workers : cur[v].url \in crawls'[x] => cur[v].url \in raced'[v]
        BY <2>2 DEF RepeatedInRaceOnly
      <3>2. v # w /\ pc[v] = "limit"
        BY <2>2, <3>1
      <3>3. /\ cur[v].url \notin crawls[v]
            /\ \A x \in Workers : cur[v].url \in crawls[x] => cur[v].url \in raced[v]
        BY <3>1, <3>2 DEF RepeatedInRaceOnly
      <3>4. QED
        BY <2>3, <3>2, <3>3
    <2>6. QED
      BY <2>4, <2>5
  <1>3. ASSUME NEW w \in Workers, Work(w) \/ Fetch(w), ~Consider(w), ~Mark(w)
        PROVE  MarksShow' /\ RepeatedInRaceOnly'
    <2>1. /\ UNCHANGED <<crawls, raced, visited, cur>>
          /\ \A v \in Workers : pc'[v] = "limit" => pc[v] = "limit"
      BY <1>0, <1>3 DEF Work, Fetch, Poll, Take, EndScan, Release, EndPop, CheckEmpty, Abandon,
                  LimiterFails, FetchNothing, FetchPage, TypeOK
    <2>2. QED
      BY <2>1 DEF MarksShow, RepeatedInRaceOnly
  <1>4. ASSUME NEW a \in Actors, Pushing(a)
        PROVE  MarksShow' /\ RepeatedInRaceOnly'
    <2>1. /\ UNCHANGED <<crawls, raced, visited, cur>>
          /\ \A v \in Workers : pc'[v] = "limit" => pc[v] = "limit"
      BY <1>0, <1>4 DEF Pushing, PushChecked, PushFound, EndLinks, CheckCapacity, Accept, Duplicate,
                        Land, EndPush, TypeOK
    <2>2. QED
      BY <2>1 DEF MarksShow, RepeatedInRaceOnly
  <1>5. CASE Interrupt \/ UNCHANGED vars
    BY <1>5 DEF Interrupt, vars, MarksShow, RepeatedInRaceOnly
  <1>6. QED
    BY <1>1, <1>2, <1>3, <1>4, <1>5 DEF Next

-------------------------------------------------------------------------------
IInv ==
    /\ Typed /\ Patient /\ Places
    /\ LinksFollowed /\ SomeoneLooks
    /\ MarksShow /\ RepeatedInRaceOnly

LEMMA InitIInv == Init => IInv
  <1> SUFFICES ASSUME Init PROVE IInv
    OBVIOUS
  <1>1. LinksFollowed
    BY DEF Init, LinksFollowed
  <1>2. SomeoneLooks
    <2>1. PICK w \in Workers : TRUE
      BY CrawlerConstants
    <2>2. pc[w] = "next"
      BY CrawlerConstants DEF Init, Actors
    <2>3. QED
      BY <2>2 DEF SomeoneLooks, WillSee
  <1>3. MarksShow /\ RepeatedInRaceOnly
    <2>1. \A w \in Workers : pc[w] # "limit" /\ crawls[w] = {}
      BY CrawlerConstants DEF Init, Actors
    <2>2. QED
      BY <2>1 DEF MarksShow, RepeatedInRaceOnly
  <1>4. QED
    BY <1>1, <1>2, <1>3, InitTyped, InitPlaces DEF IInv

LEMMA StepIInv == IInv /\ [Next]_vars => IInv'
  BY StepTyped, StepPatient, StepPlaces, StepLinksFollowed, StepSomeoneLooks, StepOnce DEF IInv

LEMMA Invariance == Spec => []IInv
  BY InitIInv, StepIInv, PTL DEF Spec

\* All variables keep their types, whatever the site and the number of workers;
\* with a depth limit, no item ever exceeds it.
THEOREM TypeCorrect == Spec => []TypeOK
  <1>1. IInv => TypeOK
    BY DEF IInv, Typed
  <1>2. QED
    BY <1>1, Invariance, PTL

\* When all workers have gone, uninterrupted, the queue holds at most what the
\* background discovery pushed, and so does what is still on its way there;
\* though a pop may miss whatever lands after it began.
THEOREM NothingLeftBehindAlways == Spec => []NothingLeftBehind
  <1>1. ASSUME IInv, WorkersDone, ~cancelled
        PROVE  queued \cup Q!Coming \subseteq Extra
    <2>1. queued \subseteq Extra
      BY <1>1 DEF IInv, SomeoneLooks, WillSee, WorkersDone
    <2>2. \A a \in Actors : coming[a] \subseteq Extra
      BY <1>1 DEF IInv, Places, HandsFree, WorkersDone, Actors
    <2>3. QED
      BY <2>1, <2>2 DEF Q!Coming
  <1>2. IInv => NothingLeftBehind
    BY <1>1 DEF NothingLeftBehind
  <1>3. QED
    BY <1>2, Invariance, PTL

\* When all workers have gone, uninterrupted, every link in scope of every page
\* that was read is visited, was left in the queue, or was dropped when the queue
\* had reached its capacity.
THEOREM CrawlCompleteAlways == Spec => []CrawlComplete
  <1>1. IInv => CrawlComplete
    <2> SUFFICES ASSUME IInv, WorkersDone, ~cancelled, NEW i \in expanded,
                        NEW u \in Links[i.url] \cup Dynamic[i.url], InScope(u, i.depth + 1)
                 PROVE  \/ u \in UIState \/ {u, Norm[u]} \cap visited # {}
                        \/ u \in queued \cup Q!Coming \/ u \in dropped
      BY DEF CrawlComplete
    <2>1. Known(u) \/ Pending(u) \/ u \in dropped
      BY DEF IInv, LinksFollowed
    <2>2. \A w \in Workers : ~Carries(w, u) /\ pc[w] # "limit"
      BY DEF IInv, Places, HandsFree, Carries, WorkersDone, Actors
    <2>3. QED
      BY <2>1, <2>2 DEF Known, Pending
  <1>2. QED
    BY <1>1, Invariance, PTL

\* A worker that has asked whether its URL is visited, and will fetch it, has not
\* marked it before; and if another worker has, it did so since.  For URLs that
\* are their own normal form.
THEOREM RepeatedInRaceOnlyAlways == Spec => []RepeatedInRaceOnly
  <1>1. IInv => RepeatedInRaceOnly
    BY DEF IInv
  <1>2. QED
    BY <1>1, Invariance, PTL
===============================================================================
