------------------------------ MODULE GuardProofs ------------------------------
(***************************************************************************)
(* The three guards that every request of a crawl passes or may pass.      *)
(* BrowserPool, for any number of visitors, slots and launches: its types, *)
(* its tokens, and that Acquire hands out open browsers; CircuitBreaker,   *)
(* for any number of callers and any thresholds: its types, the bound on   *)
(* half-open probes, and that no place is lost; Requests, for any          *)
(* goroutines, domains, delays and files: its types, the rules of          *)
(* robots.txt, the pace of the limiter, and the attempts of the retrier.   *)
(***************************************************************************)
EXTENDS BrowserPool, CircuitBreaker, Requests, CountingProofs

-------------------------------------------------------------------------------
(* The browser pool.                                                        *)

\* A slot may hold a closed browser, but only one that is due for recycling.
ClosedIsWorn ==
    ~closed => \A s \in Slots : slot[s] \in open \/ NeedsRecycle(slot[s])

PoolIInv ==
    /\ TypeOK /\ TokensConserved /\ IsFiniteSet(Visitors)
    /\ ClosedIsWorn
    /\ \A p \in Procs : pc[p] = "held" => mine[p] \in Browsers

-------------------------------------------------------------------------------
LEMMA PoolInitIInv == Init => PoolIInv
  <1> SUFFICES ASSUME Init PROVE PoolIInv
    OBVIOUS
  <1> USE BrowserPoolConstants DEF Init
  <1>1. TypeOK
    <2>1. slot \in [Slots -> Browsers] /\ 1 .. Size \subseteq Browsers
      BY DEF Slots, Browsers
    <2>2. 0 \in 0 .. RecycleAfter /\ 0 \in Slots /\ Size \in Browsers /\ Size \in 0 .. Size
      BY DEF Slots, Browsers
    <2>3. pages \in [Browsers -> 0 .. RecycleAfter]
      BY <2>2
    <2>4. QED
      BY <2>1, <2>2, <2>3 DEF TypeOK, Labels
  <1>2. Visitors = {} /\ IsFiniteSet({}) /\ Cardinality({}) = 0
    BY FS_EmptySet DEF Visitors
  <1>3. TokensConserved /\ IsFiniteSet(Visitors)
    BY <1>2 DEF TokensConserved
  <1>4. ClosedIsWorn
    BY DEF ClosedIsWorn, Slots
  <1>5. QED
    BY <1>1, <1>3, <1>4 DEF PoolIInv

LEMMA NextSlotType == TypeOK => NextSlot \in Slots
  BY BrowserPoolConstants DEF TypeOK, NextSlot, Slots

-------------------------------------------------------------------------------
\* Where a goroutine has a token.
Using == {"token", "held", "visit"}

\* The visitors when goroutine p moves.
LEMMA Moved ==
    ASSUME PoolIInv, NEW p \in Procs, NEW label \in Labels, pc' = [pc EXCEPT ![p] = label]
    PROVE  /\ pc' \in [Procs -> Labels]
           /\ \A q \in Procs : pc'[q] = IF q = p THEN label ELSE pc[q]
           /\ IsFiniteSet(Visitors') /\ Cardinality(Visitors) \in Nat
           /\ label \in Using /\ pc[p] \notin Using => Cardinality(Visitors') = Cardinality(Visitors) + 1
           /\ label \notin Using /\ pc[p] \in Using => Cardinality(Visitors') = Cardinality(Visitors) - 1
           /\ (label \in Using <=> pc[p] \in Using) => Cardinality(Visitors') = Cardinality(Visitors)
  <1>1. pc' \in [Procs -> Labels] /\ \A q \in Procs : pc'[q] = IF q = p THEN label ELSE pc[q]
    BY DEF PoolIInv, TypeOK
  <1>2. Visitors' = IF label \in Using THEN Visitors \cup {p} ELSE Visitors \ {p}
    BY <1>1 DEF Visitors, Using
  <1>3. p \in Visitors <=> pc[p] \in Using
    BY DEF Visitors, Using
  <1>4. IsFiniteSet(Visitors) /\ Cardinality(Visitors) \in Nat
    BY FS_CardinalityType DEF PoolIInv
  <1>5. /\ IsFiniteSet(Visitors \cup {p}) /\ IsFiniteSet(Visitors \ {p})
        /\ Cardinality(Visitors \cup {p})
              = IF p \in Visitors THEN Cardinality(Visitors) ELSE Cardinality(Visitors) + 1
        /\ Cardinality(Visitors \ {p})
              = IF p \in Visitors THEN Cardinality(Visitors) - 1 ELSE Cardinality(Visitors)
    BY <1>4, FS_AddElement, FS_RemoveElement
  <1>6. QED
    <2>1. CASE label \in Using
      BY <1>1, <1>2, <1>3, <1>4, <1>5, <2>1
    <2>2. CASE label \notin Using
      BY <1>1, <1>2, <1>3, <1>4, <1>5, <2>2
    <2>3. QED
      BY <2>1, <2>2

\* A token that is returned by a visitor.
LEMMA Returned ==
    ASSUME PoolIInv, NEW p \in Procs, ReturnToken(p), pc[p] \in {"token", "visit"}, closed' = closed
    PROVE  /\ sem' \in 0 .. Size /\ panicked' \in BOOLEAN /\ pc' \in [Procs -> Labels]
           /\ TokensConserved' /\ IsFiniteSet(Visitors')
           /\ \A q \in Procs : pc'[q] = "held" => pc[q] = "held"
  <1>1. CASE closed
    <2>1. UNCHANGED <<sem, pc>> /\ panicked' = TRUE
      BY <1>1 DEF ReturnToken
    <2>2. Visitors' = Visitors
      BY <2>1 DEF Visitors
    <2>3. QED
      BY <1>1, <2>1, <2>2 DEF PoolIInv, TypeOK, TokensConserved
  <1>2. CASE ~closed
    <2>1. sem' = sem + 1 /\ pc' = [pc EXCEPT ![p] = "idle"] /\ panicked' = panicked
      BY <1>2 DEF ReturnToken, Goto
    <2>2. /\ pc' \in [Procs -> Labels] /\ IsFiniteSet(Visitors') /\ Cardinality(Visitors) \in Nat
          /\ \A q \in Procs : pc'[q] = IF q = p THEN "idle" ELSE pc[q]
      BY <2>1, Moved DEF Labels
    <2>3. Cardinality(Visitors') = Cardinality(Visitors) - 1
      BY <2>1, Moved DEF Labels, Using
    <2>4. Cardinality(Visitors') \in Nat
      BY <2>2, FS_CardinalityType
    <2>5. sem + Cardinality(Visitors) = Size /\ sem \in Nat /\ Size \in Nat
      BY <1>2, BrowserPoolConstants DEF PoolIInv, TypeOK, TokensConserved
    <2>6. QED
      BY <1>2, <2>1, <2>2, <2>3, <2>4, <2>5 DEF PoolIInv, TypeOK, TokensConserved
  <1>3. QED
    BY <1>1, <1>2

-------------------------------------------------------------------------------
\* Waiting for a token, getting one, and giving up.
LEMMA WaitStep ==
    ASSUME PoolIInv, NEW p \in Procs, Call(p) \/ GetToken(p) \/ GiveUp(p)
    PROVE  PoolIInv'
  <1> USE DEF PoolIInv
  <1>1. PICK label \in {"wait", "token", "idle"} :
           /\ pc' = [pc EXCEPT ![p] = label]
           /\ label = "token" => /\ sem > 0 \/ closed
                                 /\ sem' = IF sem > 0 THEN sem - 1 ELSE 0
           /\ label # "token" => sem' = sem
    BY DEF Call, GetToken, GiveUp, Goto
  <1>2. /\ UNCHANGED <<closed, slot, current, launched, open, pages, mine, panicked>>
        /\ pc[p] \in {"idle", "wait"} /\ sem \in 0 .. Size
    BY DEF Call, GetToken, GiveUp, TypeOK
  <1>3. /\ pc' \in [Procs -> Labels] /\ IsFiniteSet(Visitors') /\ Cardinality(Visitors) \in Nat
        /\ \A q \in Procs : pc'[q] = IF q = p THEN label ELSE pc[q]
        /\ Cardinality(Visitors') = IF label = "token" THEN Cardinality(Visitors) + 1
                                                       ELSE Cardinality(Visitors)
    <2>1. label \in Labels /\ pc[p] \notin Using /\ (label \in Using <=> label = "token")
      BY <1>1, <1>2 DEF Labels, Using
    <2>2. QED
      BY <1>1, <2>1, Moved
  <1>4. sem' \in 0 .. Size
    BY <1>1, <1>2, BrowserPoolConstants
  <1>5. TypeOK'
    BY <1>2, <1>3, <1>4 DEF TypeOK
  <1>6. TokensConserved'
    <2>1. SUFFICES ASSUME ~closed PROVE sem' + Cardinality(Visitors') = Size
      BY <1>2 DEF TokensConserved
    <2>2. sem + Cardinality(Visitors) = Size
      BY <2>1 DEF TokensConserved
    <2>3. QED
      BY <1>1, <1>2, <1>3, <2>1, <2>2, BrowserPoolConstants
  <1>7. ClosedIsWorn'
    BY <1>2 DEF ClosedIsWorn, NeedsRecycle
  <1>8. \A q \in Procs : pc'[q] = "held" => mine'[q] \in Browsers
    BY <1>1, <1>2, <1>3
  <1>9. QED
    BY <1>3, <1>5, <1>6, <1>7, <1>8

\* A browser is handed out, the one at hand or a new one.
LEMMA HandOutStep ==
    ASSUME PoolIInv, NEW p \in Procs, HandOut(p) \/ Recycle(p)
    PROVE  PoolIInv'
  <1> USE DEF PoolIInv
  <1>1. /\ pc[p] = "token" /\ pc' = [pc EXCEPT ![p] = "held"] /\ current' = NextSlot /\ ~closed
        /\ UNCHANGED <<sem, closed, pages, panicked>> /\ current \in Slots
    BY DEF HandOut, Recycle, Goto, TypeOK
  <1>2. PICK b \in Browsers : mine' = [mine EXCEPT ![p] = b]
    <2>1. CASE HandOut(p)
      BY <1>1, <2>1 DEF HandOut, TypeOK
    <2>2. CASE Recycle(p)
      <3>1. launched + 1 \in Browsers
        BY <2>2, BrowserPoolConstants DEF Recycle, TypeOK, Browsers
      <3>2. QED
        BY <2>2, <3>1 DEF Recycle
    <2>3. QED
      BY <2>1, <2>2
  <1>3. /\ pc' \in [Procs -> Labels] /\ IsFiniteSet(Visitors') /\ Cardinality(Visitors) \in Nat
        /\ \A q \in Procs : pc'[q] = IF q = p THEN "held" ELSE pc[q]
        /\ Cardinality(Visitors') = Cardinality(Visitors)
    <2>1. "held" \in Labels /\ "held" \in Using /\ pc[p] \in Using
      BY <1>1 DEF Labels, Using
    <2>2. QED
      BY <1>1, <2>1, Moved
  <1>4. TokensConserved'
    BY <1>1, <1>3 DEF TokensConserved
  <1>5. \A q \in Procs : pc'[q] = "held" => mine'[q] \in Browsers
    BY <1>2, <1>3 DEF TypeOK
  <1>6. /\ slot' \in [Slots -> Browsers] /\ launched' \in Browsers /\ open' \subseteq Browsers
        /\ ClosedIsWorn'
    <2>1. CASE HandOut(p)
      BY <1>1, <2>1 DEF HandOut, TypeOK, ClosedIsWorn, NeedsRecycle
    <2>2. CASE Recycle(p)
      <3>1. launched + 1 \in Browsers /\ NextSlot \in Slots
        BY <2>2, NextSlotType, BrowserPoolConstants DEF Recycle, TypeOK, Browsers
      <3>2. /\ slot' \in [Slots -> Browsers] /\ launched' \in Browsers /\ open' \subseteq Browsers
        BY <2>2, <3>1 DEF Recycle, TypeOK
      <3>3. \A s \in Slots : slot'[s] = IF s = NextSlot THEN launched + 1 ELSE slot[s]
        BY <2>2, <3>1 DEF Recycle, TypeOK
      <3>4. \A s \in Slots : slot[s] \in open' \/ NeedsRecycle(slot[s])
        BY <1>1, <2>2 DEF Recycle, ClosedIsWorn
      <3>5. launched + 1 \in open'
        BY <2>2 DEF Recycle
      <3>6. ClosedIsWorn'
        BY <1>1, <3>3, <3>4, <3>5 DEF ClosedIsWorn, NeedsRecycle
      <3>7. QED
        BY <3>2, <3>6
    <2>3. QED
      BY <2>1, <2>2
  <1>7. TypeOK'
    BY <1>1, <1>2, <1>3, <1>6, NextSlotType DEF TypeOK
  <1>8. QED
    BY <1>3, <1>4, <1>5, <1>6, <1>7

\* Every path that returns a token: a closed pool, a failed launch, a release.
LEMMA ReturnStep ==
    ASSUME PoolIInv, NEW p \in Procs, RefuseClosed(p) \/ RecycleFails(p) \/ Release(p)
    PROVE  PoolIInv'
  <1> USE DEF PoolIInv
  <1>1. /\ ReturnToken(p) /\ pc[p] \in {"token", "visit"}
        /\ UNCHANGED <<closed, slot, launched, pages>>
    BY DEF RefuseClosed, RecycleFails, Release
  <1>2. /\ sem' \in 0 .. Size /\ panicked' \in BOOLEAN /\ pc' \in [Procs -> Labels]
        /\ TokensConserved' /\ IsFiniteSet(Visitors')
        /\ \A q \in Procs : pc'[q] = "held" => pc[q] = "held"
    BY <1>1, Returned
  <1>3. mine' \in [Procs -> Browsers \cup {None}]
        /\ \A q \in Procs : pc'[q] = "held" => mine'[q] \in Browsers
    <2>1. CASE mine' = mine
      BY <1>2, <2>1 DEF TypeOK
    <2>2. CASE mine' # mine
      <3>1. mine' = [mine EXCEPT ![p] = None] /\ pc[p] = "visit"
        BY <2>2 DEF RefuseClosed, RecycleFails, Release
      <3>2. QED
        BY <1>2, <3>1 DEF TypeOK
    <2>3. QED
      BY <2>1, <2>2
  <1>4. current' \in Slots /\ open' \subseteq Browsers /\ ClosedIsWorn'
    <2>1. CASE RecycleFails(p)
      BY <1>1, <2>1, NextSlotType DEF RecycleFails, TypeOK, ClosedIsWorn, NeedsRecycle
    <2>2. CASE RefuseClosed(p) \/ Release(p)
      BY <1>1, <2>2 DEF RefuseClosed, Release, TypeOK, ClosedIsWorn, NeedsRecycle
    <2>3. QED
      BY <2>1, <2>2
  <1>5. TypeOK'
    BY <1>1, <1>2, <1>3, <1>4 DEF TypeOK
  <1>6. QED
    BY <1>2, <1>3, <1>4, <1>5

\* A visit counts a page; a browser that is worn stays so.
LEMMA VisitStep ==
    ASSUME PoolIInv, NEW p \in Procs, Visit(p)
    PROVE  PoolIInv'
  <1> USE DEF PoolIInv
  <1>1. /\ pc[p] = "held" /\ pc' = [pc EXCEPT ![p] = "visit"] /\ mine[p] \in Browsers
        /\ pages' = [pages EXCEPT ![mine[p]] = IF @ < RecycleAfter THEN @ + 1 ELSE @]
        /\ UNCHANGED <<sem, closed, slot, current, launched, open, mine, panicked>>
    BY DEF Visit, Goto
  <1>2. /\ pc' \in [Procs -> Labels] /\ IsFiniteSet(Visitors') /\ Cardinality(Visitors) \in Nat
        /\ \A q \in Procs : pc'[q] = IF q = p THEN "visit" ELSE pc[q]
        /\ Cardinality(Visitors') = Cardinality(Visitors)
    <2>1. "visit" \in Labels /\ "visit" \in Using /\ pc[p] \in Using
      BY <1>1 DEF Labels, Using
    <2>2. QED
      BY <1>1, <2>1, Moved
  <1>3. \A b \in Browsers : /\ pages[b] \in 0 .. RecycleAfter /\ pages'[b] \in 0 .. RecycleAfter
                            /\ pages[b] <= pages'[b]
    BY <1>1, BrowserPoolConstants DEF TypeOK
  <1>4. pages' \in [Browsers -> 0 .. RecycleAfter]
    BY <1>1, <1>3 DEF TypeOK
  <1>5. TypeOK'
    BY <1>1, <1>2, <1>4 DEF TypeOK
  <1>6. ClosedIsWorn'
    <2>1. \A b \in Browsers : NeedsRecycle(b) => NeedsRecycle(b)'
      BY <1>3, BrowserPoolConstants DEF NeedsRecycle
    <2>2. \A s \in Slots : slot[s] \in Browsers
      BY DEF TypeOK
    <2>3. \A s \in Slots : NeedsRecycle(slot[s]) => NeedsRecycle(slot[s])'
      BY <1>1, <2>2, <1>3, BrowserPoolConstants DEF NeedsRecycle
    <2>4. QED
      BY <1>1, <2>3 DEF ClosedIsWorn
  <1>7. QED
    BY <1>1, <1>2, <1>5, <1>6 DEF TokensConserved

LEMMA PoolStep == PoolIInv /\ [Next]_poolVars => PoolIInv'
  <1> SUFFICES ASSUME PoolIInv, [Next]_poolVars PROVE PoolIInv'
    OBVIOUS
  <1>1. CASE UNCHANGED poolVars
    BY <1>1 DEF PoolIInv, poolVars, TypeOK, TokensConserved, Visitors, ClosedIsWorn, NeedsRecycle
  <1>2. CASE Close
    <2>1. Visitors' = Visitors
      BY <1>2 DEF Close, Visitors
    <2>2. QED
      BY <1>2, <2>1 DEF PoolIInv, Close, TypeOK, TokensConserved, ClosedIsWorn
  <1>3. QED
    BY <1>1, <1>2, WaitStep, HandOutStep, ReturnStep, VisitStep DEF Next, Acquire

LEMMA PoolInvariance == Spec => []PoolIInv
  BY PoolInitIInv, PoolStep, PTL DEF Spec

\* The pool's variables keep their types, the channel its capacity.
THEOREM PoolTypeCorrect == Spec => []TypeOK
  <1>1. PoolIInv => TypeOK
    BY DEF PoolIInv
  <1>2. QED
    BY <1>1, PoolInvariance, PTL

\* Tokens and visitors always add up to the pool's size.
THEOREM TokensConservedAlways == Spec => []TokensConserved
  <1>1. PoolIInv => TokensConserved
    BY DEF PoolIInv
  <1>2. QED
    BY <1>1, PoolInvariance, PTL

\* Acquire never hands out a browser that is closed at that moment, although
\* the slots may hold closed ones.
THEOREM HandedOutOpenAlways == Spec => HandedOutOpen
  <1> DEFINE Opens == \A p \in Procs : pc[p] = "token" /\ pc'[p] = "held" => mine'[p] \in open'
  <1>1. ASSUME PoolIInv, [Next]_poolVars PROVE [Opens]_poolVars
    <2>1. SUFFICES ASSUME Next, NEW p \in Procs, pc[p] = "token", pc'[p] = "held"
                   PROVE  mine'[p] \in open'
      BY <1>1
    <2>2. CASE HandOut(p)
      BY <1>1, <2>2 DEF HandOut, PoolIInv, ClosedIsWorn, TypeOK
    <2>3. CASE Recycle(p)
      BY <1>1, <2>3 DEF Recycle, PoolIInv, TypeOK
    <2>4. HandOut(p) \/ Recycle(p)
      <3>1. pc \in [Procs -> Labels]
        BY <1>1 DEF PoolIInv, TypeOK
      <3>2. ~Close
        BY <2>1 DEF Close
      <3>3. PICK q \in Procs : Call(q) \/ Acquire(q) \/ Visit(q) \/ Release(q)
        BY <2>1, <3>2 DEF Next
      <3>4. CASE q # p
        BY <2>1, <3>1, <3>3, <3>4 DEF Call, Acquire, GetToken, GiveUp, RefuseClosed, HandOut,
           Recycle, RecycleFails, Visit, Release, ReturnToken, Goto
      <3>5. CASE q = p
        BY <2>1, <3>1, <3>3, <3>5 DEF Call, Acquire, GetToken, GiveUp, RefuseClosed,
           RecycleFails, Visit, Release, ReturnToken, Goto
      <3>6. QED
        BY <3>4, <3>5
    <2>5. QED
      BY <2>2, <2>3, <2>4
  <1>2. QED
    BY <1>1, PoolInvariance, PTL DEF Spec, HandedOutOpen

-------------------------------------------------------------------------------
(* The circuit breaker.                                                     *)

\* In half-open each probe in flight has its own place, except those whose
\* place a late result has freed.
ProbesHavePlaces ==
    state = "HalfOpen" => Cardinality(probes) <= halfOpenRequests + stale

\* The failure that reaches the threshold opens the circuit.
FailuresBelow == state = "Closed" => failures < FailureThreshold

BreakerIInv ==
    /\ BreakerTypeOK /\ IsFiniteSet(calling)
    /\ PlacesAreCalls /\ ProbesHavePlaces /\ FailuresBelow

-------------------------------------------------------------------------------
LEMMA BreakerInitIInv == BreakerInit => BreakerIInv
  <1> SUFFICES ASSUME BreakerInit PROVE BreakerIInv
    OBVIOUS
  <1>1. BreakerTypeOK
    <2>1. {ripe, healthy} \subseteq BOOLEAN
      BY DEF BreakerInit
    <2>2. 0 \in 0 .. FailureThreshold /\ 0 \in 0 .. SuccessThreshold - 1 /\ 0 \in 0 .. MaxConcurrent
      BY CircuitBreakerConstants
    <2>3. QED
      BY <2>1, <2>2 DEF BreakerInit, BreakerTypeOK
  <1>2. IsFiniteSet({}) /\ Cardinality({}) = 0
    BY FS_EmptySet
  <1>3. QED
    BY <1>1, <1>2, CircuitBreakerConstants
    DEF BreakerInit, BreakerIInv, PlacesAreCalls, ProbesHavePlaces, FailuresBelow

\* Adding and removing a caller.
LEMMA OneMore ==
    ASSUME NEW S, IsFiniteSet(S), NEW x, x \notin S
    PROVE  /\ IsFiniteSet(S \cup {x}) /\ Cardinality(S \cup {x}) = Cardinality(S) + 1
           /\ Cardinality(S) \in Nat
  BY FS_AddElement, FS_CardinalityType

LEMMA OneLess ==
    ASSUME NEW S, IsFiniteSet(S), NEW x
    PROVE  /\ IsFiniteSet(S \ {x}) /\ Cardinality(S) \in Nat /\ Cardinality(S \ {x}) \in Nat
           /\ x \in S => Cardinality(S \ {x}) = Cardinality(S) - 1
           /\ x \notin S => Cardinality(S \ {x}) = Cardinality(S)
  <1>1. x \notin S => S \ {x} = S
    OBVIOUS
  <1>2. QED
    BY <1>1, FS_RemoveElement, FS_CardinalityType

\* An allowed call keeps the invariant.
LEMMA RequestStep ==
    ASSUME BreakerIInv, NEW p \in Callers, Request(p)
    PROVE  BreakerIInv'
  <1> USE CircuitBreakerConstants DEF counters
  <1>1. /\ p \notin calling /\ p \notin probes /\ calling' = calling \cup {p}
        /\ IsFiniteSet(calling) /\ IsFiniteSet(probes)
    BY FS_Subset DEF BreakerIInv, BreakerTypeOK, Request, AllowClosed, AllowOpen, AllowHalfOpen
  <1>2. /\ IsFiniteSet(calling') /\ Cardinality(calling') = Cardinality(calling) + 1
        /\ Cardinality(calling) \in Nat
    BY <1>1, OneMore
  <1>3. CASE AllowClosed(p)
    <2>1. BreakerTypeOK'
      BY <1>3 DEF BreakerIInv, BreakerTypeOK, AllowClosed
    <2>2. QED
      BY <1>2, <1>3, <2>1 DEF BreakerIInv, AllowClosed, PlacesAreCalls, ProbesHavePlaces,
                                FailuresBelow
  <1>4. CASE AllowOpen(p)
    <2>1. halfOpenRequests' = 1
      BY <1>4 DEF BreakerIInv, PlacesAreCalls, AllowOpen
    <2>2. BreakerTypeOK'
      BY <1>4, <2>1 DEF BreakerIInv, BreakerTypeOK, AllowOpen
    <2>3. Cardinality(probes') = 1 /\ stale' = 0
      BY <1>4, FS_Singleton DEF AllowOpen
    <2>4. state' = "HalfOpen"
      BY <1>4 DEF AllowOpen
    <2>5. QED
      BY <1>2, <2>1, <2>2, <2>3, <2>4
      DEF BreakerIInv, PlacesAreCalls, ProbesHavePlaces, FailuresBelow
  <1>5. CASE AllowHalfOpen(p)
    <2>1. BreakerTypeOK'
      BY <1>5 DEF BreakerIInv, BreakerTypeOK, AllowHalfOpen, MayProbe
    <2>2. Cardinality(probes') = Cardinality(probes) + 1 /\ Cardinality(probes) \in Nat
      BY <1>1, <1>5, OneMore DEF AllowHalfOpen
    <2>3. /\ halfOpenRequests' = halfOpenRequests + 1 /\ stale' = stale
          /\ state = "HalfOpen" /\ state' = "HalfOpen"
          /\ halfOpenRequests \in Nat /\ stale \in Nat
      BY <1>5 DEF BreakerIInv, BreakerTypeOK, AllowHalfOpen
    <2>4. PlacesAreCalls' /\ ProbesHavePlaces'
      BY <1>2, <2>2, <2>3 DEF BreakerIInv, PlacesAreCalls, ProbesHavePlaces
    <2>5. QED
      BY <1>2, <2>1, <2>3, <2>4 DEF BreakerIInv, FailuresBelow
  <1>6. QED
    BY <1>3, <1>4, <1>5 DEF Request

\* A reported result keeps the invariant, in whatever state it arrives.
LEMMA ReportStep ==
    ASSUME BreakerIInv, NEW p \in Callers, Succeed(p) \/ Fail(p)
    PROVE  BreakerIInv'
  <1> USE CircuitBreakerConstants DEF counters
  <1>1. /\ p \in calling /\ calling' = calling \ {p} /\ probes' = probes \ {p}
        /\ stale' = IF state = "HalfOpen" /\ p \notin probes THEN stale + 1 ELSE stale
        /\ IsFiniteSet(calling) /\ IsFiniteSet(probes)
    BY FS_Subset DEF BreakerIInv, BreakerTypeOK, Succeed, Fail, Report
  <1>2. /\ IsFiniteSet(calling') /\ Cardinality(calling') = Cardinality(calling) - 1
        /\ Cardinality(calling) \in Nat /\ Cardinality(calling') \in Nat
    BY <1>1, OneLess
  <1>3. /\ Cardinality(probes) \in Nat /\ Cardinality(probes') \in Nat
        /\ p \in probes => Cardinality(probes') = Cardinality(probes) - 1
        /\ p \notin probes => Cardinality(probes') = Cardinality(probes)
    BY <1>1, OneLess
  <1>4. /\ halfOpenRequests \in 0 .. MaxConcurrent /\ failures \in 0 .. FailureThreshold
        /\ successes \in 0 .. SuccessThreshold - 1 /\ stale \in Nat
        /\ state \in {"Closed", "Open", "HalfOpen"}
    BY DEF BreakerIInv, BreakerTypeOK
  <1>5. \/ state' = "HalfOpen" /\ state = "HalfOpen" /\ halfOpenRequests' = FreePlace
        \/ state' # "HalfOpen" /\ halfOpenRequests' = 0
    <2>1. CASE state = "HalfOpen"
      BY <2>1 DEF Succeed, Fail
    <2>2. CASE state # "HalfOpen"
      BY <1>4, <2>2 DEF BreakerIInv, PlacesAreCalls, Succeed, Fail
    <2>3. QED
      BY <2>1, <2>2
  <1>6. PlacesAreCalls'
    BY <1>2, <1>4, <1>5 DEF BreakerIInv, PlacesAreCalls, FreePlace
  <1>7. ProbesHavePlaces'
    BY <1>1, <1>3, <1>4, <1>5 DEF BreakerIInv, ProbesHavePlaces, FreePlace
  <1>8. BreakerTypeOK'
    <2>1. /\ state' \in {"Closed", "Open", "HalfOpen"} /\ failures' \in 0 .. FailureThreshold
          /\ successes' \in 0 .. SuccessThreshold - 1
      <3>1. CASE Succeed(p)
        BY <1>4, <3>1 DEF Succeed
      <3>2. CASE Fail(p)
        <4>0. failures \in Nat /\ 0 \in 0 .. SuccessThreshold - 1
          BY <1>4
        <4>1. CASE state = "Closed" /\ failures + 1 < FailureThreshold
          BY <1>4, <3>2, <4>0, <4>1 DEF Fail
        <4>2. CASE state = "Closed" /\ failures + 1 >= FailureThreshold
          <5>1. state' = "Open" /\ failures' = failures + 1 /\ successes' = 0
            BY <3>2, <4>0, <4>2 DEF Fail
          <5>2. failures < FailureThreshold
            BY <4>2 DEF BreakerIInv, FailuresBelow
          <5>3. QED
            BY <4>0, <5>1, <5>2
        <4>3. CASE state = "Open"
          BY <1>4, <3>2, <4>3 DEF Fail
        <4>4. CASE state = "HalfOpen"
          BY <1>4, <3>2, <4>0, <4>4 DEF Fail
        <4>5. QED
          BY <1>4, <4>0, <4>1, <4>2, <4>3, <4>4
      <3>3. QED
        BY <3>1, <3>2
    <2>2. halfOpenRequests' \in 0 .. MaxConcurrent
      BY <1>4, <1>5 DEF FreePlace
    <2>3. {ripe', healthy'} \subseteq BOOLEAN
      BY DEF BreakerIInv, BreakerTypeOK, Succeed, Fail
    <2>4. calling' \subseteq Callers /\ probes' \subseteq calling' /\ stale' \in Nat
      BY <1>1, <1>4 DEF BreakerIInv, BreakerTypeOK
    <2>5. QED
      BY <2>1, <2>2, <2>3, <2>4 DEF BreakerTypeOK
  <1>9. FailuresBelow'
    <2>1. CASE Succeed(p)
      BY <1>4, <2>1 DEF BreakerIInv, FailuresBelow, Succeed
    <2>2. CASE Fail(p)
      BY <1>4, <2>2 DEF BreakerIInv, FailuresBelow, Fail
    <2>3. QED
      BY <2>1, <2>2
  <1>10. QED
    BY <1>2, <1>6, <1>7, <1>8, <1>9 DEF BreakerIInv

LEMMA BreakerStep == BreakerIInv /\ [BreakerNext]_breakerVars => BreakerIInv'
  <1> SUFFICES ASSUME BreakerIInv, [BreakerNext]_breakerVars PROVE BreakerIInv'
    OBVIOUS
  <1>1. CASE Reset
    BY <1>1, CircuitBreakerConstants, FS_CardinalityType
    DEF Reset, BreakerIInv, BreakerTypeOK, PlacesAreCalls, ProbesHavePlaces, FailuresBelow
  <1>2. CASE TimePasses \/ HostChanges \/ UNCHANGED breakerVars
    BY <1>2 DEF TimePasses, HostChanges, breakerVars, counters, BreakerIInv, BreakerTypeOK, PlacesAreCalls,
                ProbesHavePlaces, FailuresBelow
  <1>3. QED
    BY <1>1, <1>2, RequestStep, ReportStep DEF BreakerNext

LEMMA BreakerInvariance == BreakerSpec => []BreakerIInv
  BY BreakerInitIInv, BreakerStep, PTL DEF BreakerSpec

\* Counters stay within the thresholds, for all thresholds and callers.
THEOREM BreakerTypeCorrect == BreakerSpec => []BreakerTypeOK
  <1>1. BreakerIInv => BreakerTypeOK
    BY DEF BreakerIInv
  <1>2. QED
    BY <1>1, BreakerInvariance, PTL

\* Every place taken in half-open belongs to a call that will report.
THEOREM PlacesAreCallsAlways == BreakerSpec => []PlacesAreCalls
  <1>1. BreakerIInv => PlacesAreCalls
    BY DEF BreakerIInv
  <1>2. QED
    BY <1>1, BreakerInvariance, PTL

\* More probes than MaxConcurrent are in flight only after late results.
THEOREM ProbesBoundedAlways == BreakerSpec => []ProbesBounded
  <1>1. BreakerIInv => ProbesBounded
    <2> SUFFICES ASSUME BreakerIInv, state = "HalfOpen"
                 PROVE  Cardinality(probes) <= MaxConcurrent + stale
      BY DEF ProbesBounded
    <2>1. Cardinality(probes) <= halfOpenRequests + stale
      BY DEF BreakerIInv, ProbesHavePlaces
    <2>2. IsFiniteSet(probes)
      BY FS_Subset DEF BreakerIInv, BreakerTypeOK
    <2>3. Cardinality(probes) \in Nat
      BY <2>2, FS_CardinalityType
    <2>4. QED
      BY <2>1, <2>3, CircuitBreakerConstants DEF BreakerIInv, BreakerTypeOK
  <1>2. QED
    BY <1>1, BreakerInvariance, PTL

-------------------------------------------------------------------------------
(* robots.txt: what the parser makes of a file, whatever its length.        *)

Start == [matching |-> FALSE, allow |-> {}, disallow |-> {}]

\* The recursive function that ParseLines chooses exists.
LEMMA ParseLinesDef ==
    ASSUME NEW file \in Seq(Directives)
    PROVE  ParseLines(file) = [i \in 0..Len(file) |->
                                 IF i = 0 THEN Start
                                          ELSE ParseLine(ParseLines(file)[i - 1], file[i])]
  <1> DEFINE Grown(f, n) == [i \in 0..n |-> IF i = 0 THEN Start ELSE ParseLine(f[i - 1], file[i])]
             sizes == {n \in Nat : \E f : f = Grown(f, n)}
  <1>1. 0 \in sizes
    <2> DEFINE f == [i \in 0..0 |-> Start]
    <2>1. f = Grown(f, 0)
      OBVIOUS
    <2>2. QED
      BY <2>1
  <1>2. ASSUME NEW n \in Nat, n \in sizes PROVE n + 1 \in sizes
    <2>1. PICK f : f = Grown(f, n)
      BY <1>2
    <2> DEFINE g == [i \in 0..(n + 1) |-> IF i <= n THEN f[i] ELSE ParseLine(f[n], file[n + 1])]
    <2>2. f[0] = Start /\ \A i \in 1..n : f[i] = ParseLine(f[i - 1], file[i])
      <3> HIDE DEF Start
      <3>1. \A i \in 0..n : f[i] = IF i = 0 THEN Start ELSE ParseLine(f[i - 1], file[i])
        BY <2>1, Zenon
      <3>2. QED
        BY <3>1
    <2>3. ASSUME NEW i \in 0..(n + 1)
          PROVE  g[i] = IF i = 0 THEN Start ELSE ParseLine(g[i - 1], file[i])
      <3>1. CASE i = 0
        BY <2>2, <3>1
      <3>2. CASE i \in 1..n
        <4>1. g[i] = f[i] /\ g[i - 1] = f[i - 1]
          BY <3>2
        <4>2. QED
          BY <2>2, <3>2, <4>1
      <3>3. CASE i = n + 1
        <4>1. g[i] = ParseLine(f[n], file[n + 1]) /\ g[i - 1] = f[n]
          BY <3>3
        <4>2. QED
          BY <3>3, <4>1
      <3>4. QED
        BY <3>1, <3>2, <3>3
    <2>4. g = Grown(g, n + 1)
      BY <2>3
    <2> HIDE DEF g, Grown
    <2>5. \E h : h = Grown(h, n + 1)
      BY <2>4
    <2>6. QED
      BY <2>5
  <1>3. \E f : f = Grown(f, Len(file))
    <2> HIDE DEF Grown
    <2>1. \A n \in Nat : n \in sizes
      <3> HIDE DEF sizes
      <3>1. QED
        BY <1>1, <1>2, NatSetInduction
    <2>2. QED
      BY <2>1
  <1>4. ParseLines(file) = CHOOSE f : f = Grown(f, Len(file))
    BY DEF ParseLines, Start
  <1>5. QED
    BY <1>3, <1>4

\* The rules made of the first n lines, by the reading of Applies.
RulesOf(file, key, n) ==
  {pattern \in SUBSET Paths :
     \E i \in 1..n : file[i].key = key /\ Applies(file, i) /\ file[i].value = pattern}

\* One line more: whether the next line is one of a group for this crawler.
LEMMA AppliesNext ==
    ASSUME NEW file \in Seq(Directives), NEW n \in Nat, n + 1 \in 1..Len(file)
    PROVE  Applies(file, n + 2) <=> IF file[n + 1].key = "user-agent"
                                    THEN file[n + 1].value ELSE Applies(file, n + 1)
  <1> DEFINE agent(k) == file[k].key = "user-agent"
  <1>1. \A i \in Nat : Applies(file, i) <=> \E g \in 1..(i - 1) :
                          agent(g) /\ file[g].value /\ \A k \in (g + 1)..(i - 1) : ~agent(k)
    BY DEF Applies
  <1> HIDE DEF agent
  <1>2. CASE agent(n + 1)
    <2>1. Applies(file, n + 2) => file[n + 1].value
      <3>1. SUFFICES ASSUME NEW g \in 1..(n + 1), file[g].value,
                            \A k \in (g + 1)..(n + 1) : ~agent(k)
                     PROVE  file[n + 1].value
        BY <1>1
      <3>2. g = n + 1
        BY <1>2, <3>1
      <3>3. QED
        BY <3>1, <3>2
    <2>2. file[n + 1].value => Applies(file, n + 2)
      <3>1. n + 1 \in 1..(n + 2 - 1) /\ (n + 1 + 1)..(n + 2 - 1) = {}
        OBVIOUS
      <3>2. QED
        BY <1>1, <1>2, <3>1
    <2>3. QED
      BY <1>2, <2>1, <2>2 DEF agent
  <1>3. CASE ~agent(n + 1)
    <2>1. ASSUME Applies(file, n + 2) PROVE Applies(file, n + 1)
      <3>1. PICK g \in 1..(n + 1) : /\ agent(g) /\ file[g].value
                                    /\ \A k \in (g + 1)..(n + 1) : ~agent(k)
        BY <1>1, <2>1
      <3>2. g \in 1..n
        BY <1>3, <3>1
      <3>3. QED
        BY <1>1, <3>1, <3>2
    <2>2. ASSUME Applies(file, n + 1) PROVE Applies(file, n + 2)
      <3>1. PICK g \in 1..n : /\ agent(g) /\ file[g].value
                              /\ \A k \in (g + 1)..n : ~agent(k)
        BY <1>1, <2>2
      <3>2. \A k \in (g + 1)..(n + 1) : ~agent(k)
        BY <1>3, <3>1
      <3>3. QED
        BY <1>1, <3>1, <3>2
    <2>3. QED
      BY <1>3, <2>1, <2>2 DEF agent
  <1>4. QED
    BY <1>2, <1>3

ParserState == [matching : BOOLEAN, allow : SUBSET SUBSET Paths, disallow : SUBSET SUBSET Paths]

\* What the parser knows after n lines.
ReadUpTo(file, n) ==
  LET s == ParseLines(file)[n]
  IN /\ s \in ParserState
     /\ s.matching <=> Applies(file, n + 1)
     /\ s.allow = RulesOf(file, "allow", n)
     /\ s.disallow = RulesOf(file, "disallow", n)

LEMMA Parsing ==
    ASSUME NEW file \in Seq(Directives)
    PROVE  \A n \in 0..Len(file) : ReadUpTo(file, n)
  <1> DEFINE read == {n \in Nat : n <= Len(file) => ReadUpTo(file, n)}
  <1>1. 0 \in read
    <2>1. ParseLines(file)[0] = Start
      BY ParseLinesDef
    <2>2. ~Applies(file, 0 + 1)
      BY DEF Applies
    <2>3. \A key : RulesOf(file, key, 0) = {}
      BY DEF RulesOf
    <2>4. Start \in ParserState /\ ~Start.matching /\ Start.allow = {} /\ Start.disallow = {}
      BY DEF Start, ParserState
    <2> HIDE DEF Start
    <2>5. QED
      BY <2>1, <2>2, <2>3, <2>4 DEF ReadUpTo
  <1>2. ASSUME NEW n \in Nat, n \in read PROVE n + 1 \in read
    <2> SUFFICES ASSUME n + 1 <= Len(file) PROVE ReadUpTo(file, n + 1)
      OBVIOUS
    <2> DEFINE s == ParseLines(file)[n]
               line == file[n + 1]
               t == ParseLines(file)[n + 1]
    <2>1. t = ParseLine(s, line)
      BY ParseLinesDef
    <2>2. ReadUpTo(file, n)
      BY <1>2
    <2>3. line \in Directives /\ n + 1 \in 1..Len(file)
      OBVIOUS
    <2>4. s \in ParserState /\ (s.matching <=> Applies(file, n + 1))
      BY <2>2 DEF ReadUpTo
    <2>5. Applies(file, n + 2) <=> IF line.key = "user-agent" THEN line.value ELSE Applies(file, n + 1)
      BY <2>3, AppliesNext
    <2>6. ASSUME NEW key, key # "user-agent"
          PROVE  RulesOf(file, key, n + 1) =
                   IF line.key = key /\ s.matching THEN RulesOf(file, key, n) \cup {line.value}
                                                   ELSE RulesOf(file, key, n)
      <3>1. 1..(n + 1) = 1..n \cup {n + 1}
        OBVIOUS
      <3>2. line.key = key => line.value \in SUBSET Paths
        BY <2>3, <2>6 DEF Directives
      <3>3. QED
        BY <2>4, <3>1, <3>2 DEF RulesOf
    <2>7. /\ s.allow = RulesOf(file, "allow", n)
          /\ s.disallow = RulesOf(file, "disallow", n)
      BY <2>2 DEF ReadUpTo
    <2>8. SUFFICES /\ t \in ParserState
                   /\ t.matching <=> Applies(file, n + 2)
                   /\ t.allow = RulesOf(file, "allow", n + 1)
                   /\ t.disallow = RulesOf(file, "disallow", n + 1)
      <3>1. (n + 1) + 1 = n + 2
        OBVIOUS
      <3>2. QED
        BY <3>1 DEF ReadUpTo
    <2> HIDE DEF s, line, t
    <2>9. CASE line.key = "user-agent"
      <3>1. line.value \in BOOLEAN
        BY <2>3, <2>9 DEF Directives
      <3>2. t = [s EXCEPT !.matching = line.value]
        BY <2>1, <2>9 DEF ParseLine
      <3>3. /\ t \in ParserState /\ t.matching = line.value
            /\ t.allow = s.allow /\ t.disallow = s.disallow
        BY <2>4, <3>1, <3>2 DEF ParserState
      <3>4. QED
        BY <2>4, <2>5, <2>6, <2>7, <2>9, <3>3
    <2>10. CASE line.key = "allow" /\ s.matching
      <3>1. line.value \in SUBSET Paths
        BY <2>3, <2>10 DEF Directives
      <3>2. t = [s EXCEPT !.allow = @ \cup {line.value}]
        BY <2>1, <2>10 DEF ParseLine
      <3>3. /\ t \in ParserState /\ t.matching = s.matching
            /\ t.allow = s.allow \cup {line.value} /\ t.disallow = s.disallow
        BY <2>4, <3>1, <3>2 DEF ParserState
      <3>4. QED
        BY <2>4, <2>5, <2>6, <2>7, <2>10, <3>3
    <2>11. CASE line.key = "disallow" /\ s.matching
      <3>1. line.value \in SUBSET Paths
        BY <2>3, <2>11 DEF Directives
      <3>2. t = [s EXCEPT !.disallow = @ \cup {line.value}]
        BY <2>1, <2>11 DEF ParseLine
      <3>3. /\ t \in ParserState /\ t.matching = s.matching
            /\ t.allow = s.allow /\ t.disallow = s.disallow \cup {line.value}
        BY <2>4, <3>1, <3>2 DEF ParserState
      <3>4. QED
        BY <2>4, <2>5, <2>6, <2>7, <2>11, <3>3
    <2>12. CASE line.key # "user-agent" /\ ~(line.key \in {"allow", "disallow"} /\ s.matching)
      <3>1. t = s
        BY <2>1, <2>12 DEF ParseLine
      <3>2. QED
        BY <2>4, <2>5, <2>6, <2>7, <2>12, <3>1
    <2>13. QED
      BY <2>9, <2>10, <2>11, <2>12
  <1>3. \A n \in Nat : n \in read
    <2> HIDE DEF read
    <2>1. QED
      BY <1>1, <1>2, NatSetInduction
  <1>4. QED
    BY <1>3

\* The rules of a file mean what the file says: of every file.
LEMMA ParsedAsMeant ==
    ASSUME NEW file \in Seq(Directives), NEW path
    PROVE  RulesAllow(ParseRobots(file), path) <=> Permitted(file, path)
  <1> DEFINE n == Len(file)
             Hit(key) == \E i \in DOMAIN file :
                            file[i].key = key /\ Applies(file, i) /\ path \in file[i].value
  <1>1. ReadUpTo(file, n)
    BY Parsing
  <1>2. /\ ParseRobots(file).allow = RulesOf(file, "allow", n)
        /\ ParseRobots(file).disallow = RulesOf(file, "disallow", n)
    BY <1>1 DEF ReadUpTo, ParseRobots
  <1>3. ASSUME NEW key \in {"allow", "disallow"}
        PROVE  (\E pattern \in RulesOf(file, key, n) : path \in pattern) <=> Hit(key)
    <2>1. \A i \in DOMAIN file : file[i].key = key => file[i].value \in SUBSET Paths
      BY DEF Directives
    <2>2. QED
      BY <2>1 DEF RulesOf
  <1>4. Permitted(file, path) <=> Hit("allow") \/ ~Hit("disallow")
    BY DEF Permitted
  <1> HIDE DEF n, Hit
  <1>5. QED
    BY <1>2, <1>3, <1>4 DEF RulesAllow

-------------------------------------------------------------------------------
(* The inductive invariant, a part for each of the components.             *)

StagesOK == role \in Teams /\ cancelled \in BOOLEAN /\ stage \in [Goroutines -> Places]

\* A goroutine's own stamps are stamps; and its sleep ends Delay after them.
Paced ==
  \A c \in Goroutines :
    /\ \A d \in Domains : since[d] <= own[c][d]
    /\ stage[c] = "sleep" => own[c][domain[c]] + sleep[c] >= Delay

LimiterOK ==
  /\ domain \in [Goroutines -> Domains] /\ sleep \in [Goroutines -> 0..Delay]
  /\ since \in [Domains -> 0..Delay] /\ own \in [Goroutines -> [Domains -> 0..Delay]]
  /\ Paced

\* What Do has seen: as many errors as attempts have come back, all of them
\* worth another attempt but for the last.
Worth(c, n) == \A i \in 1..n : shouldRetry(seen[c][i])
Trying(c) ==
  /\ stage[c] \in {"idle", "request", "sent", "failed", "backoff"}
  /\ stage[c] \in {"request", "sent"} =>
       Len(seen[c]) + 1 = attempts[c] /\ Worth(c, Len(seen[c]))
  /\ stage[c] \in {"failed", "backoff"} =>
       /\ Len(seen[c]) = attempts[c] /\ attempts[c] > 0
       /\ err[c] = seen[c][attempts[c]] /\ err[c] # "none"
       /\ Worth(c, attempts[c] - 1)
  /\ stage[c] = "backoff" => shouldRetry(err[c])

Errors == ErrorTypes \cup {"none"}
ClientOK ==
  /\ attempts \in [Goroutines -> 0..(MaxRetries + 1)] /\ delay \in [Goroutines -> Nat]
  /\ err \in [Goroutines -> Errors] /\ seen \in [Goroutines -> Seq(Errors)]
  /\ \A c \in Goroutines : /\ stage[c] = "backoff" => attempts[c] <= MaxRetries
                           /\ role[c] = "retry" => Trying(c)

AdaptiveOK ==
  /\ errorCount \in Nat /\ successCount \in Nat /\ errorCount + successCount < windowSize
  /\ currentRate \in minRate..maxRate /\ limit \in minRate..maxRate

\* The rules in force are those of the file they came from.
RobotsOK ==
  /\ fetching \in [Schemes -> Nat] /\ fetching["https"] + fetching["http"] <= MaxFetches
  /\ robotsTxt \in Files
  /\ \A r \in rules : \/ source \in Files /\ r = ParseRobots(source)
                      \/ source = <<>> /\ r = AllowAll

RequestsIInv == StagesOK /\ LimiterOK /\ ClientOK /\ AdaptiveOK /\ RobotsOK

LEMMA RequestsTypes == RequestsIInv => RequestsTypeOK
  <1> SUFFICES ASSUME RequestsIInv PROVE RequestsTypeOK
    OBVIOUS
  <1> USE NumbersAssumption DEF RequestsIInv
  <1>1. errorCount + successCount \in 0..(windowSize - 1) /\ {currentRate, limit} \subseteq minRate..maxRate
    BY DEF AdaptiveOK
  <1>2. fetching \in [Schemes -> 0..MaxFetches]
    <2>1. fetching["https"] \in 0..MaxFetches /\ fetching["http"] \in 0..MaxFetches
      BY DEF RobotsOK, Schemes
    <2>2. QED
      BY <2>1 DEF RobotsOK, Schemes
  <1>3. QED
    BY <1>1, <1>2 DEF RequestsTypeOK, StagesOK, LimiterOK, ClientOK, Errors

\* What does not touch a component.
LEMMA LimiterStays ==
  ASSUME LimiterOK, UNCHANGED limiterVars,
         \A c \in Goroutines : stage'[c] = "sleep" => stage[c] = "sleep"
  PROVE  LimiterOK'
  BY DEF LimiterOK, Paced, limiterVars

LEMMA ClientStays ==
  ASSUME ClientOK, UNCHANGED <<role, clientVars>>,
         \A c \in Goroutines : \/ stage'[c] = stage[c]
                               \/ role[c] # "retry" /\ stage'[c] # "backoff"
  PROVE  ClientOK'
  BY DEF ClientOK, Trying, Worth, clientVars

LEMMA AdaptiveStays == AdaptiveOK /\ UNCHANGED adaptiveVars => AdaptiveOK'
  BY DEF AdaptiveOK, adaptiveVars

LEMMA RobotsStays == RobotsOK /\ UNCHANGED robotsVars => RobotsOK'
  BY DEF RobotsOK, robotsVars

LEMMA RequestsInitIInv == RequestsInit => RequestsIInv
  <1> SUFFICES ASSUME RequestsInit PROVE RequestsIInv
    OBVIOUS
  <1> USE NumbersAssumption DEF RequestsInit
  <1>1. StagesOK
    BY DEF StagesOK, Places
  <1>2. LimiterOK
    <2>1. (CHOOSE d \in Domains : TRUE) \in Domains
      BY DomainsAssumption
    <2>2. /\ domain \in [Goroutines -> Domains] /\ sleep \in [Goroutines -> 0..Delay]
          /\ since \in [Domains -> 0..Delay]
      BY <2>1
    <2>3. own \in [Goroutines -> [Domains -> 0..Delay]]
      OBVIOUS
    <2>4. Paced
      <3>1. \A c \in Goroutines : stage[c] # "sleep"
        OBVIOUS
      <3>2. QED
        BY <3>1 DEF Paced
    <2>5. QED
      BY <2>2, <2>3, <2>4 DEF LimiterOK
  <1>3. ClientOK
    <2>1. attempts \in [Goroutines -> 0..(MaxRetries + 1)] /\ delay \in [Goroutines -> Nat]
      OBVIOUS
    <2>2. err \in [Goroutines -> Errors] /\ seen \in [Goroutines -> Seq(Errors)]
      BY DEF Errors
    <2>3. \A c \in Goroutines : stage[c] # "backoff" /\ (role[c] = "retry" => stage[c] = "idle")
      OBVIOUS
    <2>4. QED
      BY <2>1, <2>2, <2>3 DEF ClientOK, Trying
  <1>4. AdaptiveOK
    BY DEF AdaptiveOK
  <1>5. RobotsOK
    <2>1. robotsTxt \in Files
      BY FilesAssumption
    <2>2. QED
      BY <2>1 DEF RobotsOK, Schemes
  <1>6. QED
    BY <1>1, <1>2, <1>3, <1>4, <1>5 DEF RequestsIInv

\* One goroutine goes to another place.
LEMMA Enters ==
  ASSUME RequestsIInv, NEW c \in Goroutines, NEW place \in Places, Enter(c, place)
  PROVE  /\ stage' \in [Goroutines -> Places] /\ stage'[c] = place
         /\ \A b \in Goroutines : b # c => stage'[b] = stage[b]
  BY DEF Enter, RequestsIInv, StagesOK

-------------------------------------------------------------------------------
LEMMA TickStep ==
  ASSUME RequestsIInv, Tick
  PROVE  RequestsIInv'
  <1> USE NumbersAssumption DEF RequestsIInv
  <1> DEFINE Older(n) == IF n < Delay THEN n + 1 ELSE n
  <1>1. /\ since' = [d \in Domains |-> Older(since[d])]
        /\ own' = [c \in Goroutines |-> [d \in Domains |-> Older(own[c][d])]]
        /\ sleep' = [c \in Goroutines |-> IF sleep[c] > 0 THEN sleep[c] - 1 ELSE 0]
        /\ UNCHANGED <<role, cancelled, stage, domain, clientVars, adaptiveVars, robotsVars>>
    BY DEF Tick
  <1>2. \A n \in 0..Delay : Older(n) \in 0..Delay
    OBVIOUS
  <1>3. \A m, n \in 0..Delay : m <= n => Older(m) <= Older(n)
    OBVIOUS
  <1>4. \A c \in Goroutines, d \in Domains : own[c][d] \in 0..Delay /\ since[d] \in 0..Delay
    BY DEF LimiterOK
  <1> HIDE DEF Older
  <1>5. /\ since' \in [Domains -> 0..Delay]
        /\ \A d \in Domains : since'[d] = Older(since[d])
    <2>1. \A d \in Domains : Older(since[d]) \in 0..Delay
      BY <1>2 DEF LimiterOK
    <2>2. QED
      BY <1>1, <2>1
  <1>6. /\ own' \in [Goroutines -> [Domains -> 0..Delay]]
        /\ \A c \in Goroutines, d \in Domains : own'[c][d] = Older(own[c][d])
    BY <1>1, <1>2, <1>4
  <1>7. /\ sleep' \in [Goroutines -> 0..Delay]
        /\ \A c \in Goroutines : sleep'[c] = IF sleep[c] > 0 THEN sleep[c] - 1 ELSE 0
    BY <1>1 DEF LimiterOK
  <1>8. Paced'
    <2>1. \A c \in Goroutines, d \in Domains : since'[d] <= own'[c][d]
      BY <1>3, <1>4, <1>5, <1>6 DEF LimiterOK, Paced
    <2>2. ASSUME NEW c \in Goroutines, stage[c] = "sleep"
          PROVE  own'[c][domain[c]] + sleep'[c] >= Delay
      <3>1. domain[c] \in Domains /\ sleep[c] \in 0..Delay /\ own[c][domain[c]] + sleep[c] >= Delay
        BY <2>2 DEF LimiterOK, Paced
      <3>2. own'[c][domain[c]] = Older(own[c][domain[c]]) /\ own[c][domain[c]] \in 0..Delay
        BY <1>4, <1>6, <3>1
      <3>3. QED
        BY <1>7, <3>1, <3>2 DEF Older
    <2>3. QED
      BY <1>1, <2>1, <2>2 DEF Paced
  <1>9. LimiterOK'
    BY <1>1, <1>5, <1>6, <1>7, <1>8 DEF LimiterOK
  <1>10. StagesOK' /\ ClientOK' /\ AdaptiveOK' /\ RobotsOK'
    BY <1>1, ClientStays, AdaptiveStays, RobotsStays DEF StagesOK
  <1>11. QED
    BY <1>9, <1>10

\* A crawl worker stamps its domain.
LEMMA StampStep ==
  ASSUME LimiterOK, NEW c \in Goroutines, StampRequest(c), UNCHANGED domain,
         sleep' \in [Goroutines -> 0..Delay],
         \A b \in Goroutines : b # c => sleep'[b] = sleep[b],
         stage \in [Goroutines -> Places]
  PROVE  LimiterOK'
  <1> USE NumbersAssumption
  <1> DEFINE e == domain[c]
  <1>1. /\ e \in Domains
        /\ since' = [since EXCEPT ![e] = 0] /\ own' = [own EXCEPT ![c][e] = 0]
        /\ stage' = [stage EXCEPT ![c] = "token"]
    BY DEF StampRequest, Enter, LimiterOK
  <1> HIDE DEF e
  <1>2. /\ since' \in [Domains -> 0..Delay] /\ since'[e] = 0
        /\ \A d \in Domains : since'[d] <= since[d]
    BY <1>1 DEF LimiterOK
  <1>3. /\ own' \in [Goroutines -> [Domains -> 0..Delay]]
        /\ \A b \in Goroutines : b # c => own'[b] = own[b]
        /\ \A d \in Domains : d # e => own'[c][d] = own[c][d]
        /\ own'[c][e] = 0
    BY <1>1 DEF LimiterOK
  <1>4. stage'[c] = "token" /\ \A b \in Goroutines : b # c => stage'[b] = stage[b]
    BY <1>1
  <1>5. \A b \in Goroutines, d \in Domains : since'[d] <= own'[b][d]
    <2>1. \A b \in Goroutines, d \in Domains : since[d] \in Nat /\ own[b][d] \in Nat /\ since'[d] \in Nat /\ own'[b][d] \in Nat
      BY <1>2, <1>3 DEF LimiterOK
    <2>2. ASSUME NEW b \in Goroutines, NEW d \in Domains PROVE since'[d] <= own'[b][d]
      <3>1. CASE b = c /\ d = e
        BY <1>2, <1>3, <3>1
      <3>2. CASE ~(b = c /\ d = e)
        <4>1. own'[b][d] = own[b][d]
          BY <1>3, <3>2
        <4>2. since'[d] <= since[d] /\ since[d] <= own[b][d]
          BY <1>2 DEF LimiterOK, Paced
        <4>3. QED
          BY <2>1, <4>1, <4>2
      <3>3. QED
        BY <3>1, <3>2
    <2>3. QED
      BY <2>2
  <1>6. \A b \in Goroutines : stage'[b] = "sleep" => own'[b][domain[b]] + sleep'[b] >= Delay
    BY <1>3, <1>4 DEF LimiterOK, Paced
  <1>7. QED
    BY <1>2, <1>3, <1>5, <1>6 DEF LimiterOK, Paced

LEMMA WorkerWaitStep ==
  ASSUME RequestsIInv, NEW c \in Goroutines,
         CallWaitDomain(c) \/ WaitGlobal(c) \/ WaitDomainLimiter(c) \/ CheckDelay(c) \/ AfterSleep(c)
  PROVE  RequestsIInv'
  <1> USE NumbersAssumption DEF RequestsIInv
  <1>1. PICK place \in {"global", "look", "request", "idle", "sleep", "token"} : Enter(c, place)
    BY DEF CallWaitDomain, WaitGlobal, WaitDomainLimiter, CheckDelay, AfterSleep, TakeToken, StampRequest
  <1>2. /\ stage' \in [Goroutines -> Places] /\ stage'[c] = place
        /\ \A b \in Goroutines : b # c => stage'[b] = stage[b]
    BY <1>1, Enters DEF Places
  <1>3. UNCHANGED <<role, cancelled, clientVars, adaptiveVars, robotsVars>>
    BY DEF CallWaitDomain, WaitGlobal, WaitDomainLimiter, CheckDelay, AfterSleep, TakeToken
  <1>4. role[c] # "retry"
    BY DEF CallWaitDomain, WaitGlobal, WaitDomainLimiter, CheckDelay, AfterSleep, TakeToken,
           ClientOK, Trying
  <1>5. StagesOK' /\ ClientOK' /\ AdaptiveOK' /\ RobotsOK'
    BY <1>2, <1>3, <1>4, ClientStays, AdaptiveStays, RobotsStays DEF StagesOK
  <1>6. LimiterOK'
    <2>1. CASE CallWaitDomain(c)
      <3>1. PICK d \in Domains : domain' = [domain EXCEPT ![c] = d]
        BY <2>1 DEF CallWaitDomain
      <3>2. stage'[c] = "global" /\ UNCHANGED <<sleep, since, own>>
        BY <2>1, Enters DEF CallWaitDomain, Places
      <3>3. domain' \in [Goroutines -> Domains] /\ \A b \in Goroutines : b # c => domain'[b] = domain[b]
        BY <3>1 DEF LimiterOK
      <3>4. QED
        BY <1>2, <3>2, <3>3 DEF LimiterOK, Paced
    <2>2. CASE WaitGlobal(c) \/ WaitDomainLimiter(c)
      <3>1. UNCHANGED limiterVars /\ stage'[c] # "sleep"
        BY <2>2, Enters DEF WaitGlobal, WaitDomainLimiter, TakeToken, Places
      <3>2. QED
        BY <1>2, <3>1, LimiterStays
    <2>3. CASE CheckDelay(c) /\ since[domain[c]] < Delay
      <3>1. /\ sleep' = [sleep EXCEPT ![c] = Delay - since[domain[c]]]
            /\ UNCHANGED <<domain, since, own>>
        BY <2>3 DEF CheckDelay
      <3>2. /\ domain[c] \in Domains /\ since[domain[c]] \in 0..Delay
            /\ own[c][domain[c]] \in 0..Delay /\ since[domain[c]] <= own[c][domain[c]]
        BY DEF LimiterOK, Paced
      <3>3. /\ sleep' \in [Goroutines -> 0..Delay] /\ sleep'[c] = Delay - since[domain[c]]
            /\ \A b \in Goroutines : b # c => sleep'[b] = sleep[b]
        BY <3>1, <3>2 DEF LimiterOK
      <3>4. own[c][domain[c]] + sleep'[c] >= Delay
        BY <3>2, <3>3
      <3>5. QED
        BY <1>2, <3>1, <3>3, <3>4 DEF LimiterOK, Paced
    <2>4. CASE CheckDelay(c) /\ ~(since[domain[c]] < Delay)
      <3>1. StampRequest(c) /\ UNCHANGED <<sleep, domain>>
        BY <2>4 DEF CheckDelay
      <3>2. QED
        BY <3>1, StampStep DEF LimiterOK, StagesOK
    <2>5. CASE AfterSleep(c) /\ StampRequest(c)
      <3>1. UNCHANGED domain /\ sleep' \in {sleep, [sleep EXCEPT ![c] = 0]}
        BY <2>5 DEF AfterSleep
      <3>2. sleep' \in [Goroutines -> 0..Delay] /\ \A b \in Goroutines : b # c => sleep'[b] = sleep[b]
        BY <3>1 DEF LimiterOK
      <3>3. QED
        BY <2>5, <3>1, <3>2, StampStep DEF StagesOK
    <2>6. CASE AfterSleep(c) /\ ~StampRequest(c)
      <3>1. /\ UNCHANGED <<domain, since, own>> /\ sleep' = [sleep EXCEPT ![c] = 0]
            /\ stage'[c] = "idle"
        BY <2>6, Enters DEF AfterSleep, Places
      <3>2. sleep' \in [Goroutines -> 0..Delay] /\ \A b \in Goroutines : b # c => sleep'[b] = sleep[b]
        BY <3>1 DEF LimiterOK
      <3>3. QED
        BY <1>2, <3>1, <3>2 DEF LimiterOK, Paced
    <2>7. QED
      BY <2>1, <2>2, <2>3, <2>4, <2>5, <2>6
  <1>7. QED
    BY <1>5, <1>6

-------------------------------------------------------------------------------
LEMMA CategoriesAreErrors ==
  /\ \A failure \in Failures : Categorize(failure) \in ErrorTypes
  /\ \A answer \in Responses : GetError(answer) \in Errors
  /\ \A failure \in Failures \cup {"invalid"} : GetError(Failed(failure)) \in ErrorTypes
  /\ Categorize("canceled") = "cancelled"
  <1>1. \A failure \in Failures : Categorize(failure) \in ErrorTypes
    BY DEF Failures, Categorize, ErrorTypes
  <1>2. \A failure \in Failures \cup {"invalid"} : Failed(failure).failure = failure /\ failure # "none"
    BY DEF Failed, Response, Failures
  <1>3. ASSUME NEW failure \in Failures \cup {"invalid"}
        PROVE  GetError(Failed(failure)) \in ErrorTypes
    <2>1. CASE failure = "invalid"
      <3>1. Failed(failure).failure = "invalid" /\ "invalid" \notin Failures
        BY <1>2, <2>1 DEF Failures
      <3>2. GetError(Failed(failure)) = "parse"
        BY <3>1 DEF GetError
      <3>3. QED
        BY <3>2 DEF ErrorTypes
    <2>2. CASE failure # "invalid"
      <3>1. GetError(Failed(failure)) = Categorize(failure)
        BY <1>2, <2>2 DEF GetError
      <3>2. QED
        BY <1>1, <2>2, <3>1
    <2>3. QED
      BY <2>1, <2>2
  <1>4. \A answer \in Responses : answer.failure = "none"
    BY DEF Responses, Response
  <1>5. ASSUME NEW answer \in Responses PROVE GetError(answer) \in Errors
    <2>1. GetError(answer) \in {"server_error", "network", "none"}
      BY <1>4 DEF GetError
    <2>2. QED
      BY <2>1 DEF Errors, ErrorTypes
  <1>6. Categorize("canceled") = "cancelled"
    BY DEF Categorize
  <1>7. QED
    BY <1>1, <1>3, <1>5, <1>6

\* An answer, or an error, comes back to Do, or to a caller that takes it.
LEMMA AnsweredStep ==
  ASSUME RequestsIInv, NEW c \in Goroutines, NEW answer, Answered(c, answer),
         GetError(answer) \in Errors, stage[c] \in {"request", "sent"},
         UNCHANGED <<role, attempts, delay>>
  PROVE  ClientOK' /\ stage' \in [Goroutines -> Places] /\ stage'[c] # "sleep"
         /\ \A b \in Goroutines : b # c => stage'[b] = stage[b]
  <1> USE NumbersAssumption DEF RequestsIInv
  <1> DEFINE e == GetError(answer)
  <1> HIDE DEF e
  <1>1. CASE role[c] = "retry"
    <2> DEFINE place == IF e = "none" THEN "idle" ELSE "failed"
    <2>1. /\ err' = [err EXCEPT ![c] = e] /\ seen' = [seen EXCEPT ![c] = Append(@, e)]
          /\ Enter(c, place)
      BY <1>1 DEF Answered, e
    <2>2. /\ stage' \in [Goroutines -> Places] /\ stage'[c] = place
          /\ \A b \in Goroutines : b # c => stage'[b] = stage[b]
      BY <2>1, Enters DEF Places
    <2>3. e \in Errors
      BY DEF e
    <2>4. /\ err' \in [Goroutines -> Errors] /\ err'[c] = e
          /\ \A b \in Goroutines : b # c => err'[b] = err[b]
      BY <2>1, <2>3 DEF ClientOK
    <2>5. /\ seen[c] \in Seq(Errors) /\ seen' \in [Goroutines -> Seq(Errors)]
          /\ seen'[c] = Append(seen[c], e)
          /\ \A b \in Goroutines : b # c => seen'[b] = seen[b]
      BY <2>1, <2>3 DEF ClientOK
    <2>6. Trying(c)
      BY <1>1 DEF ClientOK
    <2>7. /\ Len(seen[c]) + 1 = attempts[c] /\ Worth(c, Len(seen[c]))
          /\ attempts[c] \in 0..(MaxRetries + 1)
      BY <2>6 DEF Trying, ClientOK
    <2>8. /\ Len(seen'[c]) = attempts[c] /\ attempts[c] > 0 /\ seen'[c][attempts[c]] = e
          /\ \A i \in 1..(attempts[c] - 1) : seen'[c][i] = seen[c][i]
      BY <2>5, <2>7
    <2>9. Trying(c)'
      BY <2>2, <2>4, <2>7, <2>8 DEF Trying, Worth
    <2>10. ASSUME NEW b \in Goroutines, b # c, role[b] = "retry" PROVE Trying(b)'
      BY <2>2, <2>4, <2>5, <2>10 DEF ClientOK, Trying, Worth
    <2>11. QED
      BY <2>2, <2>4, <2>5, <2>9, <2>10 DEF ClientOK
  <1>2. CASE role[c] # "retry"
    <2>1. Enter(c, "idle") /\ UNCHANGED <<err, seen>>
      BY <1>2 DEF Answered
    <2>2. /\ stage' \in [Goroutines -> Places] /\ stage'[c] = "idle"
          /\ \A b \in Goroutines : b # c => stage'[b] = stage[b]
      BY <2>1, Enters DEF Places
    <2>3. QED
      BY <1>2, <2>1, <2>2, ClientStays DEF clientVars
  <1>3. QED
    BY <1>1, <1>2

LEMMA ClientStep ==
  ASSUME RequestsIInv, NEW c \in Goroutines,
         Send(c) \/ Answer(c) \/ CallDo(c) \/ AttemptFailed(c) \/ Backoff(c)
  PROVE  RequestsIInv'
  <1> USE NumbersAssumption DEF RequestsIInv
  <1>1. UNCHANGED <<role, cancelled, limiterVars, adaptiveVars, robotsVars>>
    BY DEF Send, Answer, CallDo, AttemptFailed, Backoff
  <1>2. SUFFICES /\ ClientOK' /\ stage' \in [Goroutines -> Places] /\ stage'[c] # "sleep"
                 /\ \A b \in Goroutines : b # c => stage'[b] = stage[b]
    BY <1>1, LimiterStays, AdaptiveStays, RobotsStays DEF StagesOK
  <1>3. CASE Send(c)
    <2>1. ASSUME NEW failure \in {"canceled", "invalid"}, Answered(c, Failed(failure))
          PROVE  /\ ClientOK' /\ stage' \in [Goroutines -> Places] /\ stage'[c] # "sleep"
                 /\ \A b \in Goroutines : b # c => stage'[b] = stage[b]
      <3>1. UNCHANGED <<attempts, delay>> /\ stage[c] = "request"
        BY <1>3 DEF Send
      <3>2. GetError(Failed(failure)) \in Errors
        BY CategoriesAreErrors DEF Failures, Errors
      <3>3. QED
        BY <1>1, <2>1, <3>1, <3>2, AnsweredStep
    <2>2. CASE Enter(c, "sent") /\ UNCHANGED <<err, seen>>
      <3>1. Enter(c, "sent") /\ UNCHANGED clientVars /\ stage[c] = "request"
        BY <1>3, <2>2 DEF Send, clientVars
      <3>2. /\ stage' \in [Goroutines -> Places] /\ stage'[c] = "sent"
            /\ \A b \in Goroutines : b # c => stage'[b] = stage[b]
        BY <3>1, Enters DEF Places
      <3>3. QED
        BY <1>1, <3>1, <3>2 DEF ClientOK, Trying, Worth, clientVars
    <2>3. QED
      BY <1>3, <2>1, <2>2 DEF Send
  <1>4. CASE Answer(c)
    <2>1. PICK answer : Answered(c, answer) /\ GetError(answer) \in Errors
      <3>1. CASE \E answer \in Responses : Answered(c, answer)
        BY <3>1, CategoriesAreErrors
      <3>2. CASE \E failure \in Failures : Answered(c, Failed(failure))
        BY <3>2, CategoriesAreErrors DEF Errors
      <3>3. QED
        BY <1>4, <3>1, <3>2 DEF Answer
    <2>2. stage[c] = "sent" /\ UNCHANGED <<attempts, delay>>
      BY <1>4 DEF Answer
    <2>3. QED
      BY <1>1, <2>1, <2>2, AnsweredStep
  <1>5. CASE CallDo(c)
    <2>1. /\ Enter(c, "request") /\ UNCHANGED err
          /\ attempts' = [attempts EXCEPT ![c] = 1] /\ delay' = [delay EXCEPT ![c] = InitialDelay]
          /\ seen' = [seen EXCEPT ![c] = <<>>]
      BY <1>5 DEF CallDo
    <2>2. /\ stage' \in [Goroutines -> Places] /\ stage'[c] = "request"
          /\ \A b \in Goroutines : b # c => stage'[b] = stage[b]
      BY <2>1, Enters DEF Places
    <2>3. /\ attempts' \in [Goroutines -> 0..(MaxRetries + 1)] /\ attempts'[c] = 1
          /\ \A b \in Goroutines : b # c => attempts'[b] = attempts[b]
      BY <2>1 DEF ClientOK
    <2>4. delay' \in [Goroutines -> Nat]
      BY <2>1 DEF ClientOK
    <2>5. /\ seen' \in [Goroutines -> Seq(Errors)] /\ Len(seen'[c]) = 0
          /\ \A b \in Goroutines : b # c => seen'[b] = seen[b]
      BY <2>1 DEF ClientOK
    <2>6. Trying(c)'
      BY <2>2, <2>3, <2>5 DEF Trying, Worth
    <2>7. ASSUME NEW b \in Goroutines, b # c, role[b] = "retry" PROVE Trying(b)'
      BY <2>1, <2>2, <2>3, <2>5, <2>7 DEF ClientOK, Trying, Worth
    <2>8. QED
      BY <1>1, <2>1, <2>2, <2>3, <2>4, <2>5, <2>6, <2>7 DEF ClientOK
  <1>6. CASE AttemptFailed(c) /\ (cancelled \/ ~MayRetry(c))
    <2>1. PICK e \in {"cancelled", err[c]} : Return(c, e)
      BY <1>6 DEF AttemptFailed
    <2>2. UNCHANGED <<attempts, delay, seen>> /\ err[c] \in Errors
      BY <1>6 DEF AttemptFailed, ClientOK
    <2>3. /\ stage' \in [Goroutines -> Places] /\ stage'[c] = "idle"
          /\ \A b \in Goroutines : b # c => stage'[b] = stage[b]
      BY <2>1, Enters DEF Places, Return
    <2>4. /\ err' \in [Goroutines -> Errors] /\ \A b \in Goroutines : b # c => err'[b] = err[b]
      BY <2>1, <2>2 DEF ClientOK, Return, Errors, ErrorTypes
    <2>5. QED
      BY <1>1, <2>2, <2>3, <2>4 DEF ClientOK, Trying, Worth
  <1>7. CASE AttemptFailed(c) /\ ~cancelled /\ MayRetry(c)
    <2>1. Enter(c, "backoff") /\ UNCHANGED clientVars /\ stage[c] = "failed"
      BY <1>7 DEF AttemptFailed, clientVars
    <2>2. /\ stage' \in [Goroutines -> Places] /\ stage'[c] = "backoff"
          /\ \A b \in Goroutines : b # c => stage'[b] = stage[b]
      BY <2>1, Enters DEF Places
    <2>3. attempts[c] <= MaxRetries /\ shouldRetry(err[c])
      BY <1>7 DEF MayRetry
    <2>4. QED
      BY <1>1, <2>1, <2>2, <2>3 DEF ClientOK, Trying, Worth, clientVars
  <1>8. CASE Backoff(c) /\ Enter(c, "request")
    <2>1. /\ stage' \in [Goroutines -> Places] /\ stage'[c] = "request"
          /\ \A b \in Goroutines : b # c => stage'[b] = stage[b]
      BY <1>8, Enters DEF Places
    <2>2. /\ attempts' = [attempts EXCEPT ![c] = @ + 1]
          /\ delay' = [delay EXCEPT ![c] = nextDelay(@)]
          /\ UNCHANGED <<err, seen>> /\ stage[c] = "backoff"
      BY <1>8, <2>1 DEF Backoff, Return, Enter, StagesOK
    <2>3. attempts[c] \in 0..MaxRetries
      BY <2>2 DEF ClientOK
    <2>4. /\ attempts' \in [Goroutines -> 0..(MaxRetries + 1)] /\ attempts'[c] = attempts[c] + 1
          /\ \A b \in Goroutines : b # c => attempts'[b] = attempts[b]
      BY <2>2, <2>3 DEF ClientOK
    <2>5. delay' \in [Goroutines -> Nat]
      BY <2>2 DEF ClientOK, nextDelay
    <2>6. role[c] = "retry" => Trying(c)'
      <3>1. SUFFICES ASSUME role[c] = "retry" PROVE Trying(c)'
        OBVIOUS
      <3>2. /\ Len(seen[c]) = attempts[c] /\ attempts[c] > 0 /\ err[c] = seen[c][attempts[c]]
            /\ Worth(c, attempts[c] - 1) /\ shouldRetry(err[c])
        BY <2>2, <3>1 DEF ClientOK, Trying
      <3>3. Worth(c, Len(seen[c]))
        BY <2>3, <3>2 DEF Worth
      <3>4. QED
        BY <2>1, <2>2, <2>3, <2>4, <3>2, <3>3 DEF Trying, Worth
    <2>7. ASSUME NEW b \in Goroutines, b # c, role[b] = "retry" PROVE Trying(b)'
      BY <2>1, <2>2, <2>4, <2>7 DEF ClientOK, Trying, Worth
    <2>8. QED
      BY <1>1, <2>1, <2>2, <2>4, <2>5, <2>6, <2>7 DEF ClientOK
  <1>9. CASE Backoff(c) /\ ~Enter(c, "request")
    <2>1. Return(c, "cancelled") /\ UNCHANGED <<attempts, delay, seen>>
      BY <1>9 DEF Backoff
    <2>2. /\ stage' \in [Goroutines -> Places] /\ stage'[c] = "idle"
          /\ \A b \in Goroutines : b # c => stage'[b] = stage[b]
      BY <2>1, Enters DEF Places, Return
    <2>3. /\ err' \in [Goroutines -> Errors] /\ \A b \in Goroutines : b # c => err'[b] = err[b]
      BY <2>1 DEF ClientOK, Return, Errors, ErrorTypes
    <2>4. QED
      BY <1>1, <2>1, <2>2, <2>3 DEF ClientOK, Trying, Worth
  <1>10. QED
    BY <1>3, <1>4, <1>5, <1>6, <1>7, <1>8, <1>9

LEMMA BatchStep ==
  ASSUME RequestsIInv, NEW c \in Goroutines, AcquirePlace(c) \/ BatchDone(c)
  PROVE  RequestsIInv'
  <1> USE DEF RequestsIInv
  <1>1. PICK place \in {"request", "idle"} : Enter(c, place)
    BY DEF AcquirePlace, BatchDone
  <1>2. /\ stage' \in [Goroutines -> Places] /\ stage'[c] = place
        /\ \A b \in Goroutines : b # c => stage'[b] = stage[b]
    BY <1>1, Enters DEF Places
  <1>3. /\ UNCHANGED <<role, cancelled, limiterVars, clientVars, adaptiveVars, robotsVars>>
        /\ stage[c] \in {"acquire", "waiting"}
    BY DEF AcquirePlace, BatchDone
  <1>4. role[c] # "retry"
    BY <1>3 DEF ClientOK, Trying
  <1>5. QED
    BY <1>2, <1>3, <1>4, LimiterStays, ClientStays, AdaptiveStays, RobotsStays DEF StagesOK

\* The rate stays between its bounds.
LEMMA RatesBounded ==
  ASSUME NEW rate \in minRate..maxRate
  PROVE  Slower(rate) \in minRate..maxRate /\ Faster(rate) \in minRate..maxRate
  <1>1. minRate \in Nat /\ maxRate \in Nat /\ minRate <= maxRate /\ rate \in Nat
    BY NumbersAssumption
  <1>2. (8 * rate) \div 10 \in Nat /\ (8 * rate) \div 10 <= rate
    BY <1>1
  <1>3. (11 * rate) \div 10 \in Nat /\ (11 * rate) \div 10 >= rate
    BY <1>1
  <1>4. QED
    BY <1>1, <1>2, <1>3 DEF Slower, Faster

LEMMA AdaptStep ==
  ASSUME RequestsIInv, NEW c \in Goroutines, RecordSuccess(c) \/ RecordError(c)
  PROVE  RequestsIInv'
  <1> USE DEF RequestsIInv
  <1>1. PICK bad \in Nat, good \in Nat :
          /\ checkAndAdjust(errorCount + bad, successCount + good)
          /\ bad + good = 1
          /\ UNCHANGED <<role, cancelled, stage, limiterVars, clientVars, robotsVars>>
    BY DEF RecordSuccess, RecordError, Record
  <1> DEFINE e == errorCount + bad
             s == successCount + good
  <1>2. e \in Nat /\ s \in Nat /\ windowSize \in Nat \ {0}
    BY NumbersAssumption DEF AdaptiveOK
  <1>3. Adjusted(e, e + s) \in minRate..maxRate
    BY RatesBounded DEF Adjusted, AdaptiveOK
  <1>4. checkAndAdjust(e, s)
    BY <1>1
  <1> HIDE DEF e, s
  <1>5. AdaptiveOK'
    <2>1. CASE e + s >= windowSize
      BY <1>2, <1>3, <1>4, <2>1 DEF checkAndAdjust, AdaptiveOK
    <2>2. CASE ~(e + s >= windowSize)
      BY <1>2, <1>4, <2>2 DEF checkAndAdjust, AdaptiveOK
    <2>3. QED
      BY <2>1, <2>2
  <1>6. QED
    BY <1>1, <1>5, LimiterStays, ClientStays, RobotsStays DEF StagesOK

LEMMA RobotsStep ==
  ASSUME RequestsIInv,
         NewFile \/ (\E c \in Goroutines : IsAllowed(c))
         \/ (\E scheme \in Schemes : FetchAnswered(scheme) \/ FetchFailed(scheme) \/ BodyCut(scheme))
  PROVE  RequestsIInv'
  <1> USE NumbersAssumption DEF RequestsIInv
  <1>1. UNCHANGED <<role, cancelled, stage, limiterVars, clientVars, adaptiveVars>>
    BY DEF NewFile, IsAllowed, FetchAnswered, FetchFailed, BodyCut
  <1>2. robotsTxt' \in Files
    BY DEF NewFile, IsAllowed, FetchAnswered, FetchFailed, BodyCut, RobotsOK
  <1>3. \A r \in rules' : \/ source' \in Files /\ r = ParseRobots(source')
                          \/ source' = <<>> /\ r = AllowAll
    <2>1. CASE \E scheme \in Schemes : FetchAnswered(scheme)
      BY <2>1 DEF FetchAnswered, RobotsOK
    <2>2. CASE UNCHANGED <<rules, source>>
      BY <2>2 DEF RobotsOK
    <2>3. QED
      BY <2>1, <2>2 DEF NewFile, IsAllowed, FetchFailed, BodyCut
  <1>4. fetching' \in [Schemes -> Nat] /\ fetching'["https"] + fetching'["http"] <= MaxFetches
    <2>1. /\ fetching \in [Schemes -> Nat] /\ fetching["https"] + fetching["http"] <= MaxFetches
          /\ fetching["https"] \in Nat /\ fetching["http"] \in Nat /\ MaxFetches \in Nat
      BY DEF RobotsOK, Schemes
    <2>2. ASSUME NEW c \in Goroutines, IsAllowed(c)
          PROVE  fetching' \in [Schemes -> Nat] /\ fetching'["https"] + fetching'["http"] <= MaxFetches
      BY <2>1, <2>2 DEF IsAllowed, Schemes
    <2>3. ASSUME NEW scheme \in Schemes, FetchAnswered(scheme) \/ BodyCut(scheme)
          PROVE  fetching' \in [Schemes -> Nat] /\ fetching'["https"] + fetching'["http"] <= MaxFetches
      <3>1. fetching[scheme] \in Nat /\ fetching[scheme] > 0 /\ fetching' = [fetching EXCEPT ![scheme] = @ - 1]
        BY <2>1, <2>3 DEF FetchAnswered, BodyCut
      <3>2. fetching' \in [Schemes -> Nat]
        BY <2>1, <3>1
      <3>3. QED
        BY <2>1, <3>1, <3>2 DEF Schemes
    <2>4. ASSUME NEW scheme \in Schemes, FetchFailed(scheme)
          PROVE  fetching' \in [Schemes -> Nat] /\ fetching'["https"] + fetching'["http"] <= MaxFetches
      <3>1. /\ fetching[scheme] > 0
            /\ fetching' = [s \in Schemes |-> IF s = scheme THEN fetching[s] - 1
                              ELSE IF s = "http" THEN fetching[s] + 1 ELSE fetching[s]]
        BY <2>4 DEF FetchFailed
      <3>2. CASE scheme = "https"
        BY <2>1, <3>1, <3>2 DEF Schemes
      <3>3. CASE scheme = "http"
        BY <2>1, <3>1, <3>3 DEF Schemes
      <3>4. QED
        BY <3>2, <3>3 DEF Schemes
    <2>5. CASE NewFile
      BY <2>1, <2>5 DEF NewFile
    <2>6. QED
      BY <2>2, <2>3, <2>4, <2>5
  <1>5. RobotsOK'
    BY <1>2, <1>3, <1>4 DEF RobotsOK
  <1>6. QED
    BY <1>1, <1>5, LimiterStays, ClientStays, AdaptiveStays DEF StagesOK

LEMMA RequestsStep == RequestsIInv /\ [RequestsNext]_requestsVars => RequestsIInv'
  <1> SUFFICES ASSUME RequestsIInv, [RequestsNext]_requestsVars PROVE RequestsIInv'
    OBVIOUS
  <1>1. CASE Cancel \/ UNCHANGED requestsVars
    <2>1. /\ UNCHANGED <<role, stage, limiterVars, clientVars, adaptiveVars, robotsVars>>
          /\ cancelled' \in BOOLEAN
      BY <1>1 DEF Cancel, requestsVars, RequestsIInv, StagesOK
    <2>2. QED
      BY <2>1, LimiterStays, ClientStays, AdaptiveStays, RobotsStays DEF RequestsIInv, StagesOK
  <1>2. QED
    BY <1>1, TickStep, WorkerWaitStep, ClientStep, BatchStep, AdaptStep, RobotsStep
       DEF RequestsNext, Step

LEMMA RequestsInvariance == RequestsSpec => []RequestsIInv
  BY RequestsInitIInv, RequestsStep, PTL DEF RequestsSpec

\* The limiter's, the client's, the adaptive limiter's and the manager's fields
\* keep to their types: the rate between its bounds, no more attempts than
\* MaxRetries allows, no window of the adaptive limiter overrun.
THEOREM RequestsTypeCorrect == RequestsSpec => []RequestsTypeOK
  BY RequestsTypes, RequestsInvariance, PTL

\* The rules in force permit what the file they were parsed from permits, for
\* files of any number of lines, however its fetches and answers cross.
THEOREM RobotsObeyedAlways == RequestsSpec => []RobotsObeyed
  <1>1. RequestsIInv => RobotsObeyed
    <2> SUFFICES ASSUME RequestsIInv, NEW r \in rules, NEW path \in Paths
                 PROVE  RulesAllow(r, path) <=> Permitted(source, path)
      BY DEF RobotsObeyed
    <2>1. CASE source \in Files /\ r = ParseRobots(source)
      BY <2>1, FilesAssumption, ParsedAsMeant
    <2>2. CASE source = <<>> /\ r = AllowAll
      <3>1. RulesAllow(AllowAll, path)
        BY DEF RulesAllow, AllowAll
      <3>2. Permitted(<<>>, path)
        BY DEF Permitted
      <3>3. QED
        BY <2>2, <3>1, <3>2
    <2>3. QED
      BY <2>1, <2>2 DEF RequestsIInv, RobotsOK
  <1>2. QED
    BY <1>1, RequestsInvariance, PTL

\* Only its own steps move a goroutine.
LEMMA OwnSteps ==
  ASSUME RequestsIInv, RequestsNext, NEW c \in Goroutines, stage'[c] # stage[c]
  PROVE  CallWaitDomain(c) \/ CallDo(c) \/ Step(c)
  <1>1. \A b \in Goroutines : \A place : Enter(b, place) /\ b # c => stage'[c] = stage[c]
    BY DEF Enter, RequestsIInv, StagesOK
  <1>2. ASSUME NEW b \in Goroutines, CallWaitDomain(b) \/ CallDo(b) \/ Step(b)
        PROVE  b = c
    <2>1. \E place : Enter(b, place)
      BY <1>2 DEF CallWaitDomain, CallDo, Step, WaitGlobal, WaitDomainLimiter, TakeToken, CheckDelay,
         StampRequest, AfterSleep, Send, Answer, Answered, AttemptFailed, Return, Backoff,
         AcquirePlace, BatchDone
    <2>2. QED
      BY <1>1, <2>1
  <1>3. stage' = stage =>  FALSE
    OBVIOUS
  <1>4. QED
    BY <1>2, <1>3 DEF RequestsNext, Tick, Cancel, NewFile, RecordSuccess, RecordError, Record,
       IsAllowed, FetchAnswered, FetchFailed, BodyCut

\* A caller enters a request to a domain only Delay after its own last one: it
\* sleeps what is left of its delay however often others are entered meanwhile.
THEOREM OwnPaceAlways == RequestsSpec => OwnPace
  <1> DEFINE Spaced == \A c \in Goroutines, d \in Domains : Stamps(c, d) => own[c][d] = Delay
  <1>1. ASSUME RequestsIInv, [RequestsNext]_requestsVars PROVE [Spaced]_requestsVars
    <2>1. SUFFICES ASSUME RequestsNext, NEW c \in Goroutines, NEW d \in Domains, Stamps(c, d)
                   PROVE  own[c][d] = Delay
      BY <1>1
    <2>2. /\ domain[c] = d /\ stage[c] \in {"look", "sleep"} /\ stage'[c] = "token"
          /\ since[d] \in 0..Delay /\ own[c][d] \in 0..Delay /\ sleep[c] \in 0..Delay
          /\ since[d] <= own[c][d] /\ Delay \in Nat
          /\ stage[c] = "sleep" => own[c][d] + sleep[c] >= Delay
      BY <1>1, <2>1, NumbersAssumption DEF Stamps, RequestsIInv, LimiterOK, Paced
    <2>3. CheckDelay(c) \/ AfterSleep(c)
      <3>1. CallWaitDomain(c) \/ CallDo(c) \/ Step(c)
        BY <1>1, <2>1, <2>2, OwnSteps
      <3>2. QED
        BY <2>2, <3>1 DEF CallWaitDomain, CallDo, Step, WaitGlobal, WaitDomainLimiter, TakeToken,
           Send, Answer, AttemptFailed, Backoff, AcquirePlace, BatchDone
    <2>4. CASE CheckDelay(c)
      <3>1. stage[c] = "look" /\ (since[d] < Delay => Enter(c, "sleep"))
        BY <2>2, <2>4 DEF CheckDelay
      <3>2. ~(since[d] < Delay)
        BY <1>1, <2>2, <3>1, Enters DEF Places
      <3>3. QED
        BY <2>2, <3>2
    <2>5. CASE AfterSleep(c)
      <3>1. stage[c] = "sleep" /\ (sleep[c] = 0 \/ Enter(c, "idle"))
        BY <2>5 DEF AfterSleep
      <3>2. sleep[c] = 0
        BY <1>1, <2>2, <3>1, Enters DEF Places
      <3>3. QED
        BY <2>2, <3>1, <3>2
    <2>6. QED
      BY <2>3, <2>4, <2>5
  <1>2. QED
    BY <1>1, RequestsInvariance, PTL DEF OwnPace, RequestsSpec

\* Do repeats only errors that are worth it, at most MaxRetries times, and
\* returns the error of its last attempt or that of the context.
THEOREM RetriesJustifiedAlways == RequestsSpec => RetriesJustified
  <1> DEFINE Ends(c) == role[c] = "retry" /\ stage[c] # "idle" /\ stage'[c] = "idle"
             Justified(c) ==
               LET n == Len(seen'[c])
                   last == seen'[c][n]
               IN /\ n \in 1..(MaxRetries + 1)
                  /\ \A i \in 1..(n - 1) : shouldRetry(seen'[c][i])
                  /\ \/ /\ err'[c] = last
                        /\ (last = "none" \/ n = MaxRetries + 1 \/ ~shouldRetry(last))
                     \/ cancelled /\ err'[c] = "cancelled"
             AllJustified == \A c \in Goroutines : Ends(c) => Justified(c)
  <1>1. ASSUME RequestsIInv, [RequestsNext]_requestsVars PROVE [AllJustified]_requestsVars
    <2>1. SUFFICES ASSUME RequestsNext, NEW c \in Goroutines, Ends(c) PROVE Justified(c)
      BY <1>1
    <2>2. /\ Trying(c) /\ seen[c] \in Seq(Errors) /\ attempts[c] \in 0..(MaxRetries + 1)
          /\ err \in [Goroutines -> Errors] /\ seen \in [Goroutines -> Seq(Errors)]
          /\ MaxRetries \in Nat
          /\ stage[c] = "backoff" => attempts[c] <= MaxRetries
      BY <1>1, <2>1, NumbersAssumption DEF RequestsIInv, ClientOK
    <2>3. Send(c) \/ Answer(c) \/ AttemptFailed(c) \/ Backoff(c)
      <3>1. CallWaitDomain(c) \/ CallDo(c) \/ Step(c)
        BY <1>1, <2>1, OwnSteps
      <3>2. QED
        BY <2>1, <2>2, <3>1 DEF CallWaitDomain, CallDo, Step, WaitGlobal, WaitDomainLimiter, TakeToken,
           CheckDelay, AfterSleep, AcquirePlace, BatchDone, Trying
    <2>4. CASE Send(c) \/ Answer(c)
      <3>1. PICK answer : Answered(c, answer) /\ GetError(answer) \in Errors
        <4>1. CASE \E failure \in {"canceled", "invalid"} : Answered(c, Failed(failure))
          BY <4>1, CategoriesAreErrors DEF Failures, Errors
        <4>2. CASE Send(c) /\ Enter(c, "sent")
          <5>1. stage'[c] = "sent"
            BY <1>1, <4>2, Enters DEF Send, Places
          <5>2. QED
            BY <2>1, <5>1
        <4>3. CASE Answer(c) /\ \E answer \in Responses : Answered(c, answer)
          BY <4>3, CategoriesAreErrors
        <4>4. CASE Answer(c) /\ \E failure \in Failures : Answered(c, Failed(failure))
          BY <4>4, CategoriesAreErrors DEF Errors
        <4>5. QED
          BY <2>4, <4>1, <4>2, <4>3, <4>4 DEF Send, Answer
      <3> DEFINE e == GetError(answer)
      <3>2. /\ err' = [err EXCEPT ![c] = e] /\ seen' = [seen EXCEPT ![c] = Append(@, e)]
            /\ Enter(c, IF e = "none" THEN "idle" ELSE "failed")
        BY <2>1, <3>1 DEF Answered
      <3>3. e = "none"
        BY <1>1, <2>1, <3>2, Enters DEF Places
      <3>4. stage[c] \in {"request", "sent"}
        BY <2>4 DEF Send, Answer
      <3>5. Len(seen[c]) + 1 = attempts[c] /\ Worth(c, Len(seen[c]))
        BY <2>2, <3>4 DEF Trying
      <3> HIDE DEF e
      <3>6. /\ seen'[c] = Append(seen[c], e) /\ err'[c] = e /\ e \in Errors
        BY <2>2, <3>1, <3>2 DEF e
      <3>7. /\ Len(seen'[c]) = attempts[c] /\ seen'[c][attempts[c]] = e
            /\ \A i \in 1..(attempts[c] - 1) : seen'[c][i] = seen[c][i]
        BY <2>2, <3>5, <3>6
      <3>8. QED
        BY <2>2, <3>3, <3>5, <3>6, <3>7 DEF Worth
    <2>5. CASE AttemptFailed(c) \/ Backoff(c)
      <3>1. stage[c] \in {"failed", "backoff"} /\ UNCHANGED seen
        BY <2>5 DEF AttemptFailed, Backoff
      <3>2. /\ Len(seen[c]) = attempts[c] /\ attempts[c] > 0
            /\ err[c] = seen[c][attempts[c]] /\ Worth(c, attempts[c] - 1)
        BY <2>2, <3>1 DEF Trying
      <3>3. \/ cancelled /\ Return(c, "cancelled")
            \/ AttemptFailed(c) /\ ~MayRetry(c) /\ Return(c, err[c])
        <4>1. ~Enter(c, "backoff") /\ ~Enter(c, "request")
          BY <1>1, <2>1, Enters DEF Places
        <4>2. QED
          BY <2>5, <4>1 DEF AttemptFailed, Backoff
      <3>4. CASE cancelled /\ Return(c, "cancelled")
        <4>1. err'[c] = "cancelled"
          BY <2>2, <3>4 DEF Return
        <4>2. QED
          BY <2>2, <3>1, <3>2, <3>4, <4>1 DEF Worth
      <3>5. CASE ~MayRetry(c) /\ Return(c, err[c])
        <4>1. err'[c] = err[c]
          BY <2>2, <3>5 DEF Return
        <4>2. attempts[c] = MaxRetries + 1 \/ ~shouldRetry(err[c])
          BY <2>2, <3>5 DEF MayRetry
        <4>3. QED
          BY <2>2, <3>1, <3>2, <4>1, <4>2 DEF Worth
      <3>6. QED
        BY <3>3, <3>4, <3>5
    <2>6. QED
      BY <2>3, <2>4, <2>5
  <1>2. QED
    BY <1>1, RequestsInvariance, PTL DEF RetriesJustified, RequestsSpec
===============================================================================
