------------------------------ MODULE BrowserPool ------------------------------
(***************************************************************************)
(* internal/browser/pool.go: a fixed number of browsers handed out round   *)
(* robin to at most as many visitors as there are browsers, each browser   *)
(* replaced by a new one after RecycleAfter visits.                        *)
(* A send on the closed semaphore channel panics and ends the program.     *)
(***************************************************************************)
EXTENDS Integers, FiniteSets

CONSTANTS Procs,         \* goroutines that visit pages
          Size,          \* PoolSize
          RecycleAfter,  \* visits after which a browser is replaced; 0 is never
          MaxBrowsers    \* bound on the browsers ever launched

ASSUME BrowserPoolConstants ==
    /\ Size \in Nat \ {0}
    /\ RecycleAfter \in Nat
    /\ MaxBrowsers \in Nat /\ MaxBrowsers >= Size

Slots    == 0 .. Size - 1
Browsers == 1 .. MaxBrowsers
None == 0

VARIABLES sem,       \* tokens in the semaphore channel
          closed,    \* the pool and its channel are closed
          slot,      \* browsers: the browser in each slot
          current,   \* next slot to hand out
          launched,  \* browsers launched so far: 1 .. launched
          open,      \* browsers not closed
          pages,     \* pageCount of each browser
          pc,        \* where each goroutine is
          mine,      \* the browser it was handed, or None
          panicked   \* a goroutine sent on the closed channel

poolVars == <<sem, closed, slot, current, launched, open, pages, pc, mine, panicked>>

Labels == {"idle", "wait", "token", "held", "visit"}

Init ==
    /\ sem = Size
    /\ closed = FALSE /\ panicked = FALSE
    /\ slot = [s \in Slots |-> s + 1]
    /\ current = 0
    /\ launched = Size
    /\ open = 1 .. Size
    /\ pages = [b \in Browsers |-> 0]
    /\ pc = [p \in Procs |-> "idle"]
    /\ mine = [p \in Procs |-> None]

Goto(p, label) == pc' = [pc EXCEPT ![p] = label]
NeedsRecycle(b) == RecycleAfter > 0 /\ pages[b] >= RecycleAfter

NextSlot == (current + 1) % Size

\* p.sem <- struct{}{}
ReturnToken(p) ==
    IF closed
    THEN panicked' = TRUE /\ UNCHANGED <<sem, pc>>
    ELSE sem' = sem + 1 /\ Goto(p, "idle") /\ UNCHANGED panicked

-------------------------------------------------------------------------------
Call(p) ==
    /\ pc[p] = "idle"
    /\ Goto(p, "wait")
    /\ UNCHANGED <<sem, closed, slot, current, launched, open, pages, mine, panicked>>

\* A receive from the closed channel drains it and then returns at once.
GetToken(p) ==
    /\ pc[p] = "wait"
    /\ sem > 0 \/ closed
    /\ sem' = IF sem > 0 THEN sem - 1 ELSE 0
    /\ Goto(p, "token")
    /\ UNCHANGED <<closed, slot, current, launched, open, pages, mine, panicked>>

\* The visitor's context is done.
GiveUp(p) ==
    /\ pc[p] = "wait"
    /\ Goto(p, "idle")
    /\ UNCHANGED <<sem, closed, slot, current, launched, open, pages, mine, panicked>>

\* The rest of Acquire runs under the pool's lock.  On a closed pool it
\* returns its token before the error.
RefuseClosed(p) ==
    /\ pc[p] = "token"
    /\ closed
    /\ ReturnToken(p)
    /\ UNCHANGED <<closed, slot, current, launched, open, pages, mine>>

HandOut(p) ==
    /\ pc[p] = "token"
    /\ ~closed /\ ~NeedsRecycle(slot[current])
    /\ mine' = [mine EXCEPT ![p] = slot[current]]
    /\ current' = NextSlot
    /\ Goto(p, "held")
    /\ UNCHANGED <<sem, closed, slot, launched, open, pages, panicked>>

\* Mutant: the fresh browser goes into its slot, the caller gets the old one.
RecycleKeepsOld(p) ==
    /\ pc[p] = "token"
    /\ ~closed /\ NeedsRecycle(slot[current])
    /\ launched < MaxBrowsers
    /\ launched' = launched + 1
    /\ open' = (open \ {slot[current]}) \cup {launched + 1}
    /\ slot' = [slot EXCEPT ![NextSlot] = launched + 1]
    /\ mine' = [mine EXCEPT ![p] = slot[current]]
    /\ current' = NextSlot
    /\ Goto(p, "held")
    /\ UNCHANGED <<sem, closed, pages, panicked>>

\* current has advanced already: the new browser goes into the next slot, and
\* the closed one keeps its own.
Recycle(p) ==
    /\ pc[p] = "token"
    /\ ~closed /\ NeedsRecycle(slot[current])
    /\ launched < MaxBrowsers
    /\ launched' = launched + 1
    /\ open' = (open \ {slot[current]}) \cup {launched + 1}
    /\ slot' = [slot EXCEPT ![NextSlot] = launched + 1]
    /\ mine' = [mine EXCEPT ![p] = launched + 1]
    /\ current' = NextSlot
    /\ Goto(p, "held")
    /\ UNCHANGED <<sem, closed, pages, panicked>>

\* Mutant: the token is not returned when no browser can be launched.
KeepToken(p) ==
    /\ pc[p] = "token"
    /\ ~closed /\ NeedsRecycle(slot[current])
    /\ open' = open \ {slot[current]}
    /\ current' = NextSlot
    /\ Goto(p, "idle")
    /\ UNCHANGED <<sem, closed, slot, launched, pages, mine, panicked>>

\* The new browser cannot be launched.
RecycleFails(p) ==
    /\ pc[p] = "token"
    /\ ~closed /\ NeedsRecycle(slot[current])
    /\ open' = open \ {slot[current]}
    /\ current' = NextSlot
    /\ ReturnToken(p)
    /\ UNCHANGED <<closed, slot, launched, pages, mine>>

\* A visit counts a page as it starts; counts from RecycleAfter on are alike.
Visit(p) ==
    /\ pc[p] = "held"
    /\ pages' = [pages EXCEPT ![mine[p]] = IF @ < RecycleAfter THEN @ + 1 ELSE @]
    /\ Goto(p, "visit")
    /\ UNCHANGED <<sem, closed, slot, current, launched, open, mine, panicked>>

Release(p) ==
    /\ pc[p] = "visit"
    /\ ReturnToken(p)
    /\ mine' = [mine EXCEPT ![p] = None]
    /\ UNCHANGED <<closed, slot, current, launched, open, pages>>

\* Closes what the slots hold, and the channel; a second call does nothing.
Close ==
    /\ ~closed
    /\ closed' = TRUE
    /\ open' = open \ {slot[s] : s \in Slots}
    /\ UNCHANGED <<sem, slot, current, launched, pages, pc, mine, panicked>>

-------------------------------------------------------------------------------
Acquire(p) ==
    \/ GetToken(p) \/ GiveUp(p) \/ RefuseClosed(p)
    \/ HandOut(p) \/ Recycle(p) \/ RecycleFails(p)

Next ==
    /\ ~panicked
    /\ Close \/ \E p \in Procs : Call(p) \/ Acquire(p) \/ Visit(p) \/ Release(p)

\* Goroutines are scheduled, and the channel serves waiting receivers in turn.
\* No visit has to end: a page is visited without a time limit.
Fairness == \A p \in Procs :
    /\ SF_poolVars(~panicked /\ GetToken(p))
    /\ WF_poolVars(~panicked /\ (RefuseClosed(p) \/ HandOut(p) \/ Recycle(p)
                                 \/ RecycleFails(p) \/ Visit(p)))

Spec == Init /\ [][Next]_poolVars /\ Fairness

-------------------------------------------------------------------------------
(* Properties.                                                              *)

TypeOK ==
    /\ sem \in 0 .. Size
    /\ closed \in BOOLEAN /\ panicked \in BOOLEAN
    /\ slot \in [Slots -> Browsers]
    /\ current \in Slots
    /\ launched \in Browsers
    /\ open \subseteq Browsers
    /\ pages \in [Browsers -> 0 .. RecycleAfter]
    /\ pc \in [Procs -> Labels]
    /\ mine \in [Procs -> Browsers \cup {None}]

Visitors == {p \in Procs : pc[p] \in {"token", "held", "visit"}}

\* Every path through Acquire returns its token or hands it to the visitor:
\* tokens and visitors always add up to the pool's size.
TokensConserved == ~closed => sem + Cardinality(Visitors) = Size

\* Recycling stores the new browser in the wrong slot and leaves the closed
\* one in its own; still, while the pool is open, Acquire never hands out a
\* closed browser, because a stale slot is recycled again.
HandedOutOpen ==
    [][\A p \in Procs : pc[p] = "token" /\ pc'[p] = "held" => mine'[p] \in open']_poolVars

\* A goroutine waits for a browser for ever only if in the end every token is
\* held by a visit that never returns: fewer hanging visits, the recycling that
\* fails and the calls that give up leave a token to be had.
AcquireServed ==
    \A p \in Procs :
        \/ []<>(pc[p] # "wait" \/ panicked)
        \/ <>[](~closed /\ Cardinality({q \in Procs : pc[q] = "visit"}) = Size)
===============================================================================
