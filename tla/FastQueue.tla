------------------------------- MODULE FastQueue -------------------------------
(***************************************************************************)
(* internal/queue/fast_queue.go: the sharded URL queue the crawl workers   *)
(* share.  Each lock-protected section and each atomic access of the code  *)
(* is a step of its own, so the calls of different goroutines interleave   *)
(* as they do in the program.                                              *)
(*                                                                         *)
(* Abstracted: the round-robin counter (another goroutine's increment may  *)
(* come in between, so any shard can be the next one) and the order inside *)
(* a shard's heap (depth, then priority: a pop takes any of its items).    *)
(***************************************************************************)
EXTENDS Integers, FiniteSets, Sequences, Counting

CONSTANTS Procs,      \* goroutines that call the queue
          URLs,       \* URLs that may be pushed
          NumShards,  \* 4, 16 or 32 in the code
          Capacity,   \* capacity given to NewFastQueue; 0 is no limit
          MaxBatch    \* bound on the length of a PushBatch or PopBatch

ASSUME FastQueueConstants ==
    /\ IsFiniteSet(Procs) /\ Procs # {}
    /\ NumShards \in Nat \ {0}
    /\ Capacity \in Nat
    /\ MaxBatch \in Nat \ {0}

Shards  == 0 .. NumShards - 1
Entries == [url : URLs, shard : Shards]

VARIABLES heap,      \* entries of all shard heaps, each tagged with its shard
          dedup,     \* union of the dedup shards' urlSet
          totalLen,  \* atomic length counter
          closed,    \* atomic closed flag
          pc, op,    \* where each goroutine is, and in which method
          todo,      \* PushBatch: items not yet examined
          staged,    \* PushBatch: shardItems, grouped but not yet in a heap
          scan,      \* PopBatch: shards still to visit, in order
          want,      \* PopBatch: n
          got,       \* PopBatch: entries popped whose URL is still in dedup
          count      \* items to add to, or take from, totalLen at the end

vars == <<heap, dedup, totalLen, closed, pc, op, todo, staged, scan, want, got, count>>

Ops == {"Push", "PushBatch", "PopBatch", "PopWait", "Close"}
PCs == {"idle", "cap", "dedup", "flush", "scan", "erase",
        "check", "parked", "retry", "wake"}

Entry(u, s) == [url |-> u, shard |-> s]
UrlsOf(entries) == {e.url : e \in entries}
InShard(entries, s) == {e \in entries : e.shard = s}
Parked == {p \in Procs : pc[p] = "parked"}
Least(a, b) == IF a <= b THEN a ELSE b

\* Only shard 0's condition variable ever has waiters (PopWait, line 252).
WaitShard == 0

TypeOK ==
    /\ heap \subseteq Entries
    /\ dedup \subseteq URLs
    /\ totalLen \in Int
    /\ closed \in BOOLEAN
    /\ pc \in [Procs -> PCs]
    /\ op \in [Procs -> Ops]
    /\ todo \in [Procs -> Seq(URLs)]
    /\ staged \in [Procs -> SUBSET Entries]
    /\ scan \in [Procs -> Seq(Shards)]
    /\ want \in [Procs -> Nat]
    /\ got \in [Procs -> SUBSET Entries]
    /\ count \in [Procs -> Nat]

Init ==
    /\ heap = {} /\ dedup = {} /\ totalLen = 0 /\ closed = FALSE
    /\ pc = [p \in Procs |-> "idle"]
    /\ op = [p \in Procs |-> "Push"]
    /\ todo = [p \in Procs |-> <<>>]
    /\ staged = [p \in Procs |-> {}]
    /\ scan = [p \in Procs |-> <<>>]
    /\ want = [p \in Procs |-> 0]
    /\ got = [p \in Procs |-> {}]
    /\ count = [p \in Procs |-> 0]

Goto(p, label) == pc' = [pc EXCEPT ![p] = label]

-------------------------------------------------------------------------------
(* Push and PushBatch.  Push is a batch of one that signals instead of      *)
(* broadcasting.                                                            *)

Begin(p, method, us) ==
    /\ pc[p] = "idle"
    /\ ~closed                       \* else ErrQueueClosed, nothing changes
    /\ op' = [op EXCEPT ![p] = method]
    /\ todo' = [todo EXCEPT ![p] = us]
    /\ count' = [count EXCEPT ![p] = 0]
    /\ Goto(p, "cap")
    /\ UNCHANGED <<heap, dedup, totalLen, closed, staged, scan, want, got>>

Push(p, u) == Begin(p, "Push", <<u>>)

PushBatch(p, us) == Begin(p, "PushBatch", us)

Full(p) == Capacity > 0 /\ totalLen + count[p] >= Capacity

\* Items that do not fit are dropped without an error.
CheckCapacity(p) ==
    /\ pc[p] = "cap"
    /\ Goto(p, IF todo[p] = <<>> \/ Full(p) THEN "flush" ELSE "dedup")
    /\ UNCHANGED <<heap, dedup, totalLen, closed, op, todo, staged, scan, want, got, count>>

\* Mutant: the exists check is dropped.
ReserveUnchecked(p) ==
    /\ pc[p] = "dedup"
    /\ todo' = [todo EXCEPT ![p] = Tail(@)]
    /\ Goto(p, "cap")
    /\ dedup' = dedup \cup {Head(todo[p])}
    /\ \E s \in Shards :
          staged' = [staged EXCEPT ![p] = @ \cup {Entry(Head(todo[p]), s)}]
    /\ count' = [count EXCEPT ![p] = @ + 1]
    /\ UNCHANGED <<heap, totalLen, closed, op, scan, want, got>>

\* One item against its dedup shard, under that shard's lock.
Reserve(p) ==
    /\ pc[p] = "dedup"
    /\ todo' = [todo EXCEPT ![p] = Tail(@)]
    /\ Goto(p, "cap")
    /\ LET u == Head(todo[p])
       IN  \/ /\ u \in dedup
              /\ UNCHANGED <<dedup, staged, count>>
           \/ /\ u \notin dedup
              /\ dedup' = dedup \cup {u}
              /\ \E s \in Shards :
                    staged' = [staged EXCEPT ![p] = @ \cup {Entry(u, s)}]
              /\ count' = [count EXCEPT ![p] = @ + 1]
    /\ UNCHANGED <<heap, totalLen, closed, op, scan, want, got>>

\* cond.Signal wakes one waiter, cond.Broadcast all of them.
Woken(p) == IF op[p] = "Push" THEN {{w} : w \in Parked} ELSE {Parked}

WakeAnd(p, label, woken) ==
    pc' = [q \in Procs |-> IF q = p THEN label
                           ELSE IF q \in woken THEN "check" ELSE pc[q]]

\* The second pass: the lowest shard with staged items, under its lock.
Flush(p) ==
    /\ pc[p] = "flush"
    /\ staged[p] # {}
    /\ \E s \in Shards :
        LET batch == InShard(staged[p], s)
        IN  /\ batch # {}
            /\ \A e \in staged[p] : s <= e.shard
            /\ heap' = heap \cup batch
            /\ staged' = [staged EXCEPT ![p] = @ \ batch]
            /\ IF s = WaitShard /\ Parked # {}
               THEN \E woken \in Woken(p) : WakeAnd(p, "flush", woken)
               ELSE UNCHANGED pc
    /\ UNCHANGED <<dedup, totalLen, closed, op, todo, scan, want, got, count>>

\* Mutant: PushBatch adds 1 as Push does.
AddOne(p) ==
    /\ pc[p] = "flush"
    /\ staged[p] = {}
    /\ totalLen' = totalLen + Least(1, count[p])
    /\ todo' = [todo EXCEPT ![p] = <<>>]
    /\ count' = [count EXCEPT ![p] = 0]
    /\ Goto(p, "idle")
    /\ UNCHANGED <<heap, dedup, closed, op, staged, scan, want, got>>

\* totalLen.Add(added), after every shard lock is released.
AddLen(p) ==
    /\ pc[p] = "flush"
    /\ staged[p] = {}
    /\ totalLen' = totalLen + count[p]
    /\ todo' = [todo EXCEPT ![p] = <<>>]
    /\ count' = [count EXCEPT ![p] = 0]
    /\ Goto(p, "idle")
    /\ UNCHANGED <<heap, dedup, closed, op, staged, scan, want, got>>

-------------------------------------------------------------------------------
(* Pop (n = 1), PopBatch and PopWait.                                       *)

\* (startIdx + i) & (numShards-1)
Rotation(s) == [i \in 1 .. NumShards |->
                   IF s + i <= NumShards THEN s + i - 1 ELSE s + i - 1 - NumShards]

StartScan(p, method, n) ==
    /\ op' = [op EXCEPT ![p] = method]
    /\ want' = [want EXCEPT ![p] = n]
    /\ count' = [count EXCEPT ![p] = 0]
    /\ \E s \in Shards : scan' = [scan EXCEPT ![p] = Rotation(s)]
    /\ Goto(p, "scan")
    /\ UNCHANGED <<heap, dedup, totalLen, closed, todo, staged, got>>

PopBatch(p, n) ==
    /\ pc[p] = "idle"
    /\ ~closed
    /\ StartScan(p, "PopBatch", n)

\* PopWait first tries Pop; on a closed queue it goes straight to its checks.
PopWait(p) ==
    /\ pc[p] = "idle"
    /\ IF closed
       THEN /\ Goto(p, "check")
            /\ op' = [op EXCEPT ![p] = "PopWait"]
            /\ UNCHANGED <<heap, dedup, totalLen, closed, todo, staged, scan, want, got, count>>
       ELSE StartScan(p, "PopWait", 1)

\* Pops from the next shard, under its lock, until n items are held.
ScanShard(p) ==
    /\ pc[p] = "scan"
    /\ scan[p] # <<>>
    /\ count[p] < want[p]
    /\ LET here == InShard(heap, Head(scan[p]))
           k    == Least(want[p] - count[p], Cardinality(here))
       IN  \E take \in SUBSET here :
              /\ Cardinality(take) = k
              /\ heap' = heap \ take
              /\ got' = [got EXCEPT ![p] = @ \cup take]
              /\ count' = [count EXCEPT ![p] = @ + k]
    /\ scan' = [scan EXCEPT ![p] = Tail(@)]
    /\ UNCHANGED <<dedup, totalLen, closed, pc, op, todo, staged, want>>

\* Mutant: PopBatch returns once a shard had an item.
EndScanEarly(p) ==
    /\ pc[p] = "scan"
    /\ scan[p] = <<>> \/ count[p] > 0
    /\ Goto(p, IF got[p] # {} THEN "erase"
               ELSE IF op[p] = "PopWait" THEN "check" ELSE "idle")
    /\ scan' = [scan EXCEPT ![p] = <<>>]
    /\ UNCHANGED <<heap, dedup, totalLen, closed, op, todo, staged, want, got, count>>

\* Nothing found is ErrQueueEmpty, on which PopWait starts to wait.
EndScan(p) ==
    /\ pc[p] = "scan"
    /\ scan[p] = <<>> \/ count[p] = want[p]
    /\ Goto(p, IF got[p] # {} THEN "erase"
               ELSE IF op[p] = "PopWait" THEN "check" ELSE "idle")
    /\ scan' = [scan EXCEPT ![p] = <<>>]
    /\ UNCHANGED <<heap, dedup, totalLen, closed, op, todo, staged, want, got, count>>

\* One URL leaves its dedup shard, under that shard's lock.
Erase(p) ==
    /\ pc[p] = "erase"
    /\ \E e \in got[p] :
        /\ dedup' = dedup \ {e.url}
        /\ got' = [got EXCEPT ![p] = @ \ {e}]
    /\ UNCHANGED <<heap, totalLen, closed, pc, op, todo, staged, scan, want, count>>

\* totalLen.Add(-len(items)); the call returns the items.
SubLen(p) ==
    /\ pc[p] = "erase"
    /\ got[p] = {}
    /\ totalLen' = totalLen - count[p]
    /\ count' = [count EXCEPT ![p] = 0]
    /\ Goto(p, "idle")
    /\ UNCHANGED <<heap, dedup, closed, op, todo, staged, scan, want, got>>

\* Mutant: the wait loop does not look at closed.
CheckWaitIgnoresClose(p) ==
    /\ pc[p] = "check"
    /\ Goto(p, IF totalLen = 0 THEN "parked" ELSE "retry")
    /\ UNCHANGED <<heap, dedup, totalLen, closed, op, todo, staged, scan, want, got, count>>

\* The wait loop's condition, evaluated under shard 0's lock; Wait parks and
\* releases the lock in one step.
CheckWait(p) ==
    /\ pc[p] = "check"
    /\ Goto(p, IF totalLen = 0 /\ ~closed THEN "parked" ELSE "retry")
    /\ UNCHANGED <<heap, dedup, totalLen, closed, op, todo, staged, scan, want, got, count>>

\* After the wait: ErrQueueClosed, or one more Pop.
Retry(p) ==
    /\ pc[p] = "retry"
    /\ IF closed
       THEN /\ Goto(p, "idle")
            /\ UNCHANGED <<heap, dedup, totalLen, closed, op, todo, staged, scan, want, got, count>>
       ELSE StartScan(p, "PopBatch", 1)

-------------------------------------------------------------------------------
(* Close and Clear.                                                         *)

Close(p) ==
    /\ pc[p] = "idle"
    /\ closed' = TRUE
    /\ op' = [op EXCEPT ![p] = "Close"]
    /\ Goto(p, "wake")
    /\ UNCHANGED <<heap, dedup, totalLen, todo, staged, scan, want, got, count>>

\* The broadcast on each shard; shard 0's is the one with waiters.
CloseWake(p) ==
    /\ pc[p] = "wake"
    /\ WakeAnd(p, "idle", Parked)
    /\ UNCHANGED <<heap, dedup, totalLen, closed, op, todo, staged, scan, want, got, count>>

\* Clear's callers call it with no other operation in flight, so its
\* per-shard steps are one step here; parked goroutines are not woken.
Clear ==
    /\ \A p \in Procs : pc[p] \in {"idle", "parked"}
    /\ heap' = {} /\ dedup' = {} /\ totalLen' = 0
    /\ UNCHANGED <<closed, pc, op, todo, staged, scan, want, got, count>>

-------------------------------------------------------------------------------
Step(p) ==
    \/ CheckCapacity(p) \/ Reserve(p) \/ Flush(p) \/ AddLen(p)
    \/ ScanShard(p) \/ EndScan(p) \/ Erase(p) \/ SubLen(p)
    \/ CheckWait(p) \/ Retry(p) \/ CloseWake(p)

Batches == UNION {[1 .. n -> URLs] : n \in 1 .. MaxBatch}

Call(p) ==
    \/ \E u \in URLs : Push(p, u)
    \/ \E us \in Batches : PushBatch(p, us)
    \/ \E n \in 1 .. MaxBatch : PopBatch(p, n)
    \/ PopWait(p)
    \/ Close(p)

Next == Clear \/ \E p \in Procs : Call(p) \/ Step(p)

Spec == Init /\ [][Next]_vars

-------------------------------------------------------------------------------
(* Properties.                                                              *)

Staged  == UNION {staged[p] : p \in Procs}
Popped  == UNION {got[p] : p \in Procs}
Pending == heap \cup Staged \cup Popped

\* Every URL is in exactly one place (one shard heap, one pusher's hands or
\* one popper's hands), and the dedup set holds precisely those URLs: Push's
\* and Pop's separate dedup and heap locks neither duplicate nor lose a URL.
OnePlace ==
    /\ dedup = UrlsOf(Pending)
    /\ \A e, f \in Pending : e.url = f.url => e = f
    /\ \A p \in Procs : heap \cap (staged[p] \cup got[p]) = {}
    /\ \A p, q \in Procs :
          /\ staged[p] \cap got[q] = {}
          /\ p # q => staged[p] \cap staged[q] = {} /\ got[p] \cap got[q] = {}

\* Entries that are in a heap or about to be, what pushers have yet to add to
\* totalLen when these are in their heaps, and what poppers have yet to subtract.
InQueue == heap \cup Staged
Pushing == {"cap", "dedup", "flush"}
Adding  == [p \in Procs |-> IF pc[p] \in Pushing THEN count[p] ELSE 0]
Taking  == [p \in Procs |-> IF pc[p] \in Pushing THEN 0 ELSE count[p]]

\* totalLen lags behind the heaps by what calls in flight have yet to add or
\* subtract; with none in flight Len() is the number of queued items.  It is
\* compared with the capacity without a lock: concurrent pushers overshoot that
\* by at most one batch each, and one pusher alone not at all.
LenIsRight ==
    /\ totalLen = Cardinality(InQueue) - Total(Procs, Adding) + Total(Procs, Taking)
    /\ Capacity > 0 => totalLen <= Capacity + (Cardinality(Procs) - 1) * MaxBatch

\* Once Close has broadcast, nobody is blocked in PopWait, not even a
\* goroutine that was about to park while Close ran.
CloseReleasesWaiters ==
    closed /\ (\A p \in Procs : pc[p] # "wake") => Parked = {}

\* What p's pop may still take, and the entries in the shards that it has yet
\* to visit.
Scanning(p) == pc[p] = "scan" /\ count[p] < want[p]
Left(p)     == IF Scanning(p) THEN want[p] - count[p] ELSE 0
Ahead(p)    == IF Scanning(p)
               THEN {e \in heap : \E i \in DOMAIN scan[p] : e.shard = scan[p][i]}
               ELSE {}

\* The promise of URLQueue: what is staged is coming, what is in a heap has
\* landed, and a pop is bound to come across what is in the shards ahead.
Queue == INSTANCE URLQueue WITH
            queued <- UrlsOf(heap),
            coming <- [p \in Procs |-> UrlsOf(staged[p])],
            taken  <- [p \in Procs |-> UrlsOf(got[p])],
            room   <- [p \in Procs |-> Left(p)],
            due    <- [p \in Procs |-> UrlsOf(Ahead(p))]

\* The sharded queue implements the abstract one: every step of FastQueue is
\* one accept, landing, begin or end of a pop, take, release or forget of
\* URLQueue, or invisible to it.  So a pop that comes back short has missed
\* only what its pusher had not yet put into a heap when it began.
ImplementsURLQueue == Queue!Spec
===============================================================================
