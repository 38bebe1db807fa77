----------------------------- MODULE QueueProofs -----------------------------
(***************************************************************************)
(* The two queues.  FastQueue for every set of goroutines and URLs, every  *)
(* shard count, capacity and batch bound: types, the sole place of each    *)
(* URL, that the sharded queue implements URLQueue, what its length counts *)
(* and how far it overshoots the capacity, and that Close leaves nobody    *)
(* waiting.  PersistentQueue for every set of URLs, every buffer size and  *)
(* any number of faults: types, that the buffer is on disk, what a crash   *)
(* can lose and what a failed transaction can return twice.                *)
(***************************************************************************)
EXTENDS FastQueue, PersistentQueue, CountingProofs,
        FiniteSetTheorems, SequenceTheorems, TLAPS

\* Which locals may be non-empty where; a goroutine between calls holds nothing.
Locals ==
    \A p \in Procs :
        /\ pc[p] = "dedup" => todo[p] # <<>>
        /\ staged[p] # {} => pc[p] \in {"cap", "dedup", "flush"}
        /\ got[p] # {} => pc[p] \in {"scan", "erase"}

FiniteHeaps == IsFiniteSet(heap) /\ \A p \in Procs : IsFiniteSet(staged[p])

IInv == TypeOK /\ OnePlace /\ Locals /\ FiniteHeaps

-------------------------------------------------------------------------------
\* The initial states satisfy the invariant.
LEMMA InitIInv == Init => IInv
  <1> SUFFICES ASSUME Init PROVE IInv
    OBVIOUS
  <1>1. TypeOK
    <2>1. <<>> \in Seq(URLs) /\ <<>> \in Seq(Shards)
      OBVIOUS
    <2>2. todo \in [Procs -> Seq(URLs)] /\ scan \in [Procs -> Seq(Shards)]
      BY <2>1 DEF Init
    <2>3. pc \in [Procs -> PCs] /\ op \in [Procs -> Ops] /\ closed \in BOOLEAN
      BY DEF Init, PCs, Ops
    <2>4. staged \in [Procs -> SUBSET Entries] /\ got \in [Procs -> SUBSET Entries]
      BY DEF Init
    <2>5. want \in [Procs -> Nat] /\ count \in [Procs -> Nat] /\ totalLen \in Int
      BY DEF Init
    <2>6. QED
      BY <2>2, <2>3, <2>4, <2>5 DEF Init, TypeOK
  <1>2. Pending = {}
    BY DEF Init, Pending, Staged, Popped
  <1>3. OnePlace
    BY <1>2 DEF Init, OnePlace, UrlsOf
  <1>4. Locals
    BY DEF Init, Locals
  <1>5. FiniteHeaps
    BY FS_EmptySet DEF Init, FiniteHeaps
  <1>6. QED
    BY <1>1, <1>3, <1>4, <1>5 DEF IInv

\* A batch is a sequence of URLs, at most MaxBatch of them.
LEMMA BatchType ==
    ASSUME NEW us \in Batches
    PROVE  us \in Seq(URLs) /\ Len(us) <= MaxBatch
  <1>1. PICK n \in 1 .. MaxBatch : us \in [1 .. n -> URLs]
    BY DEF Batches
  <1>2. n \in Nat /\ n <= MaxBatch
    BY FastQueueConstants
  <1>3. us \in Seq(URLs)
    BY <1>1, <1>2, SeqDef
  <1>4. Len(us) \in Nat /\ DOMAIN us = 1 .. Len(us)
    BY <1>3, LenProperties
  <1>5. DOMAIN us = 1 .. n
    BY <1>1
  <1>6. 1 .. n = 1 .. Len(us)
    BY <1>4, <1>5, Zenon
  <1>7. Len(us) <= n
    <2>1. CASE Len(us) = 0
      BY <1>2, <2>1
    <2>2. CASE Len(us) # 0
      <3>1. Len(us) \in 1 .. Len(us)
        BY <1>4, <2>2
      <3>2. Len(us) \in 1 .. n
        BY <1>6, <3>1
      <3>3. QED
        BY <1>2, <3>2
    <2>3. QED
      BY <2>1, <2>2
  <1>8. QED
    BY <1>2, <1>3, <1>4, <1>7, FastQueueConstants

\* A rotation of the shards names shards only, and every one of them.
LEMMA RotationType ==
    ASSUME NEW s \in Shards
    PROVE  /\ Rotation(s) \in Seq(Shards)
           /\ \A t \in Shards : \E i \in DOMAIN Rotation(s) : t = Rotation(s)[i]
  <1>0. NumShards \in Nat /\ s \in Nat /\ s < NumShards
    BY FastQueueConstants DEF Shards
  <1>1. \A i \in 1 .. NumShards : Rotation(s)[i] \in Shards
    BY <1>0 DEF Rotation, Shards
  <1>2. DOMAIN Rotation(s) = 1 .. NumShards /\ Rotation(s) = [i \in 1 .. NumShards |-> Rotation(s)[i]]
    BY DEF Rotation
  <1>3. Rotation(s) \in [1 .. NumShards -> Shards]
    BY <1>1, <1>2
  <1>4. Rotation(s) \in Seq(Shards)
    BY <1>0, <1>3, SeqDef
  <1>5. ASSUME NEW t \in Shards
        PROVE  \E i \in DOMAIN Rotation(s) : t = Rotation(s)[i]
    <2>1. t \in Nat /\ t < NumShards
      BY FastQueueConstants DEF Shards
    <2>2. CASE t >= s
      <3>1. t - s + 1 \in 1 .. NumShards /\ s + (t - s + 1) <= NumShards
        BY <1>0, <2>1, <2>2
      <3>2. Rotation(s)[t - s + 1] = t
        BY <1>0, <2>1, <3>1 DEF Rotation
      <3>3. QED
        BY <1>2, <3>1, <3>2
    <2>3. CASE t < s
      <3>1. t - s + 1 + NumShards \in 1 .. NumShards /\ ~(s + (t - s + 1 + NumShards) <= NumShards)
        BY <1>0, <2>1, <2>3
      <3>2. Rotation(s)[t - s + 1 + NumShards] = t
        BY <1>0, <2>1, <3>1 DEF Rotation
      <3>3. QED
        BY <1>2, <3>1, <3>2
    <2>4. QED
      BY <1>0, <2>1, <2>2, <2>3
  <1>6. QED
    BY <1>4, <1>5

\* A call that starts to scan writes values of the right types.
LEMMA StartScanType ==
    ASSUME TypeOK, NEW p \in Procs, NEW method \in Ops, NEW n \in Nat,
           StartScan(p, method, n)
    PROVE  TypeOK'
  <1>1. PICK s \in Shards : scan' = [scan EXCEPT ![p] = Rotation(s)]
    BY DEF StartScan
  <1>2. Rotation(s) \in Seq(Shards)
    BY RotationType
  <1>3. scan' \in [Procs -> Seq(Shards)]
    BY <1>1, <1>2 DEF TypeOK
  <1>4. QED
    BY <1>3 DEF TypeOK, StartScan, Goto, PCs

\* Every step preserves the types.
LEMMA TypeStep == IInv /\ [Next]_vars => TypeOK'
  <1> SUFFICES ASSUME IInv, [Next]_vars PROVE TypeOK'
    OBVIOUS
  <1> USE FastQueueConstants DEF IInv, TypeOK, PCs, Ops, Goto
  <1>1. CASE Clear
    BY <1>1 DEF Clear
  <1>2. ASSUME NEW p \in Procs, Call(p) PROVE TypeOK'
    <2>1. ASSUME NEW u \in URLs, Push(p, u) PROVE TypeOK'
      BY <2>1 DEF Push, Begin
    <2>2. ASSUME NEW us \in Batches, PushBatch(p, us) PROVE TypeOK'
      <3>1. us \in Seq(URLs)
        BY BatchType
      <3>2. QED
        BY <2>2, <3>1 DEF PushBatch, Begin
    <2>3. ASSUME NEW n \in 1 .. MaxBatch, PopBatch(p, n) PROVE TypeOK'
      <3>1. StartScan(p, "PopBatch", n)
        BY <2>3 DEF PopBatch
      <3>2. n \in Nat
        OBVIOUS
      <3>3. QED
        BY <3>1, <3>2, StartScanType
    <2>4. CASE PopWait(p)
      <3>1. CASE closed
        BY <2>4, <3>1 DEF PopWait
      <3>2. CASE ~closed
        BY <2>4, <3>2, StartScanType DEF PopWait
      <3>3. QED
        BY <3>1, <3>2
    <2>5. CASE Close(p)
      BY <2>5 DEF Close
    <2>6. QED
      BY <1>2, <2>1, <2>2, <2>3, <2>4, <2>5 DEF Call
  <1>3. ASSUME NEW p \in Procs, Step(p) PROVE TypeOK'
    <2>1. CASE CheckCapacity(p)
      BY <2>1 DEF CheckCapacity
    <2>2. CASE Reserve(p)
      <3>1. todo[p] # <<>>
        BY <2>2 DEF Reserve, Locals
      <3>2. Head(todo[p]) \in URLs /\ Tail(todo[p]) \in Seq(URLs)
        BY <3>1
      <3>3. \A s \in Shards : Entry(Head(todo[p]), s) \in Entries
        BY <3>2 DEF Entry, Entries
      <3>4. /\ dedup' \subseteq URLs
            /\ staged' \in [Procs -> SUBSET Entries]
            /\ count' \in [Procs -> Nat]
        <4>1. CASE UNCHANGED <<dedup, staged, count>>
          BY <4>1
        <4>2. CASE ~UNCHANGED <<dedup, staged, count>>
          <5>1. PICK s \in Shards :
                   staged' = [staged EXCEPT ![p] = @ \cup {Entry(Head(todo[p]), s)}]
            BY <2>2, <4>2 DEF Reserve
          <5>2. /\ dedup' = dedup \cup {Head(todo[p])}
                /\ count' = [count EXCEPT ![p] = @ + 1]
            BY <2>2, <4>2 DEF Reserve
          <5>3. Entry(Head(todo[p]), s) \in Entries
            BY <3>3
          <5> HIDE DEF Entry
          <5>4. QED
            BY <3>2, <5>1, <5>2, <5>3
        <4>3. QED
          BY <4>1, <4>2
      <3>5. /\ pc' = [pc EXCEPT ![p] = "cap"]
            /\ todo' = [todo EXCEPT ![p] = Tail(@)]
            /\ UNCHANGED <<heap, totalLen, closed, op, scan, want, got>>
        BY <2>2 DEF Reserve
      <3>6. QED
        BY <3>2, <3>4, <3>5
    <2>3. CASE Flush(p)
      BY <2>3 DEF Flush, InShard, WakeAnd
    <2>4. CASE AddLen(p)
      BY <2>4 DEF AddLen
    <2>5. CASE ScanShard(p)
      <3> DEFINE here == InShard(heap, Head(scan[p]))
                 k == Least(want[p] - count[p], Cardinality(here))
      <3>1. IsFiniteSet(here)
        BY FS_Subset DEF FiniteHeaps, InShard
      <3>2. k \in Nat
        BY <2>5, <3>1, FS_CardinalityType DEF ScanShard, Least
      <3>3. here \subseteq Entries
        BY DEF InShard
      <3>4. PICK take \in SUBSET here :
               /\ heap' = heap \ take
               /\ got' = [got EXCEPT ![p] = @ \cup take]
               /\ count' = [count EXCEPT ![p] = @ + k]
        BY <2>5 DEF ScanShard
      <3> HIDE DEF here, k
      <3>5. scan[p] # <<>> /\ scan' = [scan EXCEPT ![p] = Tail(@)]
            /\ UNCHANGED <<dedup, totalLen, closed, pc, op, todo, staged, want>>
        BY <2>5 DEF ScanShard
      <3>6. Tail(scan[p]) \in Seq(Shards)
        BY <3>5
      <3>7. QED
        BY <3>2, <3>3, <3>4, <3>5, <3>6
    <2>6. CASE EndScan(p)
      BY <2>6 DEF EndScan
    <2>7. CASE Erase(p)
      BY <2>7 DEF Erase
    <2>8. CASE SubLen(p)
      BY <2>8 DEF SubLen
    <2>9. CASE CheckWait(p)
      BY <2>9 DEF CheckWait
    <2>10. CASE Retry(p)
      <3>1. CASE closed
        BY <2>10, <3>1 DEF Retry
      <3>2. CASE ~closed
        BY <2>10, <3>2, StartScanType DEF Retry
      <3>3. QED
        BY <3>1, <3>2
    <2>11. CASE CloseWake(p)
      BY <2>11 DEF CloseWake, WakeAnd
    <2>12. QED
      BY <1>3, <2>1, <2>2, <2>3, <2>4, <2>5, <2>6, <2>7, <2>8, <2>9, <2>10, <2>11 DEF Step
  <1>4. CASE UNCHANGED vars
    BY <1>4 DEF vars
  <1>5. QED
    BY <1>1, <1>2, <1>3, <1>4 DEF Next

-------------------------------------------------------------------------------
\* Every step keeps a goroutine's locals where its program counter allows them.
LEMMA LocalsStep == IInv /\ [Next]_vars => Locals'
  <1> SUFFICES ASSUME IInv, [Next]_vars PROVE Locals'
    OBVIOUS
  <1> USE DEF IInv, TypeOK, Locals, Goto
  <1>1. CASE Clear
    BY <1>1 DEF Clear
  <1>2. ASSUME NEW p \in Procs, Call(p) PROVE Locals'
    BY <1>2 DEF Call, Push, PushBatch, Begin, PopBatch, PopWait, StartScan, Close
  <1>3. ASSUME NEW p \in Procs, Step(p) PROVE Locals'
    <2>1. CASE CheckCapacity(p) \/ Reserve(p) \/ AddLen(p)
      BY <2>1 DEF CheckCapacity, Reserve, AddLen
    <2>2. CASE Flush(p)
      <3>1. \A woken \in Woken(p) : woken \subseteq Parked
        BY DEF Woken
      <3>2. \/ UNCHANGED pc
            \/ \E woken \in SUBSET Parked :
                  pc' = [q \in Procs |-> IF q = p THEN "flush"
                                         ELSE IF q \in woken THEN "check" ELSE pc[q]]
        BY <2>2, <3>1 DEF Flush, WakeAnd
      <3>3. UNCHANGED <<todo, got>> /\ pc[p] = "flush"
        BY <2>2 DEF Flush
      <3>4. \A q \in Procs : staged'[q] # {} => staged[q] # {}
        BY <2>2 DEF Flush
      <3>5. QED
        BY <3>2, <3>3, <3>4 DEF Parked
    <2>3. CASE ScanShard(p)
      BY <2>3 DEF ScanShard
    <2>4. CASE EndScan(p)
      BY <2>4 DEF EndScan
    <2>5. CASE Erase(p) \/ SubLen(p)
      BY <2>5 DEF Erase, SubLen
    <2>6. CASE CheckWait(p) \/ Retry(p)
      BY <2>6 DEF CheckWait, Retry, StartScan
    <2>7. CASE CloseWake(p)
      BY <2>7 DEF CloseWake, WakeAnd, Parked
    <2>8. QED
      BY <1>3, <2>1, <2>2, <2>3, <2>4, <2>5, <2>6, <2>7 DEF Step
  <1>4. CASE UNCHANGED vars
    BY <1>4 DEF vars
  <1>5. QED
    BY <1>1, <1>2, <1>3, <1>4 DEF Next

\* Heaps stay finite: a step moves finitely many entries.
LEMMA FiniteStep == IInv /\ [Next]_vars => FiniteHeaps'
  <1> SUFFICES ASSUME IInv, [Next]_vars PROVE FiniteHeaps'
    OBVIOUS
  <1> USE DEF IInv, FiniteHeaps
  <1>1. CASE heap' \subseteq heap /\ UNCHANGED staged
    BY <1>1, FS_Subset
  <1>2. ASSUME NEW p \in Procs, Reserve(p) PROVE FiniteHeaps'
    <2>1. UNCHANGED heap
      BY <1>2 DEF Reserve
    <2>2. ASSUME NEW q \in Procs PROVE IsFiniteSet(staged'[q])
      <3>1. \/ staged'[q] = staged[q]
            \/ \E e : staged'[q] = staged[q] \cup {e}
        BY <1>2 DEF Reserve, TypeOK
      <3>2. QED
        BY <3>1, FS_AddElement
    <2>3. QED
      BY <2>1, <2>2
  <1>3. ASSUME NEW p \in Procs, Flush(p) PROVE FiniteHeaps'
    <2>1. PICK s \in Shards :
             /\ heap' = heap \cup InShard(staged[p], s)
             /\ staged' = [staged EXCEPT ![p] = @ \ InShard(staged[p], s)]
      BY <1>3 DEF Flush
    <2>2. IsFiniteSet(InShard(staged[p], s))
      BY FS_Subset DEF InShard
    <2>3. IsFiniteSet(heap')
      BY <2>1, <2>2, FS_Union
    <2>4. \A q \in Procs : staged'[q] \subseteq staged[q]
      BY <2>1 DEF TypeOK
    <2>5. QED
      BY <2>3, <2>4, FS_Subset
  <1>4. QED
    BY <1>1, <1>2, <1>3 DEF Next, Clear, Call, Step, Push, PushBatch, Begin, PopBatch,
       PopWait, StartScan, Close, CheckCapacity, AddLen, ScanShard, EndScan, Erase,
       SubLen, CheckWait, Retry, CloseWake, vars

-------------------------------------------------------------------------------
\* One URL, one entry: removing entries removes exactly their URLs.
LEMMA UrlsOfDifference ==
    ASSUME NEW A, NEW B, B \subseteq A, \A e, f \in A : e.url = f.url => e = f
    PROVE  UrlsOf(A \ B) = UrlsOf(A) \ UrlsOf(B)
  BY DEF UrlsOf

\* Steps that leave heap, dedup, staged and got alone keep every URL in place.
LEMMA OnePlaceUnchanged ==
    OnePlace /\ UNCHANGED <<heap, dedup, staged, got>> => OnePlace'
  BY DEF OnePlace, Pending, Staged, Popped, UrlsOf

\* Every step keeps each URL in one place.
LEMMA OnePlaceStep == IInv /\ [Next]_vars => OnePlace'
  <1> SUFFICES ASSUME IInv, [Next]_vars PROVE OnePlace'
    OBVIOUS
  <1> USE DEF IInv
  <1>1. CASE Clear
    <2>1. \A p \in Procs : staged[p] = {} /\ got[p] = {}
      BY <1>1 DEF Clear, Locals
    <2>2. QED
      BY <1>1, <2>1 DEF Clear, OnePlace, Pending, Staged, Popped, UrlsOf
  <1>2. ASSUME NEW p \in Procs, Reserve(p) PROVE OnePlace'
    <2>1. CASE Head(todo[p]) \in dedup
      BY <1>2, <2>1, OnePlaceUnchanged DEF Reserve
    <2>2. CASE Head(todo[p]) \notin dedup
      <3> DEFINE u == Head(todo[p])
      <3>1. PICK s \in Shards : staged' = [staged EXCEPT ![p] = @ \cup {Entry(u, s)}]
        BY <1>2, <2>2 DEF Reserve
      <3> DEFINE e == Entry(u, s)
      <3>2. dedup' = dedup \cup {u} /\ UNCHANGED <<heap, got>>
        BY <1>2, <2>2 DEF Reserve
      <3>3. e.url = u
        BY DEF Entry
      <3> HIDE DEF u, e
      <3>4. staged' \in [Procs -> SUBSET (Entries \cup {e})]
            /\ \A q \in Procs : staged'[q] = IF q = p THEN staged[q] \cup {e} ELSE staged[q]
        BY <3>1 DEF TypeOK, e
      <3>5. Pending' = Pending \cup {e}
        BY <3>2, <3>4 DEF Pending, Staged, Popped
      <3>6. \A f \in Pending : f.url # u
        BY <2>2 DEF OnePlace, UrlsOf, u
      <3>7. e \notin Pending
        BY <3>3, <3>6
      <3>8. dedup' = UrlsOf(Pending')
        BY <3>2, <3>3, <3>5 DEF OnePlace, UrlsOf
      <3>9. \A f, g \in Pending' : f.url = g.url => f = g
        BY <3>3, <3>5, <3>6 DEF OnePlace
      <3>10. /\ e \notin heap
             /\ \A q \in Procs : e \notin staged[q] /\ e \notin got[q]
        BY <3>7 DEF Pending, Staged, Popped
      <3>11. \A q \in Procs : heap' \cap (staged'[q] \cup got'[q]) = {}
        BY <3>2, <3>4, <3>10 DEF OnePlace
      <3>12. \A q, r \in Procs :
               /\ staged'[q] \cap got'[r] = {}
               /\ q # r => staged'[q] \cap staged'[r] = {} /\ got'[q] \cap got'[r] = {}
        BY <3>2, <3>4, <3>10 DEF OnePlace
      <3>13. QED
        BY <3>8, <3>9, <3>11, <3>12 DEF OnePlace
    <2>3. QED
      BY <2>1, <2>2
  <1>3. ASSUME NEW p \in Procs, Flush(p) PROVE OnePlace'
    <2>1. PICK s \in Shards :
             /\ heap' = heap \cup InShard(staged[p], s)
             /\ staged' = [staged EXCEPT ![p] = @ \ InShard(staged[p], s)]
      BY <1>3 DEF Flush
    <2> DEFINE b == InShard(staged[p], s)
    <2>2. b \subseteq staged[p]
      BY DEF InShard
    <2> HIDE DEF b
    <2>3. /\ heap' = heap \cup b /\ UNCHANGED <<dedup, got>>
          /\ \A q \in Procs : staged'[q] = IF q = p THEN staged[q] \ b ELSE staged[q]
      BY <1>3, <2>1 DEF Flush, TypeOK, b
    <2>4. Pending' = Pending
      BY <2>2, <2>3 DEF Pending, Staged, Popped
    <2>5. QED
      BY <2>2, <2>3, <2>4 DEF OnePlace
  <1>4. ASSUME NEW p \in Procs, ScanShard(p) PROVE OnePlace'
    <2>1. PICK take \in SUBSET heap :
             /\ heap' = heap \ take
             /\ got' = [got EXCEPT ![p] = @ \cup take]
      BY <1>4 DEF ScanShard, InShard
    <2>2. /\ UNCHANGED <<dedup, staged>>
          /\ \A q \in Procs : got'[q] = IF q = p THEN got[q] \cup take ELSE got[q]
      BY <1>4, <2>1 DEF ScanShard, TypeOK
    <2>3. Pending' = Pending
      BY <2>1, <2>2 DEF Pending, Staged, Popped
    <2>4. QED
      BY <2>1, <2>2, <2>3 DEF OnePlace
  <1>5. ASSUME NEW p \in Procs, Erase(p) PROVE OnePlace'
    <2>1. PICK e \in got[p] :
             dedup' = dedup \ {e.url} /\ got' = [got EXCEPT ![p] = @ \ {e}]
      BY <1>5 DEF Erase
    <2>2. /\ UNCHANGED <<heap, staged>>
          /\ \A q \in Procs : got'[q] = IF q = p THEN got[q] \ {e} ELSE got[q]
      BY <1>5, <2>1 DEF Erase, TypeOK
    <2>3. \A q \in Procs : e \notin staged[q] /\ (q # p => e \notin got[q])
      BY <2>1 DEF OnePlace
    <2>4. e \notin heap /\ e \in Pending
      BY <2>1 DEF OnePlace, Pending, Popped
    <2>5. Pending' = Pending \ {e}
      <3>1. Staged' = Staged \ {e} /\ heap' = heap \ {e}
        BY <2>2, <2>3, <2>4 DEF Staged
      <3>2. Popped' = Popped \ {e}
        BY <2>2, <2>3 DEF Popped
      <3>3. QED
        BY <3>1, <3>2 DEF Pending
    <2>6. UrlsOf(Pending \ {e}) = UrlsOf(Pending) \ UrlsOf({e})
      BY <2>4, UrlsOfDifference DEF OnePlace
    <2>7. dedup' = UrlsOf(Pending')
      BY <2>1, <2>5, <2>6 DEF OnePlace, UrlsOf
    <2>8. QED
      BY <2>2, <2>5, <2>7 DEF OnePlace
  <1>6. CASE UNCHANGED <<heap, dedup, staged, got>>
    BY <1>6, OnePlaceUnchanged
  <1>7. QED
    BY <1>1, <1>2, <1>3, <1>4, <1>5, <1>6 DEF Next, Call, Step, Push, PushBatch, Begin,
       PopBatch, PopWait, StartScan, Close, CheckCapacity, AddLen, EndScan, SubLen,
       CheckWait, Retry, CloseWake, vars

-------------------------------------------------------------------------------
\* The inductive invariant holds in every reachable state.
LEMMA Invariance == Spec => []IInv
  <1>1. IInv /\ [Next]_vars => IInv'
    BY TypeStep, LocalsStep, FiniteStep, OnePlaceStep DEF IInv
  <1>2. QED
    BY InitIInv, <1>1, PTL DEF Spec

\* Every variable keeps its type.
THEOREM TypeCorrect == Spec => []TypeOK
  <1>1. IInv => TypeOK
    BY DEF IInv
  <1>2. QED
    BY <1>1, Invariance, PTL

\* No interleaving of pushes and pops duplicates a URL, loses one, or leaves
\* the dedup set out of step with the heaps.
THEOREM OnePlaceAlways == Spec => []OnePlace
  <1>1. IInv => OnePlace
    BY DEF IInv
  <1>2. QED
    BY <1>1, Invariance, PTL

-------------------------------------------------------------------------------
(* Refinement.                                                               *)

\* A step that leaves p's pop, if it is in one, where it is.
SameScan(p) == /\ pc'[p] = "scan" <=> pc[p] = "scan"
               /\ pc[p] = "scan" => want'[p] = want[p] /\ count'[p] = count[p] /\ scan'[p] = scan[p]

LEMMA SameRoom ==
    ASSUME NEW p \in Procs, SameScan(p)
    PROVE  /\ Left(p)' = Left(p)
           /\ UNCHANGED heap => Ahead(p)' = Ahead(p)
  BY DEF SameScan, Left, Ahead, Scanning

\* Such steps are invisible if they leave the heaps and the hands alone.
LEMMA Invisible ==
    ASSUME UNCHANGED <<heap, staged, got>>, \A p \in Procs : SameScan(p)
    PROVE  UNCHANGED Queue!vars
  <1>1. \A p \in Procs : Left(p)' = Left(p) /\ Ahead(p)' = Ahead(p)
    BY SameRoom
  <1>2. UNCHANGED <<UrlsOf(heap), [p \in Procs |-> UrlsOf(staged[p])], [p \in Procs |-> UrlsOf(got[p])]>>
    BY DEF UrlsOf
  <1>3. UNCHANGED <<[p \in Procs |-> Left(p)], [p \in Procs |-> UrlsOf(Ahead(p))]>>
    BY <1>1 DEF UrlsOf
  <1>4. QED
    BY <1>2, <1>3 DEF Queue!vars

\* Where each URL is, in the terms of the abstract queue.
LEMMA Whereabouts ==
    /\ Queue!Coming = UrlsOf(Staged)
    /\ Queue!Taken = UrlsOf(Popped)
    /\ UrlsOf(Pending) = UrlsOf(heap) \cup Queue!Coming \cup Queue!Taken
  <1>1. Queue!Coming = UNION {UrlsOf(staged[p]) : p \in Procs}
    BY DEF Queue!Coming
  <1>2. Queue!Taken = UNION {UrlsOf(got[p]) : p \in Procs}
    BY DEF Queue!Taken
  <1>3. Queue!Coming = UrlsOf(Staged) /\ Queue!Taken = UrlsOf(Popped)
    BY <1>1, <1>2 DEF UrlsOf, Staged, Popped
  <1>4. QED
    BY <1>3 DEF Pending, UrlsOf

\* A new reservation in the dedup set is an accept.
LEMMA ReserveAccepts ==
    ASSUME IInv, NEW p \in Procs, Reserve(p)
    PROVE  [Queue!Next]_Queue!vars
  <1>0. \A q \in Procs : SameScan(q)
    BY DEF Reserve, Goto, SameScan, IInv, TypeOK
  <1>1. CASE Head(todo[p]) \in dedup
    BY <1>0, <1>1, Invisible DEF Reserve
  <1>2. CASE Head(todo[p]) \notin dedup
    <2> DEFINE u == Head(todo[p])
    <2>1. u \in URLs
      BY DEF Reserve, IInv, Locals, TypeOK
    <2>2. PICK s \in Shards : staged' = [staged EXCEPT ![p] = @ \cup {Entry(u, s)}]
      BY <1>2 DEF Reserve
    <2>3. Entry(u, s).url = u
      BY DEF Entry
    <2>4. UNCHANGED <<heap, got>>
      BY <1>2 DEF Reserve
    <2>5. u \notin UrlsOf(heap) \cup Queue!Coming \cup Queue!Taken
      BY <1>2, Whereabouts DEF IInv, OnePlace
    <2>6. \A q \in Procs : UrlsOf(staged'[q]) = IF q = p THEN UrlsOf(staged[q]) \cup {u} ELSE UrlsOf(staged[q])
      BY <2>2, <2>3 DEF IInv, TypeOK, UrlsOf
    <2>7. \A q \in Procs : Left(q)' = Left(q) /\ Ahead(q)' = Ahead(q)
      BY <1>0, <2>4, SameRoom
    <2> HIDE DEF u
    <2>8. [q \in Procs |-> UrlsOf(staged'[q])] = [[q \in Procs |-> UrlsOf(staged[q])] EXCEPT ![p] = @ \cup {u}]
      BY <2>6
    <2>9. UNCHANGED <<UrlsOf(heap), [q \in Procs |-> UrlsOf(got[q])], [q \in Procs |-> Left(q)],
                      [q \in Procs |-> UrlsOf(Ahead(q))]>>
      BY <2>4, <2>7 DEF UrlsOf
    <2>10. Queue!Accept(p, u)
      BY <2>5, <2>8, <2>9 DEF Queue!Accept
    <2>11. QED
      BY <2>1, <2>10 DEF Queue!Next
  <1>3. QED
    BY <1>1, <1>2

\* Items of one shard land; the pops that have yet to visit it are bound to it.
LEMMA FlushLands ==
    ASSUME IInv, NEW p \in Procs, Flush(p)
    PROVE  [Queue!Next]_Queue!vars
  <1>1. PICK s \in Shards :
           /\ InShard(staged[p], s) # {}
           /\ heap' = heap \cup InShard(staged[p], s)
           /\ staged' = [staged EXCEPT ![p] = @ \ InShard(staged[p], s)]
           /\ IF s = WaitShard /\ Parked # {}
              THEN \E woken \in Woken(p) : WakeAnd(p, "flush", woken)
              ELSE UNCHANGED pc
    BY DEF Flush
  <1> DEFINE b == InShard(staged[p], s)
             us == UrlsOf(b)
             qs == {q \in Procs : Scanning(q) /\ \E i \in DOMAIN scan[q] : s = scan[q][i]}
  <1>2. \A q \in Procs : SameScan(q)
    <2>1. \A woken \in Woken(p) : woken \subseteq Parked
      BY DEF Woken
    <2>2. pc[p] = "flush" /\ UNCHANGED <<want, count, scan>>
      BY DEF Flush
    <2>3. \/ UNCHANGED pc
          \/ \E woken \in SUBSET Parked :
                pc' = [q \in Procs |-> IF q = p THEN "flush"
                                       ELSE IF q \in woken THEN "check" ELSE pc[q]]
      BY <1>1, <2>1 DEF WakeAnd
    <2>4. QED
      BY <2>2, <2>3 DEF SameScan, Parked
  <1>3. b \subseteq staged[p] /\ b # {} /\ \A e \in b : e.shard = s
    BY <1>1 DEF InShard
  <1>4. us # {} /\ us \subseteq UrlsOf(staged[p]) /\ us \subseteq URLs
    BY <1>3 DEF UrlsOf, IInv, TypeOK, Entries
  <1>5. UNCHANGED got /\ heap' = heap \cup b /\ UrlsOf(heap') = UrlsOf(heap) \cup us
    BY <1>1 DEF Flush, UrlsOf
  <1>6. \A q \in Procs : UrlsOf(staged'[q]) = IF q = p THEN UrlsOf(staged[q]) \ us ELSE UrlsOf(staged[q])
    <2>1. \A e, f \in staged[p] : e.url = f.url => e = f
      BY DEF IInv, OnePlace, Pending, Staged
    <2>2. UrlsOf(staged[p] \ b) = UrlsOf(staged[p]) \ us
      BY <1>3, <2>1, UrlsOfDifference
    <2>3. \A q \in Procs : staged'[q] = IF q = p THEN staged[q] \ b ELSE staged[q]
      BY <1>1 DEF IInv, TypeOK
    <2>4. QED
      BY <2>2, <2>3
  <1>7. \A q \in Procs : Left(q)' = Left(q) /\ (Scanning(q)' <=> Scanning(q))
    BY <1>2 DEF SameScan, Left, Scanning
  <1>8. \A q \in Procs : UrlsOf(Ahead(q)') = IF q \in qs THEN UrlsOf(Ahead(q)) \cup us ELSE UrlsOf(Ahead(q))
    <2> SUFFICES ASSUME NEW q \in Procs
                 PROVE  UrlsOf(Ahead(q)') = IF q \in qs THEN UrlsOf(Ahead(q)) \cup us ELSE UrlsOf(Ahead(q))
      OBVIOUS
    <2>1. CASE ~Scanning(q)
      BY <1>7, <2>1 DEF Ahead
    <2>2. CASE Scanning(q)
      <3>1. scan'[q] = scan[q] /\ Scanning(q)'
        BY <1>2, <1>7, <2>2 DEF SameScan, Scanning
      <3>2. Ahead(q) = {e \in heap : \E i \in DOMAIN scan[q] : e.shard = scan[q][i]}
        BY <2>2 DEF Ahead
      <3>3. Ahead(q)' = {e \in heap' : \E i \in DOMAIN scan[q] : e.shard = scan[q][i]}
        BY <3>1 DEF Ahead
      <3> HIDE DEF b
      <3>4. CASE q \in qs
        <4>1. Ahead(q)' = Ahead(q) \cup b
          BY <1>3, <1>5, <3>2, <3>3, <3>4
        <4>2. QED
          BY <3>4, <4>1 DEF UrlsOf
      <3>5. CASE q \notin qs
        <4>1. Ahead(q)' = Ahead(q)
          BY <1>3, <1>5, <2>2, <3>2, <3>3, <3>5
        <4>2. QED
          BY <3>5, <4>1
      <3>6. QED
        BY <3>4, <3>5
    <2>3. QED
      BY <2>1, <2>2
  <1>9. \A q \in qs : Left(q) > 0
    BY DEF Left, Scanning, IInv, TypeOK
  <1>10. qs \in SUBSET Procs
    OBVIOUS
  <1> HIDE DEF us, qs, b
  <1>11. Queue!Land(p, us, qs)
    <2>1. /\ UrlsOf(heap') = UrlsOf(heap) \cup us
          /\ [q \in Procs |-> UrlsOf(staged'[q])] = [[q \in Procs |-> UrlsOf(staged[q])] EXCEPT ![p] = @ \ us]
          /\ [q \in Procs |-> UrlsOf(Ahead(q)')]
                = [q \in Procs |-> IF q \in qs THEN UrlsOf(Ahead(q)) \cup us ELSE UrlsOf(Ahead(q))]
      BY <1>5, <1>6, <1>8
    <2>2. UNCHANGED <<[q \in Procs |-> UrlsOf(got[q])], [q \in Procs |-> Left(q)]>>
      BY <1>5, <1>7 DEF UrlsOf
    <2>3. QED
      BY <1>4, <1>9, <1>10, <2>1, <2>2 DEF Queue!Land
  <1>12. QED
    BY <1>4, <1>10, <1>11 DEF Queue!Next

\* A scan that starts is bound to come across every heap.
LEMMA StartBegins ==
    ASSUME IInv, NEW p \in Procs, NEW method, NEW n \in 1 .. MaxBatch,
           StartScan(p, method, n), pc[p] # "scan"
    PROVE  [Queue!Next]_Queue!vars
  <1>0. n \in Nat /\ n > 0
    BY FastQueueConstants
  <1>1. PICK s \in Shards : scan' = [scan EXCEPT ![p] = Rotation(s)]
    BY DEF StartScan
  <1>2. /\ pc' = [pc EXCEPT ![p] = "scan"] /\ want' = [want EXCEPT ![p] = n]
        /\ count' = [count EXCEPT ![p] = 0] /\ UNCHANGED <<heap, staged, got>>
    BY DEF StartScan, Goto
  <1>3. /\ pc'[p] = "scan" /\ want'[p] = n /\ count'[p] = 0 /\ scan'[p] = Rotation(s)
        /\ \A q \in Procs : q # p => SameScan(q)
    BY <1>1, <1>2 DEF IInv, TypeOK, SameScan
  <1>4. Scanning(p)' /\ Left(p)' = n /\ Left(p) = 0
    BY <1>0, <1>3 DEF Scanning, Left
  <1>5. UrlsOf(Ahead(p)') = UrlsOf(heap)
    <2>1. Ahead(p)' = {e \in heap : \E i \in DOMAIN Rotation(s) : e.shard = Rotation(s)[i]}
      BY <1>2, <1>3, <1>4 DEF Ahead
    <2>2. \A e \in heap : e.shard \in Shards
      BY DEF IInv, TypeOK, Entries
    <2>3. Ahead(p)' = heap
      BY <2>1, <2>2, RotationType
    <2>4. QED
      BY <2>3
  <1>6. \A q \in Procs : q # p => Left(q)' = Left(q) /\ Ahead(q)' = Ahead(q)
    BY <1>2, <1>3, SameRoom
  <1>7. /\ [q \in Procs |-> Left(q)'] = [[q \in Procs |-> Left(q)] EXCEPT ![p] = n]
        /\ [q \in Procs |-> UrlsOf(Ahead(q)')] = [[q \in Procs |-> UrlsOf(Ahead(q))] EXCEPT ![p] = UrlsOf(heap)]
    BY <1>4, <1>5, <1>6
  <1>8. UNCHANGED <<UrlsOf(heap), [q \in Procs |-> UrlsOf(staged[q])], [q \in Procs |-> UrlsOf(got[q])]>>
    BY <1>2 DEF UrlsOf
  <1>9. Queue!BeginPop(p, n)
    BY <1>4, <1>7, <1>8 DEF Queue!BeginPop
  <1>10. QED
    BY <1>9 DEF Queue!Next

\* Distinct entries have distinct URLs.
LEMMA UrlsOfCardinality ==
    ASSUME NEW A, IsFiniteSet(A), \A e, f \in A : e.url = f.url => e = f
    PROVE  Cardinality(UrlsOf(A)) = Cardinality(A)
  <1> DEFINE url == [e \in A |-> e.url]
  <1>1. url \in [A -> UrlsOf(A)]
    BY DEF UrlsOf
  <1>2. url \in Bijection(A, UrlsOf(A))
    <2>1. url \in Injection(A, UrlsOf(A))
      BY <1>1 DEF Injection, IsInjective
    <2>2. url \in Surjection(A, UrlsOf(A))
      BY <1>1 DEF Surjection, UrlsOf
    <2>3. QED
      BY <2>1, <2>2 DEF Bijection
  <1> HIDE DEF url
  <1>3. UrlsOf(A) = UrlsOf(A) /\ ExistsBijection(A, UrlsOf(A))
    BY <1>2 DEF ExistsBijection
  <1>4. QED
    BY <1>3, FS_Bijection

\* Popping from a shard heap takes the popped URLs.
LEMMA ScanTakes ==
    ASSUME IInv, NEW p \in Procs, ScanShard(p)
    PROVE  [Queue!Next]_Queue!vars
  <1> DEFINE here == InShard(heap, Head(scan[p]))
             k    == Least(want[p] - count[p], Cardinality(here))
  <1>1. PICK take \in SUBSET here :
           /\ Cardinality(take) = k
           /\ heap' = heap \ take
           /\ got' = [got EXCEPT ![p] = @ \cup take]
           /\ count' = [count EXCEPT ![p] = @ + k]
    BY DEF ScanShard
  <1>2. /\ pc[p] = "scan" /\ scan[p] # <<>> /\ count[p] < want[p]
        /\ scan' = [scan EXCEPT ![p] = Tail(@)] /\ UNCHANGED <<pc, want, staged, dedup>>
    BY DEF ScanShard
  <1>3. IsFiniteSet(here) /\ IsFiniteSet(take) /\ here \subseteq heap
    BY FS_Subset DEF IInv, FiniteHeaps, InShard
  <1>4. k \in Nat /\ k <= want[p] - count[p] /\ (k < want[p] - count[p] => take = here)
    <2>1. Cardinality(here) \in Nat /\ want[p] \in Nat /\ count[p] \in Nat
      BY <1>3, FS_CardinalityType DEF IInv, TypeOK
    <2>2. k < want[p] - count[p] => k = Cardinality(here)
      BY <2>1 DEF Least
    <2>3. Cardinality(take) = Cardinality(here) => take = here
      BY <1>3, FS_Subset
    <2>4. k \in Nat /\ k <= want[p] - count[p]
      BY <1>2, <2>1 DEF Least
    <2> HIDE DEF here, k
    <2>5. QED
      BY <1>1, <2>2, <2>3, <2>4
  <1> DEFINE us == UrlsOf(take)
  <1>5. \A e, f \in heap : e.url = f.url => e = f
    BY DEF IInv, OnePlace, Pending
  <1>6. Cardinality(us) = k
    BY <1>1, <1>3, <1>5, UrlsOfCardinality
  <1>7. \A e \in here : e.shard = Head(scan[p])
    BY DEF InShard
  <1>7a. \A e \in heap : e.shard = Head(scan[p]) => e \in here
    BY DEF InShard
  <1>7b. us \subseteq URLs /\ us \subseteq UrlsOf(heap) /\ (take = {} <=> us = {})
    <2>1. take \subseteq heap /\ \A e \in take : e.url \in URLs
      BY <1>1, <1>3 DEF IInv, TypeOK, Entries
    <2>2. QED
      BY <2>1 DEF UrlsOf
  <1>7c. take = {} => k = 0
    BY <1>1, FS_EmptySet
  <1> HIDE DEF here, k
  <1>8. /\ count'[p] = count[p] + k /\ scan'[p] = Tail(scan[p]) /\ pc'[p] = "scan" /\ want'[p] = want[p]
        /\ want[p] \in Nat /\ count[p] \in Nat /\ got'[p] = got[p] \cup take
        /\ \A q \in Procs : q # p => SameScan(q) /\ got'[q] = got[q]
    BY <1>1, <1>2 DEF IInv, TypeOK, SameScan
  <1>9. Left(p)' = Left(p) - k /\ Left(p) = want[p] - count[p] /\ (Scanning(p)' <=> Left(p)' # 0) /\ Left(p) \in Nat
    BY <1>2, <1>4, <1>8 DEF Left, Scanning
  <1>10. \A q \in Procs : q # p => Left(q)' = Left(q)
    BY <1>8, SameRoom
  <1>11. scan[p] \in Seq(Shards) /\ scan[p] # <<>>
    BY <1>2 DEF IInv, TypeOK
  <1>12. Left(p)' # 0 => Ahead(p)' = Ahead(p) \ take
    <2> SUFFICES ASSUME Left(p)' # 0 PROVE Ahead(p)' = Ahead(p) \ take
      OBVIOUS
    <2>1. take = here /\ Scanning(p)' /\ Scanning(p)
      BY <1>2, <1>4, <1>8, <1>9 DEF Scanning
    <2>2. /\ Ahead(p) = {e \in heap : \E i \in DOMAIN scan[p] : e.shard = scan[p][i]}
          /\ Ahead(p)' = {e \in heap \ take : \E i \in DOMAIN Tail(scan[p]) : e.shard = Tail(scan[p])[i]}
      BY <1>1, <1>8, <2>1 DEF Ahead
    <2>3. \A e \in heap \ here : (\E i \in DOMAIN scan[p] : e.shard = scan[p][i])
                                 <=> (\E i \in DOMAIN Tail(scan[p]) : e.shard = Tail(scan[p])[i])
      <3> SUFFICES ASSUME NEW e \in heap \ here
                   PROVE  (\E i \in DOMAIN scan[p] : e.shard = scan[p][i])
                          <=> (\E i \in DOMAIN Tail(scan[p]) : e.shard = Tail(scan[p])[i])
        OBVIOUS
      <3>1. e.shard # Head(scan[p]) /\ Head(scan[p]) = scan[p][1]
        BY <1>7a, <1>11
      <3>2. /\ DOMAIN scan[p] = 1 .. Len(scan[p]) /\ Len(scan[p]) \in Nat
            /\ DOMAIN Tail(scan[p]) = 1 .. Len(scan[p]) - 1
            /\ \A i \in 1 .. Len(scan[p]) - 1 : Tail(scan[p])[i] = scan[p][i + 1]
        BY <1>11
      <3>3. ASSUME NEW i \in DOMAIN scan[p], e.shard = scan[p][i]
            PROVE  \E j \in DOMAIN Tail(scan[p]) : e.shard = Tail(scan[p])[j]
        <4>1. i # 1
          BY <3>1, <3>3
        <4>2. i - 1 \in 1 .. Len(scan[p]) - 1
          BY <3>2, <4>1
        <4>3. Tail(scan[p])[i - 1] = scan[p][i]
          BY <3>2, <4>2
        <4>4. QED
          BY <3>2, <3>3, <4>2, <4>3
      <3>4. ASSUME NEW i \in DOMAIN Tail(scan[p]), e.shard = Tail(scan[p])[i]
            PROVE  \E j \in DOMAIN scan[p] : e.shard = scan[p][j]
        <4>1. i + 1 \in 1 .. Len(scan[p])
          BY <3>2
        <4>2. QED
          BY <3>2, <3>4, <4>1
      <3>5. QED
        BY <3>3, <3>4
    <2>4. QED
      BY <2>1, <2>2, <2>3
  <1>13. CASE take = {}
    <2>1. k = 0
      BY <1>7c, <1>13
    <2>2. UNCHANGED <<heap, got, staged>>
      BY <1>1, <1>2, <1>13 DEF IInv, TypeOK
    <2>3. Left(p)' = Left(p) /\ Left(p)' # 0
      BY <1>2, <1>8, <1>9, <2>1
    <2>4. \A q \in Procs : Left(q)' = Left(q) /\ Ahead(q)' = Ahead(q)
      BY <1>8, <1>10, <1>12, <1>13, <2>2, <2>3, SameRoom
    <2>5. /\ UNCHANGED <<UrlsOf(heap), [q \in Procs |-> UrlsOf(staged[q])], [q \in Procs |-> UrlsOf(got[q])]>>
          /\ UNCHANGED <<[q \in Procs |-> Left(q)], [q \in Procs |-> UrlsOf(Ahead(q))]>>
      BY <2>2, <2>4 DEF UrlsOf
    <2>6. QED
      BY <2>5 DEF Queue!vars
  <1>14. CASE take # {}
    <2>1. us # {} /\ us \subseteq UrlsOf(heap) /\ us \in SUBSET URLs
      BY <1>7b, <1>14
    <2>2. UrlsOf(heap') = UrlsOf(heap) \ us
      BY <1>1, <1>3, <1>5, UrlsOfDifference
    <2>3. \A q \in Procs : UrlsOf(got'[q]) = IF q = p THEN UrlsOf(got[q]) \cup us ELSE UrlsOf(got[q])
      BY <1>8 DEF UrlsOf
    <2>4. \A q \in Procs : q # p => UrlsOf(Ahead(q)') = UrlsOf(Ahead(q)) \ us
      <3> SUFFICES ASSUME NEW q \in Procs, q # p PROVE UrlsOf(Ahead(q)') = UrlsOf(Ahead(q)) \ us
        OBVIOUS
      <3>1. Ahead(q)' = Ahead(q) \ take
        <4>1. SameScan(q)
          BY <1>8
        <4>2. (Scanning(q)' <=> Scanning(q)) /\ (Scanning(q) => scan'[q] = scan[q])
          BY <4>1 DEF SameScan, Scanning
        <4>3. QED
          BY <1>1, <4>2 DEF Ahead
      <3>2. Ahead(q) \subseteq heap
        BY DEF Ahead
      <3>3. UrlsOf(Ahead(q) \ take) = UrlsOf(Ahead(q)) \ us
        BY <1>3, <1>5, <3>2 DEF UrlsOf
      <3>4. QED
        BY <3>1, <3>3
    <2>5. UrlsOf(Ahead(p)') = IF Left(p)' = 0 THEN {} ELSE UrlsOf(Ahead(p)) \ us
      <3>1. CASE Left(p)' = 0
        BY <1>9, <3>1 DEF Ahead, UrlsOf
      <3>2. CASE Left(p)' # 0
        <4>1. Ahead(p) \subseteq heap
          BY DEF Ahead
        <4>2. UrlsOf(Ahead(p) \ take) = UrlsOf(Ahead(p)) \ us
          BY <1>3, <1>5, <4>1 DEF UrlsOf
        <4>3. QED
          BY <1>12, <3>2, <4>2
      <3>3. QED
        BY <3>1, <3>2
    <2> HIDE DEF us
    <2>6. /\ [q \in Procs |-> UrlsOf(got'[q])] = [[q \in Procs |-> UrlsOf(got[q])] EXCEPT ![p] = @ \cup us]
          /\ [q \in Procs |-> Left(q)'] = [[q \in Procs |-> Left(q)] EXCEPT ![p] = @ - Cardinality(us)]
          /\ [q \in Procs |-> UrlsOf(Ahead(q)')]
               = [q \in Procs |-> IF q = p /\ [r \in Procs |-> Left(r)'][p] = 0 THEN {}
                                  ELSE [r \in Procs |-> UrlsOf(Ahead(r))][q] \ us]
      BY <1>6, <1>9, <1>10, <2>3, <2>4, <2>5
    <2>7. Cardinality(us) <= [q \in Procs |-> Left(q)][p]
      BY <1>4, <1>6, <1>9
    <2>8. UNCHANGED [q \in Procs |-> UrlsOf(staged[q])]
      BY <1>2 DEF UrlsOf
    <2>9. Queue!Take(p, us)
      <3>1. Queue!Cardinality(us) = Cardinality(us)
        BY DEF Queue!Cardinality, Cardinality
      <3>2. QED
        BY <2>1, <2>2, <2>6, <2>7, <2>8, <3>1, Zenon DEF Queue!Take
    <2>10. QED
      BY <2>1, <2>9 DEF Queue!Next
  <1>15. QED
    BY <1>13, <1>14

\* A scan ends with its room used up, or with no shard ahead of it.
LEMMA EndScanEnds ==
    ASSUME IInv, NEW p \in Procs, EndScan(p)
    PROVE  [Queue!Next]_Queue!vars
  <1>1. /\ pc[p] = "scan" /\ pc'[p] # "scan" /\ (scan[p] = <<>> \/ count[p] = want[p])
        /\ UNCHANGED <<heap, staged, got>>
        /\ \A q \in Procs : q # p => SameScan(q)
    BY DEF EndScan, Goto, IInv, TypeOK, SameScan
  <1>2. \A q \in Procs : q # p => Left(q)' = Left(q) /\ Ahead(q)' = Ahead(q)
    BY <1>1, SameRoom
  <1>3. Left(p)' = 0 /\ Ahead(p)' = {} /\ Ahead(p) = {}
    <2>1. ~Scanning(p)'
      BY <1>1 DEF Scanning
    <2>2. scan[p] = <<>> => DOMAIN scan[p] = {}
      OBVIOUS
    <2>3. count[p] = want[p] => ~Scanning(p)
      BY DEF Scanning, IInv, TypeOK
    <2>4. QED
      BY <1>1, <2>1, <2>2, <2>3 DEF Left, Ahead
  <1>4. /\ UNCHANGED <<UrlsOf(heap), [q \in Procs |-> UrlsOf(staged[q])], [q \in Procs |-> UrlsOf(got[q])]>>
        /\ UNCHANGED [q \in Procs |-> UrlsOf(Ahead(q))]
    <2>1. \A q \in Procs : Ahead(q)' = Ahead(q)
      BY <1>2, <1>3
    <2>2. QED
      BY <1>1, <2>1 DEF UrlsOf
  <1>5. CASE Scanning(p)
    <2>1. Left(p) > 0 /\ UrlsOf(Ahead(p)) = {}
      BY <1>3, <1>5 DEF Left, Scanning, IInv, TypeOK, UrlsOf
    <2>2. [q \in Procs |-> Left(q)'] = [[q \in Procs |-> Left(q)] EXCEPT ![p] = 0]
      BY <1>2, <1>3
    <2>3. Queue!EndShort(p)
      BY <1>4, <2>1, <2>2 DEF Queue!EndShort
    <2>4. QED
      BY <2>3 DEF Queue!Next
  <1>6. CASE ~Scanning(p)
    <2>1. \A q \in Procs : Left(q)' = Left(q)
      BY <1>2, <1>3, <1>6 DEF Left
    <2>2. UNCHANGED [q \in Procs |-> Left(q)]
      BY <2>1
    <2>3. QED
      BY <1>4, <2>2 DEF Queue!vars
  <1>7. QED
    BY <1>5, <1>6

\* Deleting a popped URL from the dedup set releases it.
LEMMA EraseReleases ==
    ASSUME IInv, NEW p \in Procs, Erase(p)
    PROVE  [Queue!Next]_Queue!vars
  <1>1. PICK e \in got[p] : got' = [got EXCEPT ![p] = @ \ {e}]
    BY DEF Erase
  <1>2. UNCHANGED <<heap, staged>> /\ \A q \in Procs : SameScan(q)
    BY DEF Erase, SameScan
  <1>3. \A f \in got[p] : f.url = e.url => f = e
    BY DEF IInv, OnePlace, Pending, Popped
  <1>4. UrlsOf(got[p] \ {e}) = UrlsOf(got[p]) \ {e.url}
    BY <1>3 DEF UrlsOf
  <1>5. \A q \in Procs : UrlsOf(got'[q]) = IF q = p THEN UrlsOf(got[q]) \ {e.url} ELSE UrlsOf(got[q])
    BY <1>1, <1>4 DEF IInv, TypeOK
  <1>6. \A q \in Procs : Left(q)' = Left(q) /\ Ahead(q)' = Ahead(q)
    BY <1>2, SameRoom
  <1>7. /\ UNCHANGED <<UrlsOf(heap), [q \in Procs |-> UrlsOf(staged[q])]>>
        /\ UNCHANGED <<[q \in Procs |-> Left(q)], [q \in Procs |-> UrlsOf(Ahead(q))]>>
    BY <1>2, <1>6 DEF UrlsOf
  <1>8. e.url \in UrlsOf(got[p]) /\ e.url \in URLs
    BY <1>1 DEF UrlsOf, IInv, TypeOK, Entries
  <1>9. [q \in Procs |-> UrlsOf(got'[q])] = [[q \in Procs |-> UrlsOf(got[q])] EXCEPT ![p] = @ \ {e.url}]
    BY <1>5
  <1>10. Queue!Release(p, e.url)
    BY <1>7, <1>8, <1>9 DEF Queue!Release
  <1>11. QED
    BY <1>8, <1>10 DEF Queue!Next

\* Clear runs alone, so nobody holds anything: it forgets the rest.
LEMMA ClearForgets ==
    ASSUME IInv, Clear
    PROVE  [Queue!Next]_Queue!vars
  <1>1. \A p \in Procs : pc[p] # "scan" /\ staged[p] = {} /\ got[p] = {}
    BY DEF Clear, IInv, Locals
  <1>2. heap' = {} /\ UNCHANGED <<staged, got, pc>>
    BY DEF Clear
  <1>3. \A p \in Procs : /\ Left(p) = 0 /\ Left(p)' = 0 /\ Ahead(p) = {} /\ Ahead(p)' = {}
                         /\ UrlsOf(staged[p]) = {} /\ UrlsOf(got[p]) = {}
    BY <1>1, <1>2 DEF Left, Ahead, Scanning, UrlsOf
  <1>4. /\ UNCHANGED <<[p \in Procs |-> UrlsOf(staged[p])], [p \in Procs |-> UrlsOf(got[p])]>>
        /\ UNCHANGED <<[p \in Procs |-> Left(p)], [p \in Procs |-> UrlsOf(Ahead(p))]>>
    BY <1>2, <1>3
  <1>5. UrlsOf(heap') = {}
    BY <1>2 DEF UrlsOf
  <1>6. Queue!Forget
    BY <1>3, <1>4, <1>5 DEF Queue!Forget
  <1>7. QED
    BY <1>6 DEF Queue!Next

\* All other steps are invisible.
LEMMA OthersInvisible ==
    ASSUME IInv, NEW p \in Procs,
           \/ \E u \in URLs : Push(p, u)
           \/ \E us \in Batches : PushBatch(p, us)
           \/ Close(p) \/ CheckCapacity(p) \/ AddLen(p) \/ SubLen(p) \/ CheckWait(p) \/ CloseWake(p)
           \/ (PopWait(p) \/ Retry(p)) /\ closed
    PROVE  UNCHANGED Queue!vars
  <1>1. UNCHANGED <<heap, staged, got>>
    BY DEF Push, PushBatch, Begin, Close, CheckCapacity, AddLen, SubLen, CheckWait, CloseWake, PopWait, Retry
  <1>2. \A q \in Procs : SameScan(q)
    <2>1. ASSUME NEW us, NEW method, Begin(p, method, us) PROVE \A q \in Procs : SameScan(q)
      BY <2>1 DEF Begin, Goto, SameScan, IInv, TypeOK
    <2>2. CASE CloseWake(p)
      BY <2>2 DEF CloseWake, WakeAnd, Parked, SameScan, IInv, TypeOK
    <2>3. CASE \/ Close(p) \/ CheckCapacity(p) \/ AddLen(p) \/ SubLen(p) \/ CheckWait(p)
               \/ (PopWait(p) \/ Retry(p)) /\ closed
      BY <2>3 DEF Close, CheckCapacity, AddLen, SubLen, CheckWait, PopWait, Retry, Goto, SameScan, IInv, TypeOK
    <2>4. QED
      BY <2>1, <2>2, <2>3 DEF Push, PushBatch
  <1>3. QED
    BY <1>1, <1>2, Invisible

\* The sharded queue implements the abstract queue: whatever the goroutines'
\* interleaving, a URL is pending at most once and has one taker, and a pop
\* that comes back short has missed only what had not landed when it began.
THEOREM Refinement == Spec => ImplementsURLQueue
  <1>1. Init => Queue!Init
    <2> SUFFICES ASSUME Init PROVE Queue!Init
      OBVIOUS
    <2>1. /\ UrlsOf(heap) = {}
          /\ \A p \in Procs : /\ UrlsOf(staged[p]) = {} /\ UrlsOf(got[p]) = {}
                              /\ Left(p) = 0 /\ UrlsOf(Ahead(p)) = {}
      BY DEF Init, UrlsOf, Left, Ahead, Scanning
    <2>2. QED
      BY <2>1 DEF Queue!Init
  <1>2. IInv /\ [Next]_vars => [Queue!Next]_Queue!vars
    <2> SUFFICES ASSUME IInv, [Next]_vars PROVE [Queue!Next]_Queue!vars
      OBVIOUS
    <2>1. CASE Clear
      BY <2>1, ClearForgets
    <2>2. ASSUME NEW p \in Procs, Call(p) PROVE [Queue!Next]_Queue!vars
      <3>1. ASSUME NEW n \in 1 .. MaxBatch, PopBatch(p, n) PROVE [Queue!Next]_Queue!vars
        BY <3>1, StartBegins DEF PopBatch
      <3>2. CASE PopWait(p) /\ ~closed
        <4>1. 1 \in 1 .. MaxBatch
          BY FastQueueConstants
        <4>2. QED
          BY <3>2, <4>1, StartBegins DEF PopWait
      <3>3. QED
        BY <2>2, <3>1, <3>2, OthersInvisible DEF Call
    <2>3. ASSUME NEW p \in Procs, Step(p) PROVE [Queue!Next]_Queue!vars
      <3>1. CASE Retry(p) /\ ~closed
        <4>1. 1 \in 1 .. MaxBatch
          BY FastQueueConstants
        <4>2. QED
          BY <3>1, <4>1, StartBegins DEF Retry
      <3>2. QED
        BY <2>3, <3>1, ReserveAccepts, FlushLands, ScanTakes, EndScanEnds, EraseReleases, OthersInvisible
           DEF Step
    <2>4. CASE UNCHANGED vars
      <3>1. UNCHANGED <<heap, staged, got>> /\ \A p \in Procs : SameScan(p)
        BY <2>4 DEF vars, SameScan
      <3>2. QED
        BY <3>1, Invisible
    <2>5. QED
      BY <2>1, <2>2, <2>3, <2>4 DEF Next
  <1>3. QED
    BY <1>1, <1>2, Invariance, PTL DEF Spec, Queue!Spec, ImplementsURLQueue

-------------------------------------------------------------------------------
(* What totalLen counts.                                                     *)

\* A pusher holds at most a batch; only pushers and poppers hold anything.
Counts ==
    \A p \in Procs :
        /\ pc[p] \in Pushing => count[p] + Len(todo[p]) <= MaxBatch
        /\ pc[p] = "scan" /\ got[p] = {} => count[p] = 0
        /\ pc[p] \notin Pushing \cup {"scan", "erase"} => count[p] = 0

LenEquation ==
    totalLen = Cardinality(InQueue) - Total(Procs, Adding) + Total(Procs, Taking)

\* What p has reserved room for: what it holds, and the item whose capacity
\* check it has passed.
Intent == [p \in Procs |-> Adding[p] + (IF pc[p] = "dedup" THEN 1 ELSE 0)]

\* All pushers but the last to pass the check may overshoot by a batch.
Slack == (Cardinality(Procs) - 1) * MaxBatch
Room  == Capacity > 0 => totalLen + Total(Procs, Intent) <= Capacity + Slack

LEMMA SlackType == Slack \in Nat
  <1>1. Cardinality(Procs) \in Nat /\ Cardinality(Procs) # 0
    BY FastQueueConstants, FS_CardinalityType, FS_EmptySet
  <1>2. Cardinality(Procs) - 1 \in Nat
    BY <1>1
  <1>3. QED
    BY <1>2, FastQueueConstants DEF Slack

\* The terms of the sums.
LEMMA Terms ==
    ASSUME TypeOK
    PROVE  /\ Adding \in [Procs -> Nat] /\ Taking \in [Procs -> Nat] /\ Intent \in [Procs -> Nat]
           /\ \A p \in Procs :
                /\ Adding[p] = IF pc[p] \in Pushing THEN count[p] ELSE 0
                /\ Taking[p] = IF pc[p] \in Pushing THEN 0 ELSE count[p]
                /\ Intent[p] = Adding[p] + (IF pc[p] = "dedup" THEN 1 ELSE 0)
  BY DEF TypeOK, Adding, Taking, Intent

LEMMA InQueueFinite == IInv => IsFiniteSet(InQueue)
  <1> SUFFICES ASSUME IInv PROVE IsFiniteSet(InQueue)
    OBVIOUS
  <1> DEFINE parts == {staged[p] : p \in Procs}
             part == [p \in Procs |-> staged[p]]
  <1>1. part \in Surjection(Procs, parts)
    <2>1. part \in [Procs -> parts] /\ \A T \in parts : \E p \in Procs : part[p] = T
      OBVIOUS
    <2> HIDE DEF part, parts
    <2>2. QED
      BY <2>1 DEF Surjection
  <1>2. IsFiniteSet(parts)
    BY <1>1, FS_Surjection, FastQueueConstants
  <1>3. \A T \in parts : IsFiniteSet(T)
    BY DEF IInv, FiniteHeaps
  <1>4. IsFiniteSet(UNION parts)
    BY <1>2, <1>3, FS_UNION
  <1>5. QED
    BY <1>4, FS_Union DEF InQueue, Staged, IInv, FiniteHeaps

-------------------------------------------------------------------------------
\* A goroutine's count is reset before its next call.
LEMMA CountsStep == IInv /\ Counts /\ [Next]_vars => Counts'
  <1> SUFFICES ASSUME IInv, Counts, [Next]_vars PROVE Counts'
    OBVIOUS
  <1> USE DEF IInv, TypeOK, Counts, Pushing, Goto
  <1>1. CASE Clear
    BY <1>1 DEF Clear
  <1>2. ASSUME NEW p \in Procs, Call(p) PROVE Counts'
    <2>1. ASSUME NEW us \in Seq(URLs), NEW method, Len(us) <= MaxBatch, Begin(p, method, us)
          PROVE  Counts'
      BY <2>1 DEF Begin
    <2>2. ASSUME NEW u \in URLs, Push(p, u) PROVE Counts'
      <3>1. <<u>> \in Seq(URLs) /\ Len(<<u>>) <= MaxBatch
        BY FastQueueConstants
      <3>2. QED
        BY <2>1, <2>2, <3>1 DEF Push
    <2>3. ASSUME NEW us \in Batches, PushBatch(p, us) PROVE Counts'
      <3>1. us \in Seq(URLs) /\ Len(us) <= MaxBatch
        BY BatchType
      <3>2. Begin(p, "PushBatch", us)
        BY <2>3 DEF PushBatch
      <3>3. QED
        BY <2>1, <3>1, <3>2
    <2>4. CASE (\E n \in 1 .. MaxBatch : PopBatch(p, n)) \/ PopWait(p) \/ Close(p)
      BY <2>4 DEF PopBatch, PopWait, StartScan, Close
    <2>5. QED
      BY <1>2, <2>2, <2>3, <2>4 DEF Call
  <1>3. ASSUME NEW p \in Procs, Step(p) PROVE Counts'
    <2>1. CASE CheckCapacity(p)
      BY <2>1 DEF CheckCapacity
    <2>2. CASE Reserve(p)
      <3>1. todo[p] \in Seq(URLs) /\ todo[p] # <<>>
        BY <2>2 DEF Reserve, Locals
      <3>2. Tail(todo[p]) \in Seq(URLs) /\ Len(Tail(todo[p])) = Len(todo[p]) - 1
            /\ Len(todo[p]) \in Nat
        BY <3>1
      <3>3. /\ pc[p] = "dedup" /\ pc' = [pc EXCEPT ![p] = "cap"]
            /\ todo' = [todo EXCEPT ![p] = Tail(todo[p])]
            /\ count' = count \/ count' = [count EXCEPT ![p] = @ + 1]
        BY <2>2 DEF Reserve
      <3>4. /\ pc'[p] = "cap" /\ todo'[p] = Tail(todo[p]) /\ count'[p] \in {count[p], count[p] + 1}
            /\ count[p] \in Nat
        BY <3>3
      <3>5. \A q \in Procs : q # p => pc'[q] = pc[q] /\ todo'[q] = todo[q]
                                      /\ count'[q] = count[q] /\ got'[q] = got[q]
        BY <2>2, <3>3 DEF Reserve
      <3>6. count'[p] + Len(todo'[p]) <= MaxBatch
        BY <3>2, <3>3, <3>4, FastQueueConstants
      <3>7. QED
        BY <3>4, <3>5, <3>6
    <2>3. CASE Flush(p)
      <3>1. \A woken \in Woken(p) : woken \subseteq Parked
        BY DEF Woken
      <3>2. \/ UNCHANGED pc
            \/ \E woken \in SUBSET Parked :
                  pc' = [q \in Procs |-> IF q = p THEN "flush"
                                         ELSE IF q \in woken THEN "check" ELSE pc[q]]
        BY <2>3, <3>1 DEF Flush, WakeAnd
      <3>3. UNCHANGED <<todo, got, count>> /\ pc[p] = "flush"
        BY <2>3 DEF Flush
      <3>4. QED
        BY <3>2, <3>3 DEF Parked
    <2>4. CASE AddLen(p)
      BY <2>4 DEF AddLen
    <2>5. CASE ScanShard(p)
      <3> DEFINE here == InShard(heap, Head(scan[p]))
                 k == Least(want[p] - count[p], Cardinality(here))
      <3>1. PICK take \in SUBSET here :
               /\ Cardinality(take) = k
               /\ got' = [got EXCEPT ![p] = @ \cup take]
               /\ count' = [count EXCEPT ![p] = @ + k]
        BY <2>5 DEF ScanShard
      <3>2. take = {} => k = 0
        BY <3>1, FS_EmptySet
      <3> HIDE DEF here, k
      <3>3. pc[p] = "scan" /\ UNCHANGED <<pc, todo>>
        BY <2>5 DEF ScanShard
      <3>4. got'[p] = {} => count'[p] = 0
        BY <3>1, <3>2, <3>3
      <3>5. \A q \in Procs : q # p => got'[q] = got[q] /\ count'[q] = count[q]
        BY <3>1
      <3>6. QED
        BY <3>3, <3>4, <3>5
    <2>6. CASE EndScan(p)
      BY <2>6 DEF EndScan
    <2>7. CASE Erase(p)
      BY <2>7 DEF Erase
    <2>8. CASE SubLen(p)
      BY <2>8 DEF SubLen
    <2>9. CASE CheckWait(p) \/ Retry(p)
      BY <2>9 DEF CheckWait, Retry, StartScan
    <2>10. CASE CloseWake(p)
      BY <2>10 DEF CloseWake, WakeAnd, Parked
    <2>11. QED
      BY <1>3, <2>1, <2>2, <2>3, <2>4, <2>5, <2>6, <2>7, <2>8, <2>9, <2>10 DEF Step
  <1>4. CASE UNCHANGED vars
    BY <1>4 DEF vars
  <1>5. QED
    BY <1>1, <1>2, <1>3, <1>4 DEF Next

-------------------------------------------------------------------------------
\* A step that leaves the queued entries and every term of the sums alone.
LEMMA LenSame ==
    ASSUME LenEquation, UNCHANGED <<InQueue, totalLen, Adding, Taking>>
    PROVE  LenEquation'
  BY DEF LenEquation

\* A step that changes the terms of one goroutine.
LEMMA LenStepOf ==
    ASSUME IInv, TypeOK', LenEquation, NEW p \in Procs,
           \A q \in Procs : q # p => Adding'[q] = Adding[q] /\ Taking'[q] = Taking[q],
           IsFiniteSet(InQueue'),
           totalLen' = totalLen + Cardinality(InQueue') - Cardinality(InQueue)
                       - (Adding'[p] - Adding[p]) + (Taking'[p] - Taking[p])
    PROVE  LenEquation'
  <1>1. Adding \in [Procs -> Nat] /\ Taking \in [Procs -> Nat]
    BY Terms DEF IInv
  <1>2. Adding' \in [Procs -> Nat] /\ Taking' \in [Procs -> Nat]
    BY DEF TypeOK, Adding, Taking
  <1>3. /\ Total(Procs, Adding') = Total(Procs, Adding) - Adding[p] + Adding'[p]
        /\ Total(Procs, Adding) \in Nat /\ Total(Procs, Adding') \in Nat
    BY <1>1, <1>2, TotalUpdate, FastQueueConstants, SMTT(30)
  <1>4. /\ Total(Procs, Taking') = Total(Procs, Taking) - Taking[p] + Taking'[p]
        /\ Total(Procs, Taking) \in Nat /\ Total(Procs, Taking') \in Nat
    BY <1>1, <1>2, TotalUpdate, FastQueueConstants, SMTT(30)
  <1>5. Cardinality(InQueue) \in Nat /\ Cardinality(InQueue') \in Nat
    BY InQueueFinite, FS_CardinalityType
  <1>6. totalLen \in Int /\ totalLen' \in Int
    BY DEF IInv, TypeOK
  <1>7. /\ Adding[p] \in Nat /\ Taking[p] \in Nat /\ Adding'[p] \in Nat /\ Taking'[p] \in Nat
    BY <1>1, <1>2
  <1>8. totalLen = Cardinality(InQueue) - Total(Procs, Adding) + Total(Procs, Taking)
    BY DEF LenEquation
  <1>9. totalLen' = Cardinality(InQueue') - Total(Procs, Adding') + Total(Procs, Taking')
    BY <1>3, <1>4, <1>5, <1>6, <1>7, <1>8
  <1>10. QED
    BY <1>9 DEF LenEquation

\* A goroutine's place decides which of the two sums its count is in.
SameTerm(q) == \/ count'[q] = count[q] /\ (pc'[q] \in Pushing <=> pc[q] \in Pushing)
               \/ count'[q] = 0 /\ count[q] = 0

LEMMA SameTerms ==
    ASSUME \A q \in Procs : SameTerm(q)
    PROVE  UNCHANGED <<Adding, Taking>>
  <1>1. \A q \in Procs :
           /\ (IF pc'[q] \in Pushing THEN count'[q] ELSE 0) = (IF pc[q] \in Pushing THEN count[q] ELSE 0)
           /\ (IF pc'[q] \in Pushing THEN 0 ELSE count'[q]) = (IF pc[q] \in Pushing THEN 0 ELSE count[q])
    BY DEF SameTerm
  <1>2. QED
    BY <1>1 DEF Adding, Taking

\* A step of p that only moves it, and wakes others, between places of one kind.
LEMMA QuietStep ==
    ASSUME IInv, Counts, NEW p \in Procs,
           \/ CheckCapacity(p) \/ Flush(p) \/ EndScan(p) \/ CheckWait(p) \/ Retry(p)
           \/ CloseWake(p) \/ Erase(p) \/ Call(p)
    PROVE  UNCHANGED <<Adding, Taking>>
  <1>0. /\ pc \in [Procs -> PCs] /\ count \in [Procs -> Nat]
        /\ \A q \in Procs : pc[q] \notin Pushing \cup {"scan", "erase"} => count[q] = 0
    BY DEF IInv, TypeOK, Counts
  <1>1. CASE CheckCapacity(p)
    <2>1. \A q \in Procs : SameTerm(q)
      BY <1>0, <1>1 DEF SameTerm, Pushing, Goto, CheckCapacity
    <2>2. QED
      BY <2>1, SameTerms
  <1>2. CASE EndScan(p)
    <2>1. \A q \in Procs : SameTerm(q)
      BY <1>0, <1>2 DEF SameTerm, Pushing, Goto, EndScan
    <2>2. QED
      BY <2>1, SameTerms
  <1>3. CASE CheckWait(p)
    <2>1. \A q \in Procs : SameTerm(q)
      BY <1>0, <1>3 DEF SameTerm, Pushing, Goto, CheckWait
    <2>2. QED
      BY <2>1, SameTerms
  <1>4. CASE Erase(p)
    <2>1. \A q \in Procs : SameTerm(q)
      BY <1>4 DEF SameTerm, Pushing, Goto, Erase
    <2>2. QED
      BY <2>1, SameTerms
  <1>5. CASE Flush(p)
    <2>1. \A woken \in Woken(p) : woken \subseteq Parked
      BY DEF Woken
    <2>2. \/ UNCHANGED pc
          \/ \E woken \in SUBSET Parked :
                pc' = [q \in Procs |-> IF q = p THEN "flush"
                                       ELSE IF q \in woken THEN "check" ELSE pc[q]]
      BY <1>5, <2>1 DEF Flush, WakeAnd
    <2>3. pc[p] = "flush" /\ UNCHANGED count
      BY <1>5 DEF Flush
    <2>4. \A q \in Procs : SameTerm(q)
      BY <1>0, <2>2, <2>3 DEF SameTerm, Pushing, Goto, Parked
    <2>5. QED
      BY <2>4, SameTerms
  <1>6. CASE CloseWake(p)
    <2>1. \A q \in Procs : SameTerm(q)
      BY <1>0, <1>6 DEF SameTerm, Pushing, Goto, CloseWake, WakeAnd, Parked
    <2>2. QED
      BY <2>1, SameTerms
  <1>7. ASSUME NEW method, NEW n, StartScan(p, method, n), pc[p] \in {"idle", "retry"}
        PROVE  UNCHANGED <<Adding, Taking>>
    <2>1. \A q \in Procs : SameTerm(q)
      BY <1>0, <1>7 DEF SameTerm, Pushing, Goto, StartScan
    <2>2. QED
      BY <2>1, SameTerms
  <1>8. CASE Retry(p)
    <2>1. CASE closed
      <3>1. \A q \in Procs : SameTerm(q)
        BY <1>0, <1>8, <2>1 DEF SameTerm, Pushing, Goto, Retry
      <3>2. QED
        BY <3>1, SameTerms
    <2>2. CASE ~closed
      BY <1>7, <1>8, <2>2 DEF Retry
    <2>3. QED
      BY <2>1, <2>2
  <1>9. ASSUME NEW us, NEW method, Begin(p, method, us) PROVE UNCHANGED <<Adding, Taking>>
    <2>1. \A q \in Procs : SameTerm(q)
      BY <1>0, <1>9 DEF SameTerm, Pushing, Goto, Begin
    <2>2. QED
      BY <2>1, SameTerms
  <1>10. CASE Close(p)
    <2>1. \A q \in Procs : SameTerm(q)
      BY <1>0, <1>10 DEF SameTerm, Pushing, Goto, Close
    <2>2. QED
      BY <2>1, SameTerms
  <1>11. CASE PopWait(p)
    <2>1. CASE closed
      <3>1. \A q \in Procs : SameTerm(q)
        BY <1>0, <1>11, <2>1 DEF SameTerm, Pushing, Goto, PopWait
      <3>2. QED
        BY <3>1, SameTerms
    <2>2. CASE ~closed
      BY <1>7, <1>11, <2>2 DEF PopWait
    <2>3. QED
      BY <2>1, <2>2
  <1>12. ASSUME NEW n, PopBatch(p, n) PROVE UNCHANGED <<Adding, Taking>>
    BY <1>7, <1>12 DEF PopBatch
  <1>13. CASE Call(p)
    BY <1>9, <1>10, <1>11, <1>12, <1>13 DEF Call, Push, PushBatch
  <1>14. QED
    BY <1>1, <1>2, <1>3, <1>4, <1>5, <1>6, <1>8, <1>13

-------------------------------------------------------------------------------
\* An item that passes the dedup check is one more entry and one more to add.
LEMMA ReserveLen ==
    ASSUME IInv, IInv', LenEquation, NEW p \in Procs, Reserve(p)
    PROVE  LenEquation'
  <1>1. CASE Head(todo[p]) \in dedup
    <2>1. UNCHANGED <<heap, staged, count, totalLen>> /\ pc' = [pc EXCEPT ![p] = "cap"] /\ pc[p] = "dedup"
      BY <1>1 DEF Reserve, Goto
    <2>2. \A q \in Procs : SameTerm(q)
      BY <2>1 DEF SameTerm, Pushing, IInv, TypeOK
    <2>3. UNCHANGED InQueue
      BY <2>1 DEF InQueue, Staged
    <2>4. QED
      BY <2>1, <2>2, <2>3, SameTerms, LenSame
  <1>2. CASE Head(todo[p]) \notin dedup
    <2> DEFINE u == Head(todo[p])
    <2>1. PICK s \in Shards : staged' = [staged EXCEPT ![p] = @ \cup {Entry(u, s)}]
      BY <1>2 DEF Reserve
    <2> DEFINE e == Entry(u, s)
    <2>2. /\ count' = [count EXCEPT ![p] = @ + 1] /\ pc[p] = "dedup" /\ pc' = [pc EXCEPT ![p] = "cap"]
          /\ UNCHANGED <<heap, totalLen>>
      BY <1>2 DEF Reserve, Goto
    <2>3. \A q \in Procs : staged'[q] = IF q = p THEN staged[q] \cup {e} ELSE staged[q]
      BY <2>1 DEF IInv, TypeOK
    <2>4. e.url = u
      BY DEF Entry
    <2> HIDE DEF e
    <2>5. InQueue' = InQueue \cup {e}
      BY <2>2, <2>3 DEF InQueue, Staged
    <2>6. e \notin InQueue
      BY <1>2, <2>4 DEF IInv, OnePlace, InQueue, Pending, UrlsOf
    <2>7. /\ IsFiniteSet(InQueue') /\ Cardinality(InQueue') = Cardinality(InQueue) + 1
          /\ Cardinality(InQueue) \in Nat
      BY <2>5, <2>6, InQueueFinite, FS_AddElement, FS_CardinalityType
    <2>8. /\ pc'[p] = "cap" /\ count'[p] = count[p] + 1 /\ count[p] \in Nat
          /\ \A q \in Procs : q # p => pc'[q] = pc[q] /\ count'[q] = count[q]
      BY <2>2 DEF IInv, TypeOK
    <2>9. /\ Adding'[p] = Adding[p] + 1 /\ Taking'[p] = Taking[p] /\ Adding[p] \in Nat /\ Taking[p] \in Nat
          /\ \A q \in Procs : q # p => Adding'[q] = Adding[q] /\ Taking'[q] = Taking[q]
      BY <2>2, <2>8 DEF Adding, Taking, Pushing
    <2>10. totalLen' = totalLen + Cardinality(InQueue') - Cardinality(InQueue)
                       - (Adding'[p] - Adding[p]) + (Taking'[p] - Taking[p])
      BY <2>2, <2>7, <2>9 DEF IInv, TypeOK
    <2>11. QED
      BY <2>7, <2>9, <2>10, LenStepOf DEF IInv
  <1>3. QED
    BY <1>1, <1>2

\* What a popper takes from a heap it has yet to subtract.
LEMMA ScanLen ==
    ASSUME IInv, IInv', LenEquation, NEW p \in Procs, ScanShard(p)
    PROVE  LenEquation'
  <1> DEFINE here == InShard(heap, Head(scan[p]))
             k == Least(want[p] - count[p], Cardinality(here))
  <1>1. PICK take \in SUBSET here :
           /\ Cardinality(take) = k
           /\ heap' = heap \ take
           /\ count' = [count EXCEPT ![p] = @ + k]
    BY DEF ScanShard
  <1>2. take \subseteq heap
    BY DEF InShard
  <1> HIDE DEF here, k
  <1>3. pc[p] = "scan" /\ UNCHANGED <<pc, staged, totalLen>>
    BY DEF ScanShard
  <1>4. take \cap Staged = {}
    BY <1>2 DEF IInv, OnePlace, Staged
  <1>5. InQueue' = InQueue \ take /\ take \subseteq InQueue
    BY <1>1, <1>2, <1>3, <1>4 DEF InQueue, Staged
  <1>6. /\ IsFiniteSet(InQueue') /\ Cardinality(InQueue') = Cardinality(InQueue) - Cardinality(take)
        /\ Cardinality(InQueue) \in Nat
    <2>1. InQueue \cap take = take
      BY <1>5
    <2>2. IsFiniteSet(InQueue)
      BY InQueueFinite
    <2>3. IsFiniteSet(InQueue \ take)
          /\ Cardinality(InQueue \ take) = Cardinality(InQueue) - Cardinality(take)
      BY <2>1, <2>2, FS_Difference
    <2>4. QED
      BY <1>5, <2>2, <2>3, FS_CardinalityType
  <1>7. k \in Nat
    BY <1>1, <1>5, InQueueFinite, FS_Subset, FS_CardinalityType
  <1>8. /\ count'[p] = count[p] + k /\ count[p] \in Nat
        /\ \A q \in Procs : q # p => count'[q] = count[q]
    BY <1>1 DEF IInv, TypeOK
  <1>9. /\ Taking'[p] = Taking[p] + k /\ Adding'[p] = Adding[p] /\ Adding[p] \in Nat /\ Taking[p] \in Nat
        /\ \A q \in Procs : q # p => Adding'[q] = Adding[q] /\ Taking'[q] = Taking[q]
    BY <1>3, <1>8 DEF Adding, Taking, Pushing
  <1>10. totalLen' = totalLen + Cardinality(InQueue') - Cardinality(InQueue)
                     - (Adding'[p] - Adding[p]) + (Taking'[p] - Taking[p])
    <2>1. totalLen' = totalLen /\ totalLen \in Int
      BY <1>3 DEF IInv, TypeOK
    <2>2. Cardinality(InQueue') = Cardinality(InQueue) - k
      BY <1>1, <1>6
    <2>3. QED
      BY <1>6, <1>7, <1>9, <2>1, <2>2
  <1>11. QED
    BY <1>6, <1>9, <1>10, LenStepOf DEF IInv

\* The two atomic additions settle what a call owes.
LEMMA SettleLen ==
    ASSUME IInv, IInv', LenEquation, NEW p \in Procs, AddLen(p) \/ SubLen(p)
    PROVE  LenEquation'
  <1>1. UNCHANGED <<heap, staged>> /\ count' = [count EXCEPT ![p] = 0] /\ pc' = [pc EXCEPT ![p] = "idle"]
    BY DEF AddLen, SubLen, Goto
  <1>2. \/ pc[p] = "flush" /\ totalLen' = totalLen + count[p]
        \/ pc[p] = "erase" /\ totalLen' = totalLen - count[p]
    BY DEF AddLen, SubLen
  <1>3. UNCHANGED InQueue
    BY <1>1 DEF InQueue, Staged
  <1>4. /\ pc'[p] = "idle" /\ count'[p] = 0 /\ count[p] \in Nat
        /\ \A q \in Procs : q # p => pc'[q] = pc[q] /\ count'[q] = count[q]
    BY <1>1 DEF IInv, TypeOK
  <1>5. /\ Adding'[p] = 0 /\ Taking'[p] = 0
        /\ \/ pc[p] = "flush" /\ Adding[p] = count[p] /\ Taking[p] = 0
           \/ pc[p] = "erase" /\ Adding[p] = 0 /\ Taking[p] = count[p]
        /\ \A q \in Procs : q # p => Adding'[q] = Adding[q] /\ Taking'[q] = Taking[q]
    BY <1>2, <1>4 DEF Adding, Taking, Pushing
  <1>6. Cardinality(InQueue') = Cardinality(InQueue) /\ Cardinality(InQueue) \in Nat
        /\ IsFiniteSet(InQueue')
    BY <1>3, InQueueFinite, FS_CardinalityType
  <1>7. totalLen' = totalLen + Cardinality(InQueue') - Cardinality(InQueue)
                    - (Adding'[p] - Adding[p]) + (Taking'[p] - Taking[p])
    BY <1>2, <1>4, <1>5, <1>6 DEF IInv, TypeOK
  <1>8. QED
    BY <1>5, <1>6, <1>7, LenStepOf DEF IInv

\* Clear resets the length along with the queue, when no call is in flight.
LEMMA ClearLen ==
    ASSUME IInv, Counts, Clear
    PROVE  LenEquation'
  <1>1. /\ heap' = {} /\ totalLen' = 0 /\ UNCHANGED <<pc, count, staged>>
        /\ \A p \in Procs : pc[p] \in {"idle", "parked"}
    BY DEF Clear
  <1>2. \A p \in Procs : staged[p] = {} /\ count[p] = 0
    BY <1>1 DEF IInv, Locals, Counts, Pushing
  <1>3. InQueue' = {}
    BY <1>1, <1>2 DEF InQueue, Staged
  <1>4. \A p \in Procs : Adding'[p] = 0 /\ Taking'[p] = 0
    BY <1>1, <1>2 DEF Adding, Taking
  <1>5. Total(Procs, Adding') = 0 /\ Total(Procs, Taking') = 0
    BY <1>4, TotalZero
  <1>6. Cardinality(InQueue') = 0
    BY <1>3, FS_EmptySet
  <1>7. QED
    BY <1>1, <1>5, <1>6 DEF LenEquation

\* Every step keeps the length in step with the queue.
LEMMA LenStep == IInv /\ IInv' /\ Counts /\ LenEquation /\ [Next]_vars => LenEquation'
  <1> SUFFICES ASSUME IInv, IInv', Counts, LenEquation, [Next]_vars PROVE LenEquation'
    OBVIOUS
  <1>1. ASSUME NEW p \in Procs,
               \/ CheckCapacity(p) \/ Flush(p) \/ EndScan(p) \/ CheckWait(p) \/ Retry(p)
               \/ CloseWake(p) \/ Erase(p) \/ Call(p)
        PROVE  LenEquation'
    <2>1. UNCHANGED <<Adding, Taking>>
      BY <1>1, QuietStep
    <2>2. UNCHANGED totalLen
      BY <1>1 DEF CheckCapacity, Flush, EndScan, CheckWait, Retry, CloseWake, Erase, Call, Push,
         PushBatch, Begin, PopBatch, PopWait, StartScan, Close
    <2>3. UNCHANGED InQueue
      <3>1. CASE Flush(p)
        <4>1. PICK s \in Shards :
                 /\ heap' = heap \cup InShard(staged[p], s)
                 /\ staged' = [staged EXCEPT ![p] = @ \ InShard(staged[p], s)]
          BY <3>1 DEF Flush
        <4> DEFINE b == InShard(staged[p], s)
        <4>2. b \subseteq staged[p]
          BY DEF InShard
        <4> HIDE DEF b
        <4>3. \A q \in Procs : staged'[q] = IF q = p THEN staged[q] \ b ELSE staged[q]
          BY <4>1 DEF b, IInv, TypeOK
        <4>4. heap' = heap \cup b
          BY <4>1 DEF b
        <4>5. QED
          BY <4>2, <4>3, <4>4 DEF InQueue, Staged
      <3>2. CASE UNCHANGED <<heap, staged>>
        BY <3>2 DEF InQueue, Staged
      <3>3. QED
        BY <1>1, <3>1, <3>2 DEF CheckCapacity, EndScan, CheckWait, Retry, CloseWake, Erase, Call,
           Push, PushBatch, Begin, PopBatch, PopWait, StartScan, Close
    <2>4. QED
      BY <2>1, <2>2, <2>3, LenSame
  <1>2. CASE Clear
    BY <1>2, ClearLen
  <1>3. CASE UNCHANGED vars
    <2>1. UNCHANGED <<InQueue, totalLen, Adding, Taking>>
      BY <1>3 DEF vars, InQueue, Staged, Adding, Taking
    <2>2. QED
      BY <2>1, LenSame
  <1>4. QED
    BY <1>1, <1>2, <1>3, ReserveLen, ScanLen, SettleLen DEF Next, Step

-------------------------------------------------------------------------------
(* The capacity bound.                                                       *)

LEMMA IntentType ==
    ASSUME TypeOK, TypeOK'
    PROVE  Intent \in [Procs -> Nat] /\ Intent' \in [Procs -> Nat]
  <1>1. \A q \in Procs : count[q] \in Nat /\ count'[q] \in Nat
    BY DEF TypeOK
  <1>2. \A q \in Procs : Adding[q] \in Nat /\ Adding'[q] \in Nat
    BY <1>1 DEF Adding
  <1>3. QED
    BY <1>2 DEF Intent

\* A step that lets only p reserve, and no more than the length gives way.
LEMMA RoomStepOf ==
    ASSUME IInv, IInv', Room, NEW p \in Procs,
           \A q \in Procs : q # p => Intent'[q] = Intent[q],
           totalLen' + Intent'[p] <= totalLen + Intent[p]
    PROVE  Room'
  <1>1. Intent \in [Procs -> Nat] /\ Intent' \in [Procs -> Nat]
    BY IntentType DEF IInv
  <1>2. /\ Total(Procs, Intent') = Total(Procs, Intent) - Intent[p] + Intent'[p]
        /\ Total(Procs, Intent) \in Nat /\ Total(Procs, Intent') \in Nat
    BY <1>1, TotalUpdate, FastQueueConstants, SMTT(30)
  <1>3. totalLen \in Int /\ totalLen' \in Int /\ Intent[p] \in Nat /\ Intent'[p] \in Nat
    BY <1>1 DEF IInv, TypeOK
  <1>4. totalLen' + Total(Procs, Intent') <= totalLen + Total(Procs, Intent)
    BY <1>2, <1>3
  <1>5. Capacity + Slack \in Nat
    BY SlackType, FastQueueConstants
  <1>6. QED
    BY <1>2, <1>3, <1>4, <1>5 DEF Room

\* p passes the capacity check: the others hold at most a batch each.
LEMMA AdmitRoom ==
    ASSUME IInv, IInv', Counts, Room, NEW p \in Procs, CheckCapacity(p)
    PROVE  Room'
  <1>1. /\ pc[p] = "cap" /\ UNCHANGED <<count, totalLen, todo>>
        /\ pc' = [pc EXCEPT ![p] = IF todo[p] = <<>> \/ Full(p) THEN "flush" ELSE "dedup"]
    BY DEF CheckCapacity, Goto
  <1>2. /\ count[p] \in Nat /\ totalLen \in Int
        /\ \A q \in Procs : q # p => pc'[q] = pc[q]
    BY <1>1 DEF IInv, TypeOK
  <1>3. \A q \in Procs : q # p => Intent'[q] = Intent[q]
    BY <1>1, <1>2 DEF Intent, Adding
  <1>4. CASE todo[p] = <<>> \/ Full(p)
    <2>1. pc'[p] = "flush"
      BY <1>1, <1>4 DEF IInv, TypeOK
    <2>2. Intent'[p] = count[p] /\ Intent[p] = count[p]
      BY <1>1, <1>2, <2>1 DEF Intent, Adding, Pushing
    <2>3. QED
      BY <1>1, <1>2, <1>3, <2>2, RoomStepOf
  <1>5. CASE ~(todo[p] = <<>> \/ Full(p))
    <2>1. pc'[p] = "dedup"
      BY <1>1, <1>5 DEF IInv, TypeOK
    <2>2. Intent'[p] = count[p] + 1
      BY <1>1, <1>2, <2>1 DEF Intent, Adding, Pushing
    <2>3. Capacity > 0 => totalLen + count[p] + 1 <= Capacity
      BY <1>2, <1>5, FastQueueConstants DEF Full
    <2>4. \A q \in Procs : Intent'[q] <= MaxBatch
      <3>1. ASSUME NEW q \in Procs PROVE Intent'[q] <= MaxBatch
        <4>1. count'[q] = count[q] /\ count[q] \in Nat /\ todo[q] \in Seq(URLs) /\ MaxBatch \in Nat
          BY <1>1, FastQueueConstants DEF IInv, TypeOK
        <4>2. Len(todo[q]) \in Nat /\ (todo[q] # <<>> => Len(todo[q]) > 0)
          BY <4>1
        <4>3. pc[q] \in Pushing => count[q] + Len(todo[q]) <= MaxBatch
          BY DEF Counts
        <4>4. pc'[q] \in Pushing => pc[q] \in Pushing
          BY <1>1, <1>2 DEF Pushing
        <4>5. pc'[q] = "dedup" => todo[q] # <<>>
          BY <1>1 DEF IInv, Locals
        <4>6. Intent'[q] = (IF pc'[q] \in Pushing THEN count[q] ELSE 0)
                           + (IF pc'[q] = "dedup" THEN 1 ELSE 0)
          BY <4>1 DEF Intent, Adding
        <4>7. CASE pc'[q] = "dedup"
          BY <4>1, <4>2, <4>3, <4>4, <4>5, <4>6, <4>7 DEF Pushing
        <4>8. CASE pc'[q] # "dedup"
          BY <4>1, <4>2, <4>3, <4>4, <4>6, <4>8
        <4>9. QED
          BY <4>7, <4>8
      <3>2. QED
        BY <3>1
    <2>5. Intent' \in [Procs -> Nat] /\ MaxBatch \in Nat
      BY IntentType, FastQueueConstants DEF IInv
    <2>6. Total(Procs, Intent') <= Intent'[p] + Slack
      BY <2>4, <2>5, TotalBound, FastQueueConstants DEF Slack
    <2>7. Total(Procs, Intent') \in Nat
      BY <2>5, TotalType, FastQueueConstants
    <2>8. Capacity > 0 => totalLen + Total(Procs, Intent') <= Capacity + Slack
      BY <1>2, <2>2, <2>3, <2>6, <2>7, SlackType, FastQueueConstants
    <2>9. QED
      BY <1>1, <2>8 DEF Room, Slack
  <1>6. QED
    BY <1>4, <1>5

\* The bound on what is queued and reserved survives every step.
LEMMA RoomStep == IInv /\ IInv' /\ Counts /\ Room /\ [Next]_vars => Room'
  <1> SUFFICES ASSUME IInv, IInv', Counts, Room, [Next]_vars PROVE Room'
    OBVIOUS
  <1>1. ASSUME NEW p \in Procs, Step(p), ~CheckCapacity(p) PROVE Room'
    <2>1. CASE Reserve(p)
      <3>1. /\ pc[p] = "dedup" /\ pc' = [pc EXCEPT ![p] = "cap"] /\ UNCHANGED totalLen
            /\ count' = count \/ count' = [count EXCEPT ![p] = @ + 1]
        BY <2>1 DEF Reserve, Goto
      <3>2. /\ pc'[p] = "cap" /\ count'[p] \in {count[p], count[p] + 1} /\ count[p] \in Nat
            /\ totalLen \in Int
            /\ \A q \in Procs : q # p => pc'[q] = pc[q] /\ count'[q] = count[q]
        BY <3>1 DEF IInv, TypeOK
      <3>3. /\ Intent'[p] = count'[p] /\ Intent[p] = count[p] + 1
            /\ \A q \in Procs : q # p => Intent'[q] = Intent[q]
        BY <3>1, <3>2 DEF Intent, Adding, Pushing
      <3>4. QED
        BY <3>1, <3>2, <3>3, RoomStepOf
    <2>2. CASE AddLen(p) \/ SubLen(p)
      <3>1. /\ count' = [count EXCEPT ![p] = 0] /\ pc' = [pc EXCEPT ![p] = "idle"]
            /\ \/ pc[p] = "flush" /\ totalLen' = totalLen + count[p]
               \/ pc[p] = "erase" /\ totalLen' = totalLen - count[p]
        BY <2>2 DEF AddLen, SubLen, Goto
      <3>2. /\ pc'[p] = "idle" /\ count'[p] = 0 /\ count[p] \in Nat /\ totalLen \in Int
            /\ \A q \in Procs : q # p => pc'[q] = pc[q] /\ count'[q] = count[q]
        BY <3>1 DEF IInv, TypeOK
      <3>3. /\ Intent'[p] = 0 /\ Intent[p] = IF pc[p] = "flush" THEN count[p] ELSE 0
            /\ \A q \in Procs : q # p => Intent'[q] = Intent[q]
        BY <3>1, <3>2 DEF Intent, Adding, Pushing
      <3>4. totalLen' + Intent'[p] <= totalLen + Intent[p]
        BY <3>1, <3>2, <3>3
      <3>5. QED
        BY <3>3, <3>4, RoomStepOf
    <2>3. CASE ScanShard(p)
      <3>1. pc[p] = "scan" /\ UNCHANGED <<pc, totalLen>> /\ \A q \in Procs : q # p => count'[q] = count[q]
        BY <2>3 DEF ScanShard, IInv, TypeOK
      <3>2. /\ Intent'[p] = 0 /\ Intent[p] = 0
            /\ \A q \in Procs : q # p => Intent'[q] = Intent[q]
        BY <3>1 DEF Intent, Adding, Pushing
      <3>3. totalLen \in Int
        BY DEF IInv, TypeOK
      <3>4. QED
        BY <3>1, <3>2, <3>3, RoomStepOf
    <2>4. CASE Flush(p) \/ EndScan(p) \/ CheckWait(p) \/ Retry(p) \/ CloseWake(p) \/ Erase(p)
      <3>1. UNCHANGED <<Adding, totalLen>>
        <4>1. UNCHANGED Adding
          BY <2>4, QuietStep
        <4>2. UNCHANGED totalLen
          BY <2>4 DEF Flush, EndScan, CheckWait, Retry, CloseWake, Erase, StartScan
        <4>3. QED
          BY <4>1, <4>2
      <3>2. \A q \in Procs : pc'[q] = "dedup" <=> pc[q] = "dedup"
        <4>0. pc \in [Procs -> PCs]
          BY DEF IInv, TypeOK
        <4>1. CASE Flush(p)
          <5>1. \A woken \in Woken(p) : woken \subseteq Parked
            BY DEF Woken
          <5>2. \/ UNCHANGED pc
                \/ \E woken \in SUBSET Parked :
                      pc' = [q \in Procs |-> IF q = p THEN "flush"
                                             ELSE IF q \in woken THEN "check" ELSE pc[q]]
            BY <4>1, <5>1 DEF Flush, WakeAnd
          <5>3. pc[p] = "flush"
            BY <4>1 DEF Flush
          <5>4. QED
            BY <5>2, <5>3 DEF Parked
        <4>2. CASE CloseWake(p)
          BY <4>0, <4>2 DEF CloseWake, WakeAnd, Parked
        <4>3. CASE EndScan(p) \/ CheckWait(p) \/ Retry(p) \/ Erase(p)
          BY <4>0, <4>3 DEF EndScan, CheckWait, Retry, Erase, StartScan, Goto
        <4>4. QED
          BY <2>4, <4>1, <4>2, <4>3
      <3>3. UNCHANGED Intent
        BY <3>1, <3>2 DEF Intent
      <3>4. QED
        BY <3>1, <3>3 DEF Room, Slack
    <2>5. QED
      BY <1>1, <2>1, <2>2, <2>3, <2>4 DEF Step
  <1>2. ASSUME NEW p \in Procs, Call(p) PROVE Room'
    <2>1. UNCHANGED <<Adding, totalLen>>
      BY <1>2, QuietStep DEF Call, Push, PushBatch, Begin, PopBatch, PopWait, StartScan, Close
    <2>2. \A q \in Procs : pc'[q] = "dedup" <=> pc[q] = "dedup"
      BY <1>2 DEF Call, Push, PushBatch, Begin, PopBatch, PopWait, StartScan, Close, Goto, IInv, TypeOK
    <2>3. UNCHANGED Intent
      BY <2>1, <2>2 DEF Intent
    <2>4. QED
      BY <2>1, <2>3 DEF Room, Slack
  <1>3. CASE Clear
    <2>1. /\ totalLen' = 0 /\ UNCHANGED <<pc, count>> /\ \A p \in Procs : pc[p] \in {"idle", "parked"}
      BY <1>3 DEF Clear
    <2>2. \A p \in Procs : Intent'[p] = 0
      BY <2>1 DEF Intent, Adding, Pushing
    <2>3. Total(Procs, Intent') = 0
      BY <2>2, TotalZero
    <2>4. QED
      BY <2>1, <2>3, SlackType, FastQueueConstants DEF Room, Slack
  <1>4. CASE UNCHANGED vars
    BY <1>4 DEF vars, Room, Slack, Intent, Adding
  <1>5. QED
    BY <1>1, <1>2, <1>3, <1>4, AdmitRoom DEF Next, Step

-------------------------------------------------------------------------------
\* Nobody parks once the queue is closed, and whoever closes it wakes the rest.
LEMMA ReleaseStep == TypeOK /\ CloseReleasesWaiters /\ [Next]_vars => CloseReleasesWaiters'
  <1> SUFFICES ASSUME TypeOK, CloseReleasesWaiters, [Next]_vars PROVE CloseReleasesWaiters'
    OBVIOUS
  <1> USE DEF CloseReleasesWaiters, Parked, Goto
  <1>0. pc \in [Procs -> PCs]
    BY DEF TypeOK
  <1>1. ASSUME NEW p \in Procs, NEW label, pc' = [pc EXCEPT ![p] = label],
               UNCHANGED closed, pc[p] # "wake", label # "parked"
        PROVE  CloseReleasesWaiters'
    BY <1>0, <1>1
  <1>2. ASSUME NEW p \in Procs, CheckWait(p) PROVE CloseReleasesWaiters'
    BY <1>0, <1>2 DEF CheckWait
  <1>3. ASSUME NEW p \in Procs, Flush(p) PROVE CloseReleasesWaiters'
    <2>1. \A woken \in Woken(p) : woken \subseteq Parked
      BY DEF Woken
    <2>2. \/ UNCHANGED pc
          \/ \E woken \in SUBSET Parked :
                pc' = [q \in Procs |-> IF q = p THEN "flush"
                                       ELSE IF q \in woken THEN "check" ELSE pc[q]]
      BY <1>3, <2>1 DEF Flush, WakeAnd
    <2>3. pc[p] = "flush" /\ UNCHANGED closed
      BY <1>3 DEF Flush
    <2>4. QED
      BY <1>0, <2>2, <2>3
  <1>4. ASSUME NEW p \in Procs, CloseWake(p) PROVE CloseReleasesWaiters'
    BY <1>0, <1>4 DEF CloseWake, WakeAnd
  <1>5. ASSUME NEW p \in Procs, Close(p) PROVE CloseReleasesWaiters'
    BY <1>0, <1>5 DEF Close
  <1>6. CASE UNCHANGED <<pc, closed>>
    BY <1>6
  <1>7. ASSUME NEW p \in Procs, NEW method, NEW n, StartScan(p, method, n), pc[p] # "wake"
        PROVE  CloseReleasesWaiters'
    BY <1>1, <1>7 DEF StartScan
  <1>8. ASSUME NEW p \in Procs, NEW method, NEW us, Begin(p, method, us) PROVE CloseReleasesWaiters'
    BY <1>1, <1>8 DEF Begin
  <1>9. ASSUME NEW p \in Procs, PopWait(p) PROVE CloseReleasesWaiters'
    BY <1>1, <1>7, <1>9 DEF PopWait
  <1>10. ASSUME NEW p \in Procs, Retry(p) PROVE CloseReleasesWaiters'
    BY <1>1, <1>7, <1>10 DEF Retry
  <1>11. ASSUME NEW p \in Procs, CheckCapacity(p) \/ Reserve(p) \/ AddLen(p) \/ EndScan(p) \/ SubLen(p)
         PROVE  CloseReleasesWaiters'
    <2>1. PICK label : pc' = [pc EXCEPT ![p] = label] /\ label # "parked"
      BY <1>11 DEF CheckCapacity, Reserve, AddLen, EndScan, SubLen
    <2>2. UNCHANGED closed /\ pc[p] # "wake"
      BY <1>11 DEF CheckCapacity, Reserve, AddLen, EndScan, SubLen
    <2>3. QED
      BY <1>1, <2>1, <2>2
  <1>12. ASSUME NEW p \in Procs, ScanShard(p) \/ Erase(p) PROVE CloseReleasesWaiters'
    BY <1>6, <1>12 DEF ScanShard, Erase
  <1>13. ASSUME NEW p \in Procs, Call(p) PROVE CloseReleasesWaiters'
    BY <1>5, <1>7, <1>8, <1>9, <1>13 DEF Call, Push, PushBatch, PopBatch
  <1>14. QED
    BY <1>2, <1>3, <1>4, <1>6, <1>10, <1>11, <1>12, <1>13 DEF Next, Step, Clear, vars

-------------------------------------------------------------------------------
\* The inductive invariant of all this.
Lengths == Counts /\ LenEquation /\ Room

LEMMA InitLengths == Init => Lengths
  <1> SUFFICES ASSUME Init PROVE Lengths
    OBVIOUS
  <1>1. /\ totalLen = 0
        /\ \A p \in Procs : pc[p] = "idle" /\ count[p] = 0 /\ staged[p] = {}
    BY DEF Init
  <1>2. \A p \in Procs : Adding[p] = 0 /\ Taking[p] = 0 /\ Intent[p] = 0
    BY <1>1 DEF Adding, Taking, Intent
  <1>3. Total(Procs, Adding) = 0 /\ Total(Procs, Taking) = 0 /\ Total(Procs, Intent) = 0
    BY <1>2, TotalZero
  <1>4. Cardinality(InQueue) = 0
    <2>1. InQueue = {}
      BY <1>1 DEF Init, InQueue, Staged
    <2>2. QED
      BY <2>1, FS_EmptySet
  <1>5. LenEquation
    BY <1>1, <1>3, <1>4 DEF LenEquation
  <1>6. Room
    BY <1>1, <1>3, SlackType, FastQueueConstants DEF Room
  <1>7. Counts
    BY <1>1 DEF Counts, Pushing
  <1>8. QED
    BY <1>5, <1>6, <1>7 DEF Lengths

LEMMA LengthsInvariance == Spec => []Lengths
  <1>1. IInv /\ IInv' /\ Lengths /\ [Next]_vars => Lengths'
    BY CountsStep, LenStep, RoomStep DEF Lengths
  <1>2. QED
    BY InitLengths, <1>1, Invariance, PTL DEF Spec

\* Len() differs from the number of queued items by no more than the calls in
\* flight have yet to settle, and the queue overshoots its capacity by no more
\* than a batch of every pusher but one, whatever their interleaving.
THEOREM LenIsRightAlways == Spec => []LenIsRight
  <1>1. IInv /\ Lengths => LenIsRight
    <2> SUFFICES ASSUME IInv, Lengths PROVE LenIsRight
      OBVIOUS
    <2>1. Total(Procs, Intent) \in Nat
      BY Terms, TotalType, FastQueueConstants DEF IInv
    <2>2. totalLen \in Int
      BY DEF IInv, TypeOK
    <2>3. Capacity > 0 => totalLen <= Capacity + Slack
      BY <2>1, <2>2, SlackType, FastQueueConstants DEF Lengths, Room
    <2>4. QED
      BY <2>3 DEF LenIsRight, Lengths, LenEquation, Slack
  <1>2. QED
    BY <1>1, Invariance, LengthsInvariance, PTL

\* After Close nobody is left waiting, however a PopWait interleaves with it.
THEOREM CloseReleasesWaitersAlways == Spec => []CloseReleasesWaiters
  <1>1. Init => CloseReleasesWaiters
    BY DEF Init, CloseReleasesWaiters
  <1>2. QED
    BY <1>1, ReleaseStep, TypeCorrect, PTL DEF Spec

-------------------------------------------------------------------------------
(* PersistentQueue.                                                          *)

DiskFinite == IsFiniteSet(disk) /\ IsFiniteSet(owed)

\* What the call in progress holds, and where.
HandOK ==
    /\ IF stage \in {"pushed", "remove", "mark", "return"} THEN \E u \in Keys : hand = {u}
                                                        ELSE hand = {}
    /\ stage = "pushed" => hand \subseteq disk
    /\ stage = "remove" => hand \cap memory = {}
    /\ stage = "clear" => memory = {}

Lost == owed \ (disk \cup hand)

PersistentIInv == PersistentTypeOK /\ DiskFinite /\ HandOK /\ BufferIsOnDisk /\ BoundedLoss

-------------------------------------------------------------------------------
LEMMA PersistentInitIInv == PersistentInit => PersistentIInv
  <1> SUFFICES ASSUME PersistentInit PROVE PersistentIInv
    OBVIOUS
  <1>1. IsFiniteSet({}) /\ Cardinality({}) = 0
    BY FS_EmptySet
  <1>2. owed \ (disk \cup hand) = {}
    BY DEF PersistentInit
  <1>3. QED
    BY <1>1, <1>2, PersistentQueueConstants
    DEF PersistentInit, PersistentIInv, PersistentTypeOK, Labels, DiskFinite, HandOK, BufferIsOnDisk, BoundedLoss

\* A scan reads part of the bucket, at most MaxMem items of it.
LEMMA LoadsType ==
    ASSUME NEW bucket, IsFiniteSet(bucket), NEW us \in Loads(bucket)
    PROVE  us \subseteq bucket /\ Cardinality(us) <= MaxMem
  <1>1. us \subseteq bucket
    BY DEF Loads
  <1>2. Cardinality(us) \in Nat
    BY <1>1, FS_Subset, FS_CardinalityType
  <1>3. Cardinality(us) = MaxMem \/ Cardinality(us) < MaxMem
    BY DEF Loads
  <1>4. QED
    BY <1>1, <1>2, <1>3, PersistentQueueConstants

LEMMA HandSize ==
    ASSUME HandOK
    PROVE  IsFiniteSet(hand) /\ Cardinality(hand) \in {0, 1}
  <1>1. hand = {} \/ \E u \in Keys : hand = {u}
    BY DEF HandOK
  <1>2. QED
    BY <1>1, FS_EmptySet, FS_Singleton

\* Fewer are lost if what was lost afterwards was lost before.
LEMMA LossShrinks ==
    ASSUME PersistentIInv, Lost' \subseteq Lost, crashes' = crashes
    PROVE  BoundedLoss'
  <1>1. IsFiniteSet(Lost)
    BY FS_Subset DEF PersistentIInv, DiskFinite, Lost
  <1>2. Cardinality(Lost') <= Cardinality(Lost) /\ Cardinality(Lost) \in Nat
        /\ Cardinality(Lost') \in Nat
    BY <1>1, FS_Subset, FS_CardinalityType
  <1>3. QED
    BY <1>2 DEF PersistentIInv, PersistentTypeOK, BoundedLoss, Lost

-------------------------------------------------------------------------------
LEMMA PushStep ==
    ASSUME PersistentIInv, NEW u \in Keys, PushToDisk(u)
    PROVE  PersistentIInv'
  <1> USE DEF PersistentIInv
  <1>1. stage = "idle" /\ hand = {} /\ UNCHANGED <<visited, memory, delivered, again, crashes>>
    BY DEF PushToDisk, Commit, faults, HandOK
  <1>2. \/ /\ disk' = disk \cup {u} /\ owed' = owed \cup {u} /\ hand' = {u} /\ stage' = "pushed"
           /\ failed' = failed
        \/ UNCHANGED <<disk, owed, hand, stage>> /\ failed' = failed + 1
    BY DEF PushToDisk, Commit, faults
  <1>3. Cardinality({u}) = 1 /\ IsFiniteSet(disk \cup {u}) /\ IsFiniteSet(owed \cup {u})
    BY FS_Singleton, FS_AddElement DEF DiskFinite
  <1>4. PersistentTypeOK' /\ DiskFinite' /\ HandOK' /\ BufferIsOnDisk'
    BY <1>1, <1>2, <1>3 DEF PersistentTypeOK, Labels, DiskFinite, HandOK, BufferIsOnDisk
  <1>5. Lost' \subseteq Lost
    BY <1>1, <1>2 DEF Lost
  <1>6. QED
    BY <1>1, <1>4, <1>5, LossShrinks

LEMMA PushToMemoryStep ==
    ASSUME PersistentIInv, PushToMemory
    PROVE  PersistentIInv'
  <1> USE DEF PersistentIInv
  <1>1. /\ stage = "pushed" /\ hand' = {} /\ stage' = "idle" /\ UNCHANGED <<durable, ghosts, faults>>
        /\ memory' = IF Cardinality(memory) < MaxMem THEN memory \cup hand ELSE memory
    BY DEF PushToMemory
  <1>2. PICK u \in Keys : hand = {u} /\ u \in disk
    BY <1>1 DEF HandOK
  <1>3. IsFiniteSet(memory) /\ Cardinality(memory) \in Nat
    BY FS_Subset, FS_CardinalityType DEF DiskFinite, BufferIsOnDisk
  <1>4. Cardinality(memory \cup {u}) \in {Cardinality(memory), Cardinality(memory) + 1}
    BY <1>3, FS_AddElement
  <1>5. Cardinality(memory) < MaxMem => Cardinality(memory \cup {u}) <= MaxMem
    BY <1>3, <1>4, PersistentQueueConstants
  <1>6. memory' \subseteq Keys /\ Cardinality(memory') <= MaxMem /\ memory' \subseteq disk
    BY <1>1, <1>2, <1>5 DEF PersistentTypeOK, BufferIsOnDisk
  <1>7. Cardinality({}) = 0
    BY FS_EmptySet
  <1>8. PersistentTypeOK' /\ DiskFinite' /\ HandOK' /\ BufferIsOnDisk'
    BY <1>1, <1>6, <1>7
    DEF durable, ghosts, faults, PersistentTypeOK, Labels, DiskFinite, HandOK, BufferIsOnDisk
  <1>9. Lost' \subseteq Lost /\ crashes' = crashes
    BY <1>1, <1>2 DEF Lost, durable, ghosts, faults
  <1>10. QED
    BY <1>8, <1>9, LossShrinks

LEMMA PopStep ==
    ASSUME PersistentIInv, Pop
    PROVE  PersistentIInv'
  <1> USE DEF PersistentIInv
  <1>1. PICK u \in memory : memory' = memory \ {u} /\ hand' = {u}
    BY DEF Pop
  <1>2. /\ stage \in {"idle", "refilled"} /\ stage' = "remove" /\ hand = {}
        /\ UNCHANGED <<durable, ghosts, faults>>
    BY DEF Pop, HandOK
  <1>3. IsFiniteSet(memory) /\ Cardinality(memory) \in Nat
    BY FS_Subset, FS_CardinalityType DEF DiskFinite, BufferIsOnDisk
  <1>4. Cardinality(memory') <= MaxMem /\ Cardinality(hand') = 1
    <2>1. Cardinality(memory \ {u}) = Cardinality(memory) - 1
      BY <1>3, FS_RemoveElement
    <2>2. Cardinality(hand') = 1
      BY <1>1, FS_Singleton
    <2>3. Cardinality(memory) <= MaxMem
      BY DEF PersistentTypeOK
    <2>4. QED
      BY <1>1, <1>3, <2>1, <2>2, <2>3, PersistentQueueConstants
  <1>5. PersistentTypeOK' /\ DiskFinite' /\ HandOK' /\ BufferIsOnDisk'
    BY <1>1, <1>2, <1>4
    DEF durable, ghosts, faults, PersistentTypeOK, Labels, DiskFinite, HandOK, BufferIsOnDisk
  <1>6. Lost' \subseteq Lost /\ crashes' = crashes
    BY <1>2 DEF Lost, durable, ghosts, faults
  <1>7. QED
    BY <1>5, <1>6, LossShrinks

\* The buffer is filled from disk, and emptied.
LEMMA BufferStep ==
    ASSUME PersistentIInv, Refill \/ Restart \/ ClearMemory \/ CloseDisk
    PROVE  PersistentIInv'
  <1> USE DEF PersistentIInv
  <1>1. /\ hand = {} /\ stage' \in {"refilled", "idle", "clear", "down"}
        /\ UNCHANGED <<durable, hand, ghosts, faults>>
    BY DEF Refill, Restart, ClearMemory, CloseDisk, HandOK
  <1>2. memory' \subseteq disk /\ Cardinality(memory') <= MaxMem /\ (stage' = "clear" => memory' = {})
    <2>1. CASE Refill \/ Restart
      BY <2>1, LoadsType DEF Refill, Restart, DiskFinite
    <2>2. CASE ClearMemory \/ CloseDisk
      BY <2>2, FS_EmptySet, PersistentQueueConstants DEF ClearMemory, CloseDisk
    <2>3. QED
      BY <2>1, <2>2
  <1>3. PersistentTypeOK' /\ DiskFinite' /\ HandOK' /\ BufferIsOnDisk'
    BY <1>1, <1>2 DEF durable, ghosts, faults, PersistentTypeOK, Labels, DiskFinite, HandOK, BufferIsOnDisk
  <1>4. Lost' \subseteq Lost /\ crashes' = crashes
    BY <1>1 DEF Lost, durable, ghosts, faults
  <1>5. QED
    BY <1>3, <1>4, LossShrinks

\* The transactions of Pop and Clear, and Pop's return.
LEMMA TransactionStep ==
    ASSUME PersistentIInv, RemoveFromDisk \/ MarkVisited \/ ReturnItem \/ ClearDisk
    PROVE  PersistentIInv'
  <1> USE DEF PersistentIInv
  <1>0. /\ Cardinality({}) = 0 /\ IsFiniteSet({})
        /\ IsFiniteSet(disk \ hand) /\ IsFiniteSet(owed \ hand)
    BY FS_EmptySet, FS_Subset DEF DiskFinite
  <1>1. CASE RemoveFromDisk
    <2>1. /\ stage = "remove" /\ stage' = "mark" /\ disk' \in {disk, disk \ hand}
          /\ UNCHANGED <<visited, memory, hand, ghosts, crashes>> /\ failed' \in {failed, failed + 1}
      BY <1>1 DEF RemoveFromDisk, Commit, faults
    <2>2. BufferIsOnDisk'
      BY <2>1 DEF HandOK, BufferIsOnDisk
    <2>3. PersistentTypeOK'
      BY <2>1 DEF ghosts, PersistentTypeOK, Labels
    <2>4. DiskFinite' /\ HandOK'
      BY <1>0, <2>1 DEF ghosts, DiskFinite, HandOK
    <2>5. Lost' \subseteq Lost
      BY <2>1 DEF Lost, ghosts
    <2>6. QED
      BY <2>1, <2>2, <2>3, <2>4, <2>5, LossShrinks
  <1>2. CASE MarkVisited
    <2>1. /\ stage = "mark" /\ stage' = "return" /\ visited' \in {visited, visited \cup hand}
          /\ UNCHANGED <<disk, memory, hand, ghosts, crashes>> /\ failed' \in {failed, failed + 1}
      BY <1>2 DEF MarkVisited, Commit, faults
    <2>2. PersistentTypeOK' /\ DiskFinite' /\ HandOK' /\ BufferIsOnDisk'
      BY <1>0, <2>1 DEF ghosts, PersistentTypeOK, Labels, DiskFinite, HandOK, BufferIsOnDisk
    <2>3. Lost' \subseteq Lost
      BY <2>1 DEF Lost, ghosts
    <2>4. QED
      BY <2>1, <2>2, <2>3, LossShrinks
  <1>3. CASE ReturnItem
    <2>1. /\ stage = "return" /\ stage' = "idle" /\ hand' = {} /\ delivered' = delivered \cup hand
          /\ owed' = owed \ hand /\ again' = again + Cardinality(hand \cap delivered)
          /\ UNCHANGED <<durable, memory, faults>>
      BY <1>3 DEF ReturnItem
    <2>2. Cardinality(hand \cap delivered) \in Nat
      BY HandSize, FS_Subset, FS_CardinalityType
    <2>3. again' \in Nat
      BY <2>1, <2>2 DEF PersistentTypeOK
    <2>4. PersistentTypeOK' /\ DiskFinite' /\ HandOK' /\ BufferIsOnDisk'
      BY <1>0, <2>1, <2>3 DEF durable, faults, PersistentTypeOK, Labels, DiskFinite, HandOK, BufferIsOnDisk
    <2>5. Lost' \subseteq Lost /\ crashes' = crashes
      BY <2>1 DEF Lost, durable, faults
    <2>6. QED
      BY <2>4, <2>5, LossShrinks
  <1>4. CASE ClearDisk
    <2>1. /\ stage = "clear" /\ stage' = "idle" /\ UNCHANGED <<visited, memory, hand, delivered, again, crashes>>
          /\ (disk' = {} /\ owed' = {}) \/ UNCHANGED <<disk, owed>>
          /\ failed' \in {failed, failed + 1}
      BY <1>4 DEF ClearDisk, Commit, faults
    <2>2. DiskFinite' /\ HandOK' /\ BufferIsOnDisk'
      BY <1>0, <2>1 DEF DiskFinite, HandOK, BufferIsOnDisk
    <2>3. /\ disk' \subseteq Keys /\ owed' \subseteq Keys
          /\ crashes' \in Nat /\ failed' \in Nat
      BY <2>1 DEF PersistentTypeOK
    <2>4. PersistentTypeOK'
      BY <2>1, <2>3 DEF PersistentTypeOK, Labels
    <2>5. Lost' \subseteq Lost
      BY <2>1 DEF Lost
    <2>6. QED
      BY <2>1, <2>2, <2>4, <2>5, LossShrinks
  <1>5. QED
    BY <1>1, <1>2, <1>3, <1>4

\* A crash loses at most the item in hand.
LEMMA CrashStep ==
    ASSUME PersistentIInv, Crash
    PROVE  PersistentIInv'
  <1> USE DEF PersistentIInv
  <1>1. /\ crashes' = crashes + 1 /\ memory' = {} /\ hand' = {} /\ stage' = "down"
        /\ UNCHANGED <<durable, ghosts, failed>>
    BY DEF Crash
  <1>2. Cardinality({}) = 0
    BY FS_EmptySet
  <1>3. PersistentTypeOK' /\ DiskFinite' /\ HandOK' /\ BufferIsOnDisk'
    BY <1>1, <1>2, PersistentQueueConstants
    DEF durable, ghosts, PersistentTypeOK, Labels, DiskFinite, HandOK, BufferIsOnDisk
  <1>4. IsFiniteSet(Lost) /\ Cardinality(Lost) \in Nat
    BY FS_Subset, FS_CardinalityType DEF DiskFinite, Lost
  <1>5. Cardinality(Lost') <= Cardinality(Lost) + 1 /\ Cardinality(Lost') \in Nat
    <2>1. PICK u : Lost' \subseteq Lost \cup {u}
      <3>1. Lost' \subseteq Lost \cup hand
        BY <1>1 DEF Lost, durable, ghosts
      <3>2. hand = {} \/ \E u \in Keys : hand = {u}
        BY DEF HandOK
      <3>3. QED
        BY <3>1, <3>2
    <2>2. /\ IsFiniteSet(Lost \cup {u}) /\ Cardinality(Lost \cup {u}) <= Cardinality(Lost) + 1
          /\ Cardinality(Lost \cup {u}) \in Nat
      BY <1>4, FS_AddElement, FS_CardinalityType
    <2>3. /\ IsFiniteSet(Lost') /\ Cardinality(Lost') <= Cardinality(Lost \cup {u})
          /\ Cardinality(Lost') \in Nat
      BY <2>1, <2>2, FS_Subset, FS_CardinalityType
    <2>4. QED
      BY <1>4, <2>2, <2>3
  <1>6. BoundedLoss'
    <2>1. Cardinality(Lost) <= crashes /\ crashes \in Nat
      BY DEF BoundedLoss, Lost, PersistentTypeOK
    <2>2. Cardinality(Lost') <= crashes'
      BY <1>1, <1>4, <1>5, <2>1
    <2>3. QED
      BY <2>2 DEF BoundedLoss, Lost
  <1>7. QED
    BY <1>3, <1>6

LEMMA PersistentIInvStep == PersistentIInv /\ [PersistentNext]_persistentVars => PersistentIInv'
  <1> SUFFICES ASSUME PersistentIInv, [PersistentNext]_persistentVars PROVE PersistentIInv'
    OBVIOUS
  <1>1. CASE UNCHANGED persistentVars
    BY <1>1 DEF persistentVars, durable, ghosts, faults, PersistentIInv, PersistentTypeOK, DiskFinite, HandOK, BufferIsOnDisk,
                BoundedLoss
  <1>2. QED
    BY <1>1, PushStep, PushToMemoryStep, PopStep, BufferStep, TransactionStep, CrashStep
    DEF PersistentNext, Consume, Proceed

LEMMA PersistentInvariance == PersistentSpec => []PersistentIInv
  BY PersistentInitIInv, PersistentIInvStep, PTL DEF PersistentSpec

\* Types, and the buffer's bound, for any URLs and MaxMem.
THEOREM PersistentTypeCorrect == PersistentSpec => []PersistentTypeOK
  <1>1. PersistentIInv => PersistentTypeOK
    BY DEF PersistentIInv
  <1>2. QED
    BY <1>1, PersistentInvariance, PTL

\* Whatever fails, what is buffered is on disk.
THEOREM BufferIsOnDiskAlways == PersistentSpec => []BufferIsOnDisk
  <1>1. PersistentIInv => BufferIsOnDisk
    BY DEF PersistentIInv
  <1>2. QED
    BY <1>1, PersistentInvariance, PTL

\* Each crash loses one item at most, however many transactions fail.
THEOREM BoundedLossAlways == PersistentSpec => []BoundedLoss
  <1>1. PersistentIInv => BoundedLoss
    BY DEF PersistentIInv
  <1>2. QED
    BY <1>1, PersistentInvariance, PTL

-------------------------------------------------------------------------------
(* What is returned twice.                                                   *)

\* Returned URLs that a Pop may come across again: still on disk, or not marked
\* and so accepted by the next Push.  A call takes over the risk of its item.
Suspect == {u \in delivered : u \in disk \/ u \notin visited}
AtRisk  == (Suspect \ hand) \cup (hand \cap delivered)

\* The item in hand, if the call's removal or mark has failed.
Failing == {u \in hand : \/ stage \in {"mark", "return"} /\ u \in disk
                         \/ stage = "return" /\ u \notin visited}

\* Each failure is behind one URL at risk, or one returned again.
Accounted ==
    /\ IsFiniteSet(delivered)
    /\ again + Cardinality(AtRisk) + Cardinality(Failing) <= failed

LEMMA RiskFinite ==
    ASSUME PersistentIInv, IsFiniteSet(delivered)
    PROVE  /\ IsFiniteSet(AtRisk) /\ Cardinality(AtRisk) \in Nat
           /\ IsFiniteSet(Failing) /\ Cardinality(Failing) \in Nat
  <1>1. AtRisk \subseteq delivered
    BY DEF AtRisk, Suspect
  <1>2. IsFiniteSet(hand) /\ Failing \subseteq hand
    BY HandSize DEF PersistentIInv, Failing
  <1>3. QED
    BY <1>1, <1>2, FS_Subset, FS_CardinalityType

\* A step that puts nothing at risk is accounted for.
LEMMA NoNewRisk ==
    ASSUME PersistentIInv, Accounted, AtRisk' \subseteq AtRisk, Failing' \subseteq Failing,
           delivered' = delivered, again' = again, failed' \in {failed, failed + 1}
    PROVE  Accounted'
  <1>1. /\ IsFiniteSet(AtRisk) /\ Cardinality(AtRisk) \in Nat
        /\ IsFiniteSet(Failing) /\ Cardinality(Failing) \in Nat
    BY RiskFinite DEF Accounted
  <1>2. /\ Cardinality(AtRisk') <= Cardinality(AtRisk) /\ Cardinality(AtRisk') \in Nat
        /\ Cardinality(Failing') <= Cardinality(Failing) /\ Cardinality(Failing') \in Nat
    BY <1>1, FS_Subset, FS_CardinalityType
  <1>3. again \in Nat /\ failed \in Nat
    BY DEF PersistentIInv, PersistentTypeOK
  <1>4. QED
    BY <1>1, <1>2, <1>3 DEF Accounted

\* A failed transaction pays for the item it fails.
LEMMA FailureStep ==
    ASSUME PersistentIInv, Accounted, RemoveFromDisk \/ MarkVisited
    PROVE  Accounted'
  <1>1. PICK u \in Keys : hand = {u}
    BY DEF PersistentIInv, HandOK, RemoveFromDisk, MarkVisited
  <1>2. /\ UNCHANGED <<memory, hand, ghosts>>
        /\ \/ stage = "remove" /\ stage' = "mark" /\ visited' = visited
              /\ \/ disk' = disk \ hand /\ failed' = failed
                 \/ disk' = disk /\ failed' = failed + 1
           \/ stage = "mark" /\ stage' = "return" /\ disk' = disk
              /\ \/ visited' = visited \cup hand /\ failed' = failed
                 \/ visited' = visited /\ failed' = failed + 1
    BY DEF RemoveFromDisk, MarkVisited, Commit, faults
  <1>3. AtRisk' \subseteq AtRisk
    BY <1>1, <1>2 DEF AtRisk, Suspect, ghosts
  <1>4. delivered' = delivered /\ again' = again
    BY <1>2 DEF ghosts
  <1>5. CASE failed' = failed
    <2>1. failed # failed + 1
      BY DEF PersistentIInv, PersistentTypeOK
    <2>2. Failing' \subseteq Failing
      BY <1>1, <1>2, <1>5, <2>1 DEF Failing
    <2>3. QED
      BY <1>3, <1>4, <1>5, <2>2, NoNewRisk
  <1>6. CASE failed' = failed + 1
    <2>1. Failing' \subseteq Failing \cup {u}
      BY <1>1, <1>2 DEF Failing
    <2>2. /\ IsFiniteSet(AtRisk) /\ Cardinality(AtRisk) \in Nat
          /\ IsFiniteSet(Failing) /\ Cardinality(Failing) \in Nat
      BY RiskFinite DEF Accounted
    <2>3. /\ IsFiniteSet(Failing \cup {u}) /\ Cardinality(Failing \cup {u}) <= Cardinality(Failing) + 1
          /\ Cardinality(Failing \cup {u}) \in Nat
      <3>1. /\ IsFiniteSet(Failing \cup {u})
            /\ Cardinality(Failing \cup {u})
                 = IF u \in Failing THEN Cardinality(Failing) ELSE Cardinality(Failing) + 1
        BY <2>2, FS_AddElement
      <3>2. QED
        BY <2>2, <3>1
    <2>4. Cardinality(Failing') <= Cardinality(Failing) + 1 /\ Cardinality(Failing') \in Nat
      <3>1. /\ IsFiniteSet(Failing') /\ Cardinality(Failing') <= Cardinality(Failing \cup {u})
            /\ Cardinality(Failing') \in Nat
        BY <2>1, <2>3, FS_Subset, FS_CardinalityType
      <3>2. QED
        BY <2>2, <2>3, <3>1
    <2>5. Cardinality(AtRisk') <= Cardinality(AtRisk) /\ Cardinality(AtRisk') \in Nat
      BY <1>3, <2>2, FS_Subset, FS_CardinalityType
    <2>6. again \in Nat /\ failed \in Nat
      BY DEF PersistentIInv, PersistentTypeOK
    <2>7. QED
      BY <1>4, <1>6, <2>2, <2>4, <2>5, <2>6 DEF Accounted
  <1>7. QED
    BY <1>2, <1>5, <1>6

\* Returning the item settles its risk and keeps that of a failure.
LEMMA ReturnStep ==
    ASSUME PersistentIInv, Accounted, ReturnItem
    PROVE  Accounted'
  <1>1. /\ stage = "return" /\ hand' = {} /\ delivered' = delivered \cup hand
        /\ again' = again + Cardinality(hand \cap delivered)
        /\ UNCHANGED <<durable, memory, faults>>
    BY DEF ReturnItem
  <1>2. PICK u \in Keys : hand = {u}
    BY <1>1 DEF PersistentIInv, HandOK
  <1> DEFINE rest == Suspect \ hand
             own  == hand \cap delivered
  <1>3. AtRisk' \subseteq rest \cup Failing
    BY <1>1 DEF AtRisk, Suspect, Failing, durable
  <1>4. Failing' = {}
    BY <1>1 DEF Failing
  <1>5. AtRisk = rest \cup own /\ rest \cap own = {} /\ rest \subseteq delivered /\ own \subseteq hand
    BY DEF AtRisk, Suspect
  <1> HIDE DEF rest, own
  <1>6. IsFiniteSet(hand) /\ IsFiniteSet(delivered) /\ IsFiniteSet(Failing)
    BY HandSize, RiskFinite DEF PersistentIInv, Accounted
  <1>7. /\ IsFiniteSet(rest) /\ Cardinality(rest) \in Nat
        /\ IsFiniteSet(own) /\ Cardinality(own) \in Nat /\ Cardinality(Failing) \in Nat
    BY <1>5, <1>6, FS_Subset, FS_CardinalityType
  <1>8. Cardinality(AtRisk) = Cardinality(rest) + Cardinality(own)
    <2>1. Cardinality(rest \cup own) = Cardinality(rest) + Cardinality(own) - Cardinality({})
      BY <1>5, <1>7, FS_Union
    <2>2. Cardinality({}) = 0
      BY FS_EmptySet
    <2>3. QED
      BY <1>5, <1>7, <2>1, <2>2
  <1>9. Cardinality(AtRisk') <= Cardinality(rest) + Cardinality(Failing) /\ Cardinality(AtRisk') \in Nat
    <2>1. /\ IsFiniteSet(rest \cup Failing)
          /\ Cardinality(rest \cup Failing)
               = Cardinality(rest) + Cardinality(Failing) - Cardinality(rest \cap Failing)
      BY <1>6, <1>7, FS_Union
    <2>2. Cardinality(rest \cap Failing) \in Nat /\ Cardinality(rest \cup Failing) \in Nat
      BY <1>7, <2>1, FS_Intersection, FS_CardinalityType
    <2>3. Cardinality(AtRisk') <= Cardinality(rest \cup Failing) /\ Cardinality(AtRisk') \in Nat
      BY <1>3, <2>1, FS_Subset, FS_CardinalityType
    <2>4. QED
      BY <1>7, <2>1, <2>2, <2>3
  <1>10. Cardinality(Failing') = 0
    BY <1>4, FS_EmptySet
  <1>11. again \in Nat /\ failed \in Nat /\ failed' = failed /\ again' = again + Cardinality(own)
    BY <1>1 DEF PersistentIInv, PersistentTypeOK, faults, own
  <1>12. again + Cardinality(AtRisk) + Cardinality(Failing) <= failed
    BY DEF Accounted
  <1>13. again' + Cardinality(AtRisk') + Cardinality(Failing') <= failed'
    BY <1>7, <1>8, <1>9, <1>10, <1>11, <1>12
  <1>14. IsFiniteSet(delivered')
    BY <1>1, <1>6, FS_Union
  <1>15. QED
    BY <1>13, <1>14 DEF Accounted

LEMMA AccountedStep == PersistentIInv /\ Accounted /\ [PersistentNext]_persistentVars => Accounted'
  <1> SUFFICES ASSUME PersistentIInv, Accounted, [PersistentNext]_persistentVars PROVE Accounted'
    OBVIOUS
  <1> USE DEF PersistentIInv, HandOK, durable, ghosts, faults
  <1>1. ASSUME NEW u \in Keys, PushToDisk(u) PROVE Accounted'
    <2>1. /\ u \notin visited /\ hand = {} /\ UNCHANGED <<visited, delivered, again>>
          /\ \/ disk' = disk \cup {u} /\ hand' = {u} /\ stage' = "pushed" /\ failed' = failed
             \/ UNCHANGED <<disk, hand, stage>> /\ failed' = failed + 1
      BY <1>1 DEF PushToDisk, Commit
    <2>2. AtRisk' \subseteq AtRisk
      BY <2>1 DEF AtRisk, Suspect
    <2>3. Failing' \subseteq Failing
      BY <2>1 DEF Failing
    <2>4. QED
      BY <2>1, <2>2, <2>3, NoNewRisk
  <1>2. CASE PushToMemory \/ Crash
    <2>1. hand' = {} /\ UNCHANGED <<durable, delivered, again, failed>>
      BY <1>2 DEF PushToMemory, Crash
    <2>2. AtRisk' \subseteq AtRisk /\ Failing' \subseteq Failing
      BY <2>1 DEF AtRisk, Suspect, Failing
    <2>3. QED
      BY <2>1, <2>2, NoNewRisk
  <1>3. CASE Pop
    <2>1. PICK u \in memory : hand' = {u}
      BY <1>3 DEF Pop
    <2>2. hand = {} /\ stage' = "remove" /\ UNCHANGED <<durable, delivered, again, failed>>
      BY <1>3 DEF Pop
    <2>3. AtRisk' \subseteq AtRisk
      BY <2>1, <2>2 DEF AtRisk, Suspect, BufferIsOnDisk
    <2>4. Failing' \subseteq Failing
      BY <2>2 DEF Failing
    <2>5. QED
      BY <2>2, <2>3, <2>4, NoNewRisk
  <1>4. CASE Refill \/ Restart \/ ClearMemory \/ CloseDisk \/ ClearDisk
    <2>1. /\ hand = {} /\ hand' = {} /\ disk' \subseteq disk
          /\ UNCHANGED <<visited, delivered, again>> /\ failed' \in {failed, failed + 1}
      BY <1>4 DEF Refill, Restart, ClearMemory, CloseDisk, ClearDisk, Commit
    <2>2. AtRisk' \subseteq AtRisk /\ Failing' \subseteq Failing
      BY <2>1 DEF AtRisk, Suspect, Failing
    <2>3. QED
      BY <2>1, <2>2, NoNewRisk
  <1>5. CASE UNCHANGED persistentVars
    BY <1>5 DEF persistentVars, Accounted, AtRisk, Suspect, Failing
  <1>6. QED
    BY <1>1, <1>2, <1>3, <1>4, <1>5, FailureStep, ReturnStep DEF PersistentNext, Consume, Proceed

LEMMA InitAccounted == PersistentInit => Accounted
  <1> SUFFICES ASSUME PersistentInit PROVE Accounted
    OBVIOUS
  <1>1. AtRisk = {} /\ Failing = {} /\ delivered = {} /\ again = 0 /\ failed = 0
    BY DEF PersistentInit, AtRisk, Suspect, Failing
  <1>2. QED
    BY <1>1, FS_EmptySet DEF Accounted

\* A URL is returned again at most once for each failed transaction, however
\* crashes, refills and repeated pushes interleave.
THEOREM RedeliveryNeedsFailureAlways == PersistentSpec => []RedeliveryNeedsFailure
  <1>1. PersistentIInv /\ Accounted => RedeliveryNeedsFailure
    <2> SUFFICES ASSUME PersistentIInv, Accounted PROVE RedeliveryNeedsFailure
      OBVIOUS
    <2>1. Cardinality(AtRisk) \in Nat /\ Cardinality(Failing) \in Nat
      BY RiskFinite DEF Accounted
    <2>2. again \in Nat /\ failed \in Nat
      BY DEF PersistentIInv, PersistentTypeOK
    <2>3. QED
      BY <2>1, <2>2 DEF Accounted, RedeliveryNeedsFailure
  <1>2. QED
    BY <1>1, InitAccounted, AccountedStep, PersistentInvariance, PTL DEF PersistentSpec
===============================================================================
