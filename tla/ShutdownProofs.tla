---------------------------- MODULE ShutdownProofs ----------------------------
(***************************************************************************)
(* Shutdown for every number of goroutines and callbacks: one shutdown,    *)
(* its order, and what the close of done means.                            *)
(***************************************************************************)
EXTENDS Shutdown, FiniteSetTheorems, TLAPS

\* Where a goroutine has got past the flag.
Busy == {"begin", "copy", "loop", "await", "now", "nowClose"}

\* The flag admits one goroutine, and done is still open while it works.
OneOwner ==
    /\ \A p, q \in Procs : pc[p] \in Busy /\ pc[q] \in Busy => p = q
    /\ \A p \in Procs : pc[p] \in Busy => flag /\ closes = 0
    /\ \A p \in Procs : pc[p] \in {"copy", "loop", "await", "nowClose"} => ctxDone
    /\ closes \in {0, 1} /\ (closes = 1 => flag /\ ctxDone)

Distinct(s) == \A i, j \in 1 .. Len(s) : s[i] = s[j] => i = j

\* What has been started is the end of the copy, in reverse.
InOrder ==
    /\ Distinct(callbacks) /\ Distinct(snapshot)
    /\ \A p \in Procs : pc[p] = "await" => left > 0 /\ Len(started) = Len(snapshot) - left + 1
    /\ (\A p \in Procs : pc[p] # "await") => Len(started) = Len(snapshot) - left
    /\ \A p \in Procs : pc[p] \in {"begin", "copy"} => started = <<>>
    /\ \A p \in Procs : pc[p] \in {"now", "nowClose"} => left = 0
    /\ ~flag => started = <<>> /\ left = 0
    /\ closes = 1 => left = 0
    /\ \A i \in 1 .. Len(started) : started[i] = snapshot[Len(snapshot) - i + 1]

\* Callbacks before the present one have returned or were timed out, and
\* nothing overlaps within the time limit.
Settled ==
    /\ \A i \in left + 1 .. Len(snapshot) : snapshot[i] \notin running \/ snapshot[i] \in timedOut
    /\ ~expired => timedOut = {}
    /\ ~expired => \/ running = {}
                   \/ \E p \in Procs : pc[p] = "await" /\ running \subseteq {snapshot[left]}

IInv == TypeOK /\ OneOwner /\ InOrder /\ Settled

\* Steps that move one goroutine to an entry of the handler or back.
Enters ==
    \/ \E p \in Procs : Call(p) \/ WaitGotSignal(p) \/ WaitGotCancel(p) \/ WaitGotShutdown(p)
    \/ Trigger \/ CancelParent

-------------------------------------------------------------------------------
LEMMA InitIInv == Init => IInv
  <1> SUFFICES ASSUME Init PROVE IInv
    OBVIOUS
  <1>1. <<>> \in Seq(Names) /\ Len(<<>>) = 0
    OBVIOUS
  <1>2. TypeOK
    <2>1. {flag, ctxDone, expired, signal, parentDone} \subseteq BOOLEAN
      BY DEF Init
    <2>2. QED
      BY <1>1, <2>1 DEF Init, TypeOK, Labels
  <1>3. OneOwner
    BY DEF Init, OneOwner, Busy
  <1>4. InOrder /\ Settled
    BY <1>1 DEF Init, InOrder, Settled, Distinct
  <1>5. QED
    BY <1>2, <1>3, <1>4 DEF IInv

-------------------------------------------------------------------------------
\* Entering the handler changes the flag and where goroutines are.
LEMMA EntersStep ==
    ASSUME IInv, Enters
    PROVE  IInv'
  <1> USE DEF IInv
  <1>1. CASE Trigger \/ CancelParent
    <2>1. UNCHANGED <<cleanup, callbacks, flag, ctxDone, closes, pc, expired, running>>
      BY <1>1 DEF Trigger, CancelParent
    <2>2. {flag, ctxDone, expired, signal, parentDone}' \subseteq BOOLEAN
      BY <1>1 DEF Trigger, CancelParent, TypeOK
    <2>3. QED
      BY <2>1, <2>2 DEF cleanup, TypeOK, OneOwner, InOrder, Settled, Distinct
  <1>2. ASSUME NEW p \in Procs,
               Call(p) \/ WaitGotSignal(p) \/ WaitGotCancel(p) \/ WaitGotShutdown(p)
        PROVE  IInv'
    <2>1. /\ UNCHANGED <<cleanup, callbacks, ctxDone, closes, expired, running>>
          /\ pc[p] \in {"idle", "waiting"}
      BY <1>2 DEF Call, CallShutdown, CallShutdownNow, WaitWithContext, WaitGotSignal,
                  WaitGotCancel, WaitGotShutdown
    <2>2. PICK label \in {"idle", "waiting", "begin", "now"} :
             /\ pc' = [pc EXCEPT ![p] = label]
             /\ flag => flag'
             /\ label \in {"begin", "now"} => ~flag /\ flag'
      BY <1>2 DEF Call, CallShutdown, CallShutdownNow, WaitWithContext, WaitGotSignal,
                  WaitGotCancel, WaitGotShutdown, Enter, Goto
    <2>3. \A q \in Procs : pc'[q] = IF q = p THEN label ELSE pc[q]
      BY <2>2 DEF TypeOK
    <2>4. TypeOK'
      <3>1. {flag, ctxDone, expired, signal, parentDone}' \subseteq BOOLEAN
        <4>1. {flag, signal, parentDone}' \subseteq {flag, signal, parentDone, TRUE, FALSE}
          BY <1>2 DEF Call, CallShutdown, CallShutdownNow, WaitWithContext,
             WaitGotSignal, WaitGotCancel, WaitGotShutdown, Enter, chans
        <4>2. {ctxDone, expired}' = {ctxDone, expired}
          BY <2>1
        <4>3. QED
          BY <4>1, <4>2 DEF TypeOK
      <3>2. pc' \in [Procs -> Labels]
        BY <2>2 DEF TypeOK, Labels
      <3>3. QED
        BY <2>1, <3>1, <3>2 DEF TypeOK, cleanup
    <2>5. OneOwner'
      <3>1. \A q \in Procs : pc'[q] \in Busy => pc[q] \in Busy \/ (q = p /\ label \in {"begin", "now"})
        BY <2>2, <2>3 DEF Busy
      <3>2. label \in {"begin", "now"} => \A q \in Procs : pc[q] \notin Busy
        BY <2>2 DEF OneOwner
      <3>3. \A q, r \in Procs : pc'[q] \in Busy /\ pc'[r] \in Busy => q = r
        BY <3>1, <3>2 DEF OneOwner
      <3>4. \A q \in Procs : pc'[q] \in Busy => flag' /\ closes' = 0
        <4>1. closes = 0 \/ flag
          BY DEF OneOwner
        <4>2. QED
          BY <2>1, <2>2, <3>1, <4>1 DEF OneOwner
      <3>5. \A q \in Procs : pc'[q] \in {"copy", "loop", "await", "nowClose"} => ctxDone'
        BY <2>1, <2>2, <2>3 DEF OneOwner
      <3>6. closes' \in {0, 1} /\ (closes' = 1 => flag' /\ ctxDone')
        BY <2>1, <2>2 DEF OneOwner
      <3>7. QED
        BY <3>3, <3>4, <3>5, <3>6 DEF OneOwner
    <2>6. \A q \in Procs : pc'[q] = "await" <=> pc[q] = "await"
      BY <2>1, <2>2, <2>3
    <2>7. InOrder'
      <3>1. UNCHANGED <<started, snapshot, left, callbacks, closes>>
        BY <2>1 DEF cleanup
      <3>2. \A q \in Procs : pc'[q] \in {"begin", "copy", "now", "nowClose"} =>
               pc'[q] = pc[q] \/ ~flag
        BY <2>2, <2>3
      <3>3. /\ \A q \in Procs : pc'[q] \in {"begin", "copy"} => started = <<>>
            /\ \A q \in Procs : pc'[q] \in {"now", "nowClose"} => left = 0
            /\ ~flag' => started = <<>> /\ left = 0
        BY <2>2, <3>2 DEF InOrder
      <3>4. QED
        BY <2>6, <3>1, <3>3 DEF InOrder, Distinct
    <2>8. Settled'
      BY <2>1, <2>6 DEF Settled, cleanup
    <2>9. QED
      BY <2>4, <2>5, <2>7, <2>8
  <1>3. QED
    BY <1>1, <1>2 DEF Enters

\* Registration appends a new name.
LEMMA RegisterStep ==
    ASSUME IInv, NEW n \in Names, Register(n)
    PROVE  IInv'
  <1> USE DEF IInv
  <1>1. /\ callbacks' = Append(callbacks, n) /\ n \notin ToSet(callbacks)
        /\ UNCHANGED <<chans, cleanup, flag, ctxDone, closes, pc, expired, running>>
        /\ callbacks \in Seq(Names)
    BY DEF Register, TypeOK
  <1>2. \A i \in 1 .. Len(callbacks) : callbacks[i] # n
    BY <1>1 DEF ToSet
  <1>3. Distinct(callbacks')
    <2>1. /\ Len(callbacks') = Len(callbacks) + 1 /\ Len(callbacks) \in Nat
          /\ callbacks'[Len(callbacks) + 1] = n
          /\ \A i \in 1 .. Len(callbacks) : callbacks'[i] = callbacks[i]
      BY <1>1
    <2>2. \A i \in 1 .. Len(callbacks') : i \in 1 .. Len(callbacks) \/ i = Len(callbacks) + 1
      BY <2>1
    <2>3. QED
      BY <1>2, <2>1, <2>2 DEF InOrder, Distinct
  <1>4. callbacks' \in Seq(Names)
    BY <1>1
  <1>5. QED
    <2>1. TypeOK' /\ OneOwner' /\ Settled'
      BY <1>1, <1>4 DEF cleanup, chans, TypeOK, OneOwner, Settled
    <2>2. InOrder'
      <3>1. UNCHANGED <<started, snapshot, left, flag, pc, closes>>
        BY <1>1 DEF cleanup
      <3>2. Distinct(snapshot')
        BY <3>1 DEF InOrder, Distinct
      <3>3. QED
        BY <1>3, <3>1, <3>2 DEF InOrder
    <2>3. QED
      BY <2>1, <2>2

\* The timer fires, or a callback's goroutine returns.
LEMMA OutsideStep ==
    ASSUME IInv, Expire \/ \E n \in Names : CallbackEnds(n)
    PROVE  IInv'
  <1> USE DEF IInv
  <1>1. /\ UNCHANGED <<chans, cleanup, callbacks, flag, ctxDone, closes, pc>>
        /\ expired' \in BOOLEAN /\ running' \subseteq running
        /\ ~expired' => ~expired
    <2>1. CASE Expire
      BY <2>1 DEF Expire
    <2>2. CASE \E n \in Names : CallbackEnds(n)
      BY <2>2 DEF CallbackEnds, TypeOK
    <2>3. QED
      BY <2>1, <2>2
  <1>2. TypeOK' /\ OneOwner' /\ InOrder'
    <2>1. {flag, ctxDone, expired, signal, parentDone}' \subseteq BOOLEAN
      BY <1>1 DEF TypeOK, chans
    <2>2. QED
      BY <1>1, <2>1 DEF cleanup, chans, TypeOK, OneOwner, InOrder, Distinct
  <1>3. Settled'
    BY <1>1 DEF cleanup, Settled
  <1>4. QED
    BY <1>2, <1>3

-------------------------------------------------------------------------------
\* The owner's steps: one that leaves the copy and the callbacks alone.
LEMMA CancelStep ==
    ASSUME IInv, NEW p \in Procs, CancelContext(p) \/ NowCancel(p)
    PROVE  IInv'
  <1> USE DEF IInv
  <1>1. PICK label \in {"copy", "nowClose"} :
           /\ pc' = [pc EXCEPT ![p] = label] /\ ctxDone' = TRUE
           /\ pc[p] = IF label = "copy" THEN "begin" ELSE "now"
    BY DEF CancelContext, NowCancel, Goto
  <1>2. UNCHANGED <<chans, cleanup, callbacks, closes, expired, running>> /\ flag /\ flag'
    BY <1>1 DEF CancelContext, NowCancel, OneOwner, Busy
  <1>3. \A q \in Procs : pc'[q] = IF q = p THEN label ELSE pc[q]
    BY <1>1 DEF TypeOK
  <1>4. TypeOK'
    <2>1. {flag, ctxDone, expired, signal, parentDone}' \subseteq BOOLEAN
      BY <1>1, <1>2 DEF TypeOK, chans, CancelContext, NowCancel
    <2>2. QED
      BY <1>1, <1>2, <2>1 DEF TypeOK, cleanup, Labels
  <1>5. OneOwner'
    BY <1>1, <1>2, <1>3 DEF OneOwner, Busy
  <1>6. \A q \in Procs : pc'[q] = "await" <=> pc[q] = "await"
    BY <1>1, <1>3
  <1>7. InOrder'
    BY <1>1, <1>2, <1>3, <1>6 DEF InOrder, cleanup, Distinct
  <1>8. Settled'
    BY <1>2, <1>6 DEF Settled, cleanup
  <1>9. QED
    BY <1>4, <1>5, <1>7, <1>8

\* The copy of the callbacks.
LEMMA CopyStep ==
    ASSUME IInv, NEW p \in Procs, CopyCallbacks(p)
    PROVE  IInv'
  <1> USE DEF IInv
  <1>1. /\ pc[p] = "copy" /\ pc' = [pc EXCEPT ![p] = "loop"]
        /\ snapshot' = callbacks /\ left' = Len(callbacks) /\ Len(callbacks) \in Nat
        /\ UNCHANGED <<chans, callbacks, started, timedOut, flag, ctxDone, closes, expired, running>>
    BY DEF CopyCallbacks, Goto, TypeOK
  <1>2. \A q \in Procs : pc'[q] = IF q = p THEN "loop" ELSE pc[q]
    BY <1>1 DEF TypeOK
  <1>3. started = <<>> /\ closes = 0 /\ flag /\ \A q \in Procs : pc[q] # "await"
    BY <1>1 DEF InOrder, OneOwner, Busy
  <1>4. TypeOK'
    BY <1>1 DEF TypeOK, chans, Labels
  <1>5. OneOwner'
    BY <1>1, <1>2 DEF OneOwner, Busy
  <1>6. InOrder'
    <2>1. Distinct(snapshot') /\ Distinct(callbacks')
      BY <1>1 DEF InOrder, Distinct
    <2>2. \A q \in Procs : pc'[q] \notin {"await", "begin", "copy", "now", "nowClose"}
      BY <1>1, <1>2 DEF OneOwner, Busy
    <2>3. started' = <<>> /\ Len(started') = Len(snapshot') - left'
      BY <1>1, <1>3
    <2>4. QED
      BY <1>1, <1>3, <2>1, <2>2, <2>3 DEF InOrder
  <1>7. Settled'
    BY <1>1, <1>3 DEF Settled
  <1>8. QED
    BY <1>4, <1>5, <1>6, <1>7

\* A callback is started: the last one that is left.
LEMMA StartStep ==
    ASSUME IInv, NEW p \in Procs, StartCallback(p)
    PROVE  IInv'
  <1> USE DEF IInv
  <1>1. /\ pc[p] = "loop" /\ pc' = [pc EXCEPT ![p] = "await"] /\ left > 0
        /\ running' = running \cup {snapshot[left]} /\ started' = Append(started, snapshot[left])
        /\ UNCHANGED <<chans, callbacks, snapshot, left, timedOut, flag, ctxDone, closes, expired>>
    BY DEF StartCallback, Goto, NextCallback
  <1>2. \A q \in Procs : pc'[q] = IF q = p THEN "await" ELSE pc[q]
    BY <1>1 DEF TypeOK
  <1>3. /\ closes = 0 /\ flag /\ \A q \in Procs : pc[q] # "await"
        /\ \A q \in Procs \ {p} : pc[q] \notin Busy
    BY <1>1 DEF OneOwner, Busy
  <1>4. /\ left \in Nat /\ left \in 1 .. Len(snapshot) /\ Len(snapshot) \in Nat
        /\ snapshot[left] \in Names /\ started \in Seq(Names)
    BY <1>1 DEF TypeOK
  <1>5. /\ started' \in Seq(Names) /\ Len(started') = Len(started) + 1
        /\ started'[Len(started) + 1] = snapshot[left] /\ Len(started) \in Nat
        /\ \A i \in 1 .. Len(started) : started'[i] = started[i]
    BY <1>1, <1>4
  <1>6. Len(started) = Len(snapshot) - left
    BY <1>3 DEF InOrder
  <1>7. TypeOK'
    BY <1>1, <1>4, <1>5 DEF TypeOK, chans, Labels
  <1>8. OneOwner'
    BY <1>1, <1>2 DEF OneOwner, Busy
  <1>9. InOrder'
    <2>1. \A i \in 1 .. Len(started') : started'[i] = snapshot[Len(snapshot) - i + 1]
      <3>1. \A i \in 1 .. Len(started') : i \in 1 .. Len(started) \/ i = Len(started) + 1
        BY <1>5
      <3>2. Len(snapshot) - (Len(started) + 1) + 1 = left
        BY <1>4, <1>6
      <3>3. QED
        BY <1>5, <3>1, <3>2 DEF InOrder
    <2>2. Len(started') = Len(snapshot) - left + 1
      BY <1>4, <1>5, <1>6
    <2>3. \A q \in Procs : pc'[q] \notin {"begin", "copy", "now", "nowClose"}
      BY <1>2, <1>3 DEF Busy
    <2>4. QED
      BY <1>1, <1>2, <1>3, <2>1, <2>2, <2>3 DEF InOrder, Distinct
  <1>10. Settled'
    <2>1. \A i \in left + 1 .. Len(snapshot) : snapshot[i] # snapshot[left]
      BY <1>4 DEF InOrder, Distinct
    <2>2. ~expired => running = {} /\ timedOut = {}
      BY <1>3 DEF Settled
    <2>3. QED
      BY <1>1, <1>2, <2>1, <2>2 DEF Settled
  <1>11. QED
    BY <1>7, <1>8, <1>9, <1>10

\* The callback returned or its time is up: the loop goes on to the one before.
LEMMA NextStep ==
    ASSUME IInv, NEW p \in Procs, CallbackReturned(p) \/ CallbackTimedOut(p)
    PROVE  IInv'
  <1> USE DEF IInv
  <1>1. /\ pc[p] = "await" /\ pc' = [pc EXCEPT ![p] = "loop"] /\ left' = left - 1
        /\ UNCHANGED <<chans, callbacks, snapshot, started, flag, ctxDone, closes, expired, running>>
        /\ \/ snapshot[left] \notin running /\ timedOut' = timedOut
           \/ expired /\ timedOut' = timedOut \cup {snapshot[left]}
    BY DEF CallbackReturned, CallbackTimedOut, Goto, NextCallback
  <1>2. \A q \in Procs : pc'[q] = IF q = p THEN "loop" ELSE pc[q]
    BY <1>1 DEF TypeOK
  <1>3. /\ closes = 0 /\ flag /\ \A q \in Procs \ {p} : pc[q] \notin Busy
    BY <1>1 DEF OneOwner, Busy
  <1>4. /\ left \in 1 .. Len(snapshot) /\ Len(snapshot) \in Nat /\ snapshot[left] \in Names
        /\ Len(started) = Len(snapshot) - left + 1 /\ Len(started) \in Nat
    BY <1>1 DEF TypeOK, InOrder
  <1>5. TypeOK'
    BY <1>1, <1>4 DEF TypeOK, chans, Labels
  <1>6. OneOwner'
    BY <1>1, <1>2 DEF OneOwner, Busy
  <1>7. InOrder'
    <2>1. \A q \in Procs : pc'[q] \notin {"await", "begin", "copy", "now", "nowClose"}
      BY <1>2, <1>3 DEF Busy
    <2>2. Len(started) = Len(snapshot) - left'
      BY <1>1, <1>4
    <2>3. QED
      BY <1>1, <1>3, <2>1, <2>2 DEF InOrder, Distinct
  <1>8. Settled'
    <2>1. \A i \in left' + 1 .. Len(snapshot) : i \in left + 1 .. Len(snapshot) \/ i = left
      BY <1>1, <1>4
    <2>2. \A i \in left' + 1 .. Len(snapshot) : snapshot[i] \notin running \/ snapshot[i] \in timedOut'
      BY <1>1, <2>1 DEF Settled
    <2>3. ~expired => running = {} /\ timedOut' = {}
      BY <1>1 DEF Settled
    <2>4. QED
      BY <1>1, <2>2, <2>3 DEF Settled
  <1>9. QED
    BY <1>5, <1>6, <1>7, <1>8

\* done is closed.
LEMMA CloseStep ==
    ASSUME IInv, NEW p \in Procs, CloseDone(p) \/ NowCloseDone(p)
    PROVE  IInv'
  <1> USE DEF IInv
  <1>1. /\ pc[p] \in {"loop", "nowClose"} /\ pc' = [pc EXCEPT ![p] = "idle"]
        /\ closes' = closes + 1
        /\ UNCHANGED <<chans, cleanup, callbacks, flag, ctxDone, expired, running>>
    BY DEF CloseDone, NowCloseDone, Goto
  <1>2. \A q \in Procs : pc'[q] = IF q = p THEN "idle" ELSE pc[q]
    BY <1>1 DEF TypeOK
  <1>3. left = 0 /\ closes = 0 /\ flag /\ ctxDone /\ \A q \in Procs \ {p} : pc[q] \notin Busy
    BY <1>1 DEF OneOwner, Busy, InOrder, CloseDone, NowCloseDone
  <1>4. TypeOK'
    BY <1>1 DEF TypeOK, chans, cleanup, Labels
  <1>5. OneOwner'
    BY <1>1, <1>2, <1>3 DEF OneOwner, Busy
  <1>6. \A q \in Procs : pc'[q] = "await" <=> pc[q] = "await"
    BY <1>1, <1>2
  <1>7. InOrder'
    BY <1>1, <1>2, <1>3, <1>6 DEF InOrder, cleanup, Distinct
  <1>8. Settled'
    BY <1>1, <1>6 DEF Settled, cleanup
  <1>9. QED
    BY <1>4, <1>5, <1>7, <1>8

LEMMA IInvStep == IInv /\ [Next]_vars => IInv'
  <1> SUFFICES ASSUME IInv, [Next]_vars PROVE IInv'
    OBVIOUS
  <1>1. CASE UNCHANGED vars
    BY <1>1 DEF vars, chans, cleanup, IInv, TypeOK, OneOwner, InOrder, Settled, Distinct
  <1>2. ASSUME NEW p \in Procs, Handle(p) PROVE IInv'
    BY <1>2, EntersStep, CancelStep, CopyStep, StartStep, NextStep, CloseStep DEF Handle, Enters
  <1>3. QED
    BY <1>1, <1>2, EntersStep, RegisterStep, OutsideStep DEF Next, Enters

LEMMA Invariance == Spec => []IInv
  BY InitIInv, IInvStep, PTL DEF Spec

\* The handler's variables keep their types, for any goroutines and names.
THEOREM TypeCorrect == Spec => []TypeOK
  <1>1. IInv => TypeOK
    BY DEF IInv
  <1>2. QED
    BY <1>1, Invariance, PTL

\* However many goroutines call Shutdown and ShutdownNow, done is closed at
\* most once, after the context is cancelled.
THEOREM DoneOnceAlways == Spec => []DoneOnce
  <1>1. IInv => DoneOnce
    BY DEF IInv, OneOwner, DoneOnce
  <1>2. QED
    BY <1>1, Invariance, PTL

\* Callbacks are started last registered first and one at a time within the
\* time limit.
THEOREM LastInFirstOutAlways == Spec => []LastInFirstOut
  <1>1. ASSUME IInv PROVE started = SubSeq(Reverse(snapshot), 1, Len(started))
    <2>1. Len(started) <= Len(snapshot) /\ Len(started) \in Nat /\ started \in Seq(Names)
      BY <1>1 DEF IInv, TypeOK, InOrder
    <2>2. SubSeq(Reverse(snapshot), 1, Len(started))
             = [i \in 1 .. Len(started) |-> snapshot[Len(snapshot) - i + 1]]
      BY <2>1, <1>1 DEF Reverse, IInv, TypeOK
    <2>3. started = [i \in 1 .. Len(started) |-> started[i]]
      BY <2>1
    <2>4. QED
      BY <1>1, <2>2, <2>3 DEF IInv, InOrder
  <1>2. ASSUME IInv, Cardinality(running) > 1 PROVE expired
    <2>1. SUFFICES ASSUME ~expired PROVE FALSE
      OBVIOUS
    <2>2. running = {} \/ running = {snapshot[left]}
      BY <1>2, <2>1 DEF IInv, Settled
    <2>3. Cardinality(running) \in {0, 1}
      BY <2>2, FS_EmptySet, FS_Singleton
    <2>4. QED
      BY <1>2, <2>3
  <1>3. IInv => LastInFirstOut
    BY <1>1, <1>2 DEF LastInFirstOut
  <1>4. QED
    BY <1>3, Invariance, PTL

\* When done is closed, every callback has returned or was reported.
THEOREM DoneMeansCleanedUpAlways == Spec => []DoneMeansCleanedUp
  <1>1. ASSUME IInv, closes = 1, NEW i \in DOMAIN snapshot
        PROVE  /\ snapshot[i] \in ToSet(started)
               /\ snapshot[i] \notin running \/ snapshot[i] \in timedOut
    <2>1. left = 0 /\ i \in 1 .. Len(snapshot) /\ Len(snapshot) \in Nat
      BY <1>1 DEF IInv, InOrder, TypeOK
    <2>2. \A p \in Procs : pc[p] # "await"
      BY <1>1 DEF IInv, OneOwner, Busy
    <2>3. Len(started) = Len(snapshot) /\ started \in Seq(Names)
      BY <1>1, <2>1, <2>2 DEF IInv, InOrder, TypeOK
    <2>4. /\ Len(snapshot) - i + 1 \in 1 .. Len(started)
          /\ started[Len(snapshot) - i + 1] = snapshot[Len(snapshot) - (Len(snapshot) - i + 1) + 1]
      BY <1>1, <2>1, <2>3 DEF IInv, InOrder
    <2>5. started[Len(snapshot) - i + 1] = snapshot[i]
      BY <2>1, <2>4
    <2>6. snapshot[i] \in ToSet(started)
      BY <2>3, <2>4, <2>5 DEF ToSet
    <2>7. QED
      BY <1>1, <2>1, <2>6 DEF IInv, Settled
  <1>2. IInv => DoneMeansCleanedUp
    BY <1>1 DEF IInv, Settled, DoneMeansCleanedUp
  <1>3. QED
    BY <1>2, Invariance, PTL
===============================================================================
