-------------------------------- MODULE Shutdown --------------------------------
(***************************************************************************)
(* internal/shutdown/shutdown.go: the handler that runs the registered     *)
(* cleanup callbacks once, last registered first, within a time limit.     *)
(* Any goroutine may call Shutdown, ShutdownNow or WaitWithContext; each   *)
(* callback runs in a goroutine of its own and may hang.                   *)
(***************************************************************************)
EXTENDS Naturals, Sequences, FiniteSets, SequencesExt

CONSTANTS Procs,   \* goroutines that call the handler
          Names    \* callbacks that may be registered

VARIABLES callbacks,   \* registered callbacks, in order
          flag,        \* isShuttingDown
          ctxDone,     \* the handler's context is cancelled
          closes,      \* how often done was closed; a second close panics
          signal,      \* a signal is in sigChan, which holds one
          parentDone,  \* the context given to WaitWithContext is done
          pc,          \* where each goroutine is
          snapshot,    \* Shutdown's copy of callbacks
          left,        \* callbacks of the copy not yet executed
          expired,     \* the shutdown context has timed out
          started,     \* ghost: callbacks in the order they were started
          running,     \* callbacks whose goroutine is still executing
          timedOut     \* callbacks reported with a TimeoutError

chans  == <<signal, parentDone>>
cleanup == <<snapshot, left, started, timedOut>>
vars == <<chans, cleanup, callbacks, flag, ctxDone, closes, pc, expired, running>>

Labels == {"idle", "waiting", "begin", "copy", "loop", "await", "now", "nowClose"}

Init ==
    /\ callbacks = <<>> /\ snapshot = <<>> /\ started = <<>>
    /\ left = 0 /\ closes = 0
    /\ flag = FALSE /\ ctxDone = FALSE /\ expired = FALSE
    /\ signal = FALSE /\ parentDone = FALSE
    /\ running = {} /\ timedOut = {}
    /\ pc = [p \in Procs |-> "idle"]

Goto(p, label) == pc' = [pc EXCEPT ![p] = label]

-------------------------------------------------------------------------------
(* The environment: registration, signals, the caller's context.            *)

Register(n) ==
    /\ n \notin ToSet(callbacks)
    /\ callbacks' = Append(callbacks, n)
    /\ UNCHANGED <<chans, cleanup, flag, ctxDone, closes, pc, expired, running>>

\* A signal, or Trigger: dropped when one is pending.
Trigger ==
    /\ ~signal
    /\ signal' = TRUE
    /\ UNCHANGED <<cleanup, callbacks, parentDone, flag, ctxDone, closes, pc, expired, running>>

CancelParent ==
    /\ ~parentDone
    /\ parentDone' = TRUE
    /\ UNCHANGED <<cleanup, callbacks, signal, flag, ctxDone, closes, pc, expired, running>>

-------------------------------------------------------------------------------
(* Entering Shutdown and ShutdownNow.                                       *)

\* Mutant: the flag is tested but set only by the next step.
TestOnly(p, label) ==
    /\ Goto(p, IF flag THEN "idle" ELSE label)
    /\ UNCHANGED flag

\* CompareAndSwap: only one caller gets past it.
Enter(p, label) ==
    /\ Goto(p, IF flag THEN "idle" ELSE label)
    /\ flag' = TRUE

CallShutdown(p) ==
    /\ pc[p] = "idle"
    /\ Enter(p, "begin")
    /\ UNCHANGED <<chans, cleanup, callbacks, ctxDone, closes, expired, running>>

CallShutdownNow(p) ==
    /\ pc[p] = "idle"
    /\ Enter(p, "now")
    /\ UNCHANGED <<chans, cleanup, callbacks, ctxDone, closes, expired, running>>

WaitWithContext(p) ==
    /\ pc[p] = "idle"
    /\ Goto(p, "waiting")
    /\ UNCHANGED <<chans, cleanup, callbacks, flag, ctxDone, closes, expired, running>>

WaitGotSignal(p) ==
    /\ pc[p] = "waiting" /\ signal
    /\ signal' = FALSE
    /\ Enter(p, "begin")
    /\ UNCHANGED <<cleanup, callbacks, parentDone, ctxDone, closes, expired, running>>

WaitGotCancel(p) ==
    /\ pc[p] = "waiting" /\ parentDone
    /\ Enter(p, "begin")
    /\ UNCHANGED <<chans, cleanup, callbacks, ctxDone, closes, expired, running>>

WaitGotShutdown(p) ==
    /\ pc[p] = "waiting" /\ ctxDone
    /\ Goto(p, "idle")
    /\ UNCHANGED <<chans, cleanup, callbacks, flag, ctxDone, closes, expired, running>>

-------------------------------------------------------------------------------
(* Shutdown.                                                                *)

CancelContext(p) ==
    /\ pc[p] = "begin"
    /\ flag' = TRUE
    /\ ctxDone' = TRUE
    /\ Goto(p, "copy")
    /\ UNCHANGED <<chans, cleanup, callbacks, closes, expired, running>>

\* What is registered after this copy is never executed.
CopyCallbacks(p) ==
    /\ pc[p] = "copy"
    /\ snapshot' = callbacks
    /\ left' = Len(callbacks)
    /\ Goto(p, "loop")
    /\ UNCHANGED <<chans, callbacks, started, timedOut, flag, ctxDone, closes, expired, running>>

NextCallback == snapshot[left]

StartCallback(p) ==
    /\ pc[p] = "loop" /\ left > 0
    /\ running' = running \cup {NextCallback}
    /\ started' = Append(started, NextCallback)
    /\ Goto(p, "await")
    /\ UNCHANGED <<chans, callbacks, snapshot, left, timedOut, flag, ctxDone, closes, expired>>

CallbackReturned(p) ==
    /\ pc[p] = "await"
    /\ NextCallback \notin running
    /\ left' = left - 1
    /\ Goto(p, "loop")
    /\ UNCHANGED <<chans, callbacks, snapshot, started, timedOut, flag, ctxDone, closes, expired, running>>

\* Mutant: the callback is waited for, however long it takes.
NeverTimesOut(p) ==
    /\ pc[p] = "await"
    /\ expired /\ NextCallback \notin running
    /\ left' = left - 1
    /\ Goto(p, "loop")
    /\ UNCHANGED <<chans, callbacks, snapshot, started, timedOut, flag, ctxDone, closes, expired, running>>

\* The callback's goroutine is not stopped; it may also just have returned.
CallbackTimedOut(p) ==
    /\ pc[p] = "await"
    /\ expired
    /\ timedOut' = timedOut \cup {NextCallback}
    /\ left' = left - 1
    /\ Goto(p, "loop")
    /\ UNCHANGED <<chans, callbacks, snapshot, started, flag, ctxDone, closes, expired, running>>

\* Mutant: done is closed before the callbacks are executed.
CloseDoneEarly(p) ==
    /\ pc[p] = "loop" /\ left = Len(snapshot)
    /\ closes' = closes + 1
    /\ Goto(p, "idle")
    /\ UNCHANGED <<chans, cleanup, callbacks, flag, ctxDone, expired, running>>

CloseDone(p) ==
    /\ pc[p] = "loop" /\ left = 0
    /\ closes' = closes + 1
    /\ Goto(p, "idle")
    /\ UNCHANGED <<chans, cleanup, callbacks, flag, ctxDone, expired, running>>

NowCancel(p) ==
    /\ pc[p] = "now"
    /\ ctxDone' = TRUE
    /\ Goto(p, "nowClose")
    /\ UNCHANGED <<chans, cleanup, callbacks, flag, closes, expired, running>>

NowCloseDone(p) ==
    /\ pc[p] = "nowClose"
    /\ closes' = closes + 1
    /\ Goto(p, "idle")
    /\ UNCHANGED <<chans, cleanup, callbacks, flag, ctxDone, expired, running>>

\* The timeout runs from the copy of the callbacks to the close of done.
Expire ==
    /\ ~expired
    /\ \E p \in Procs : pc[p] \in {"copy", "loop", "await"}
    /\ expired' = TRUE
    /\ UNCHANGED <<chans, cleanup, callbacks, flag, ctxDone, closes, pc, running>>

CallbackEnds(n) ==
    /\ n \in running
    /\ running' = running \ {n}
    /\ UNCHANGED <<chans, cleanup, callbacks, flag, ctxDone, closes, pc, expired>>

-------------------------------------------------------------------------------
Handle(p) ==
    \/ WaitGotSignal(p) \/ WaitGotCancel(p) \/ WaitGotShutdown(p)
    \/ CancelContext(p) \/ CopyCallbacks(p) \/ StartCallback(p)
    \/ CallbackReturned(p) \/ CallbackTimedOut(p) \/ CloseDone(p)
    \/ NowCancel(p) \/ NowCloseDone(p)

Call(p) == CallShutdown(p) \/ CallShutdownNow(p) \/ WaitWithContext(p)

Next ==
    \/ \E p \in Procs : Call(p) \/ Handle(p)
    \/ \E n \in Names : Register(n) \/ CallbackEnds(n)
    \/ Trigger \/ CancelParent \/ Expire

\* Goroutines are scheduled and the timer fires; callbacks need not return.
Fairness == (\A p \in Procs : WF_vars(Handle(p))) /\ WF_vars(Expire)

Spec == Init /\ [][Next]_vars /\ Fairness

-------------------------------------------------------------------------------
(* Properties.                                                              *)

TypeOK ==
    /\ callbacks \in Seq(Names) /\ snapshot \in Seq(Names) /\ started \in Seq(Names)
    /\ left \in 0 .. Len(snapshot)
    /\ closes \in Nat
    /\ {flag, ctxDone, expired, signal, parentDone} \subseteq BOOLEAN
    /\ running \subseteq Names /\ timedOut \subseteq Names
    /\ pc \in [Procs -> Labels]

\* done is closed at most once, whoever calls Shutdown and ShutdownNow at the
\* same time, and never before the context is cancelled.
DoneOnce == closes <= 1 /\ (closes = 1 => ctxDone)

\* Callbacks are started last registered first, each once, and the next one
\* waits for the one before, unless the time limit has passed.
LastInFirstOut ==
    /\ started = SubSeq(Reverse(snapshot), 1, Len(started))
    /\ Cardinality(running) > 1 => expired

\* When done is closed, each callback has returned or was reported as timed
\* out, and none is reported unless the time limit has passed.
DoneMeansCleanedUp ==
    /\ closes = 1 => \A i \in DOMAIN snapshot :
          /\ snapshot[i] \in ToSet(started)
          /\ snapshot[i] \notin running \/ snapshot[i] \in timedOut
    /\ timedOut # {} => expired

\* Once begun, a shutdown ends, even when callbacks hang, and whoever is
\* waiting for a signal is released.
ShutdownEnds ==
    /\ flag ~> closes = 1
    /\ \A p \in Procs : flag /\ pc[p] = "waiting" ~> pc[p] # "waiting"
===============================================================================
