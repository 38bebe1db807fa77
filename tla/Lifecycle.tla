------------------------------- MODULE Lifecycle -------------------------------
(***************************************************************************)
(* pkg/crawler/crawler.go, Start, Stop and cleanup: one crawl from the     *)
(* start of its workers to the return of Start, with Stop, a cancelled     *)
(* caller context or the natural end of the crawl racing each other.       *)
(* Composes Shutdown (the handler, with the five callbacks that Start      *)
(* registers) and BrowserPool (the pool that the workers visit with).      *)
(*                                                                         *)
(* A worker is reduced to its visits: how many it makes is left open.      *)
(***************************************************************************)
EXTENDS Integers, FiniteSets, Sequences

CONSTANTS Workers, Stopper, Listener, Size, MaxBrowsers

VARIABLES
    \* Shutdown
    callbacks, flag, ctxDone, closes, signal, parentDone, spc, snapshot, left,
    expired, started, running, timedOut,
    \* BrowserPool
    sem, closed, slot, current, launched, open, pages, wpc, mine, panicked,
    \* Crawler
    exited,      \* workers that have returned
    cancelled,   \* c.cancel was called by the context-cancel callback
    outputOpen,  \* the output writer is open
    written,     \* WriteResult wrote the final result
    main         \* where Start is

RegisteredNames == <<"browser-pool", "http-client", "queue", "output", "context-cancel">>

Handler == INSTANCE Shutdown WITH
    Procs <- {Stopper, Listener}, pc <- spc,
    Names <- {RegisteredNames[i] : i \in DOMAIN RegisteredNames}
Pool == INSTANCE BrowserPool WITH
    Procs <- Workers, pc <- wpc, RecycleAfter <- 0

handlerVars == <<callbacks, flag, ctxDone, closes, signal, parentDone, spc,
                 snapshot, left, expired, started, running, timedOut>>
poolVars == <<sem, closed, slot, current, launched, open, pages, wpc, mine, panicked>>
crawlVars == <<exited, cancelled, outputOpen, written, main>>
vars == <<handlerVars, poolVars, crawlVars>>

\* The state after initialize and registerShutdownCallbacks, with the workers
\* and the goroutine of WaitWithContext running.
Init ==
    /\ callbacks = RegisteredNames
    /\ snapshot = <<>> /\ started = <<>> /\ left = 0 /\ closes = 0
    /\ flag = FALSE /\ ctxDone = FALSE /\ expired = FALSE
    /\ signal = FALSE /\ parentDone = FALSE
    /\ running = {} /\ timedOut = {}
    /\ spc = [p \in {Stopper, Listener} |-> IF p = Listener THEN "waiting" ELSE "idle"]
    /\ Pool!Init
    /\ exited = {}
    /\ cancelled = FALSE /\ outputOpen = TRUE /\ written = FALSE
    /\ main = "crawl"

\* c.ctx, which is derived from the context given to Start.
CrawlContextDone == parentDone \/ cancelled

-------------------------------------------------------------------------------
(* Workers.                                                                 *)

\* A worker looks at the context before each visit.
StartVisit(w) ==
    /\ w \notin exited
    /\ ~CrawlContextDone
    /\ Pool!Call(w)
    /\ UNCHANGED <<handlerVars, crawlVars>>

\* Only a done context ends the wait for a browser early.
ContinueVisit(w) ==
    /\ \/ Pool!GetToken(w) \/ Pool!RefuseClosed(w) \/ Pool!HandOut(w)
       \/ Pool!Visit(w) \/ Pool!Release(w)
       \/ CrawlContextDone /\ Pool!GiveUp(w)
    /\ UNCHANGED <<handlerVars, crawlVars>>

\* The context is done or the queue stayed empty.
Exit(w) ==
    /\ w \notin exited
    /\ wpc[w] = "idle"
    /\ exited' = exited \cup {w}
    /\ UNCHANGED <<handlerVars, poolVars, cancelled, outputOpen, written, main>>

-------------------------------------------------------------------------------
(* Stop, the listener and the callbacks.                                    *)

\* Stop holds c.mu until Shutdown returns.
StopHoldsMutex == spc[Stopper] # "idle"

Stop ==
    /\ Handler!CallShutdown(Stopper)
    /\ UNCHANGED <<poolVars, crawlVars>>

StopNow ==
    /\ Handler!CallShutdownNow(Stopper)
    /\ UNCHANGED <<poolVars, crawlVars>>

HandlerStep ==
    /\ \/ \E p \in {Stopper, Listener} : Handler!Handle(p)
       \/ Handler!Trigger \/ Handler!CancelParent \/ Handler!Expire
    /\ UNCHANGED <<poolVars, crawlVars>>

CancelCallback ==
    /\ Handler!CallbackEnds("context-cancel")
    /\ cancelled' = TRUE
    /\ UNCHANGED <<poolVars, exited, outputOpen, written, main>>

OutputCallback ==
    /\ Handler!CallbackEnds("output")
    /\ outputOpen' = FALSE
    /\ UNCHANGED <<poolVars, exited, cancelled, written, main>>

\* The queue and the HTTP client: nothing here depends on them.
OtherCallback ==
    /\ \E n \in {"queue", "http-client"} : Handler!CallbackEnds(n)
    /\ UNCHANGED <<poolVars, crawlVars>>

ClosePool == Pool!Close \/ (closed /\ UNCHANGED poolVars)

PoolCallback ==
    /\ Handler!CallbackEnds("browser-pool")
    /\ ClosePool
    /\ UNCHANGED crawlVars

-------------------------------------------------------------------------------
(* Start, after the workers are started.                                    *)

Finalize ==
    /\ main = "crawl"
    /\ exited = Workers
    /\ ~StopHoldsMutex
    /\ main' = "write"
    /\ UNCHANGED <<handlerVars, poolVars, exited, cancelled, outputOpen, written>>

\* A closed JSON writer drops the result and reports no error.
WriteResult ==
    /\ main = "write"
    /\ written' = outputOpen
    /\ main' = "cleanup"
    /\ UNCHANGED <<handlerVars, poolVars, exited, cancelled, outputOpen>>

\* cleanup leaves the closing to a shutdown that has begun.
Cleanup ==
    /\ main = "cleanup"
    /\ IF flag
       THEN main' = "awaitDone" /\ UNCHANGED <<poolVars, outputOpen>>
       ELSE main' = "over" /\ ClosePool /\ outputOpen' = FALSE
    /\ UNCHANGED <<handlerVars, exited, cancelled, written>>

AwaitDone ==
    /\ main = "awaitDone"
    /\ closes > 0
    /\ main' = "over"
    /\ UNCHANGED <<handlerVars, poolVars, exited, cancelled, outputOpen, written>>

Next ==
    /\ ~panicked
    /\ \/ \E w \in Workers : StartVisit(w) \/ ContinueVisit(w) \/ Exit(w)
       \/ Stop \/ StopNow \/ HandlerStep
       \/ CancelCallback \/ OutputCallback \/ OtherCallback \/ PoolCallback
       \/ Finalize \/ WriteResult \/ Cleanup \/ AwaitDone

Spec == Init /\ [][Next]_vars

-------------------------------------------------------------------------------
(* Properties.                                                              *)

\* "Stop stops the crawler gracefully" (crawler.go:1255): no goroutine panics.
StopIsGraceful == ~panicked
===============================================================================
