----------------------------- MODULE CircuitBreaker -----------------------------
(***************************************************************************)
(* internal/errors/circuit_breaker.go: callers ask Allow, run their        *)
(* request without the lock and report the outcome; meanwhile the state    *)
(* may have changed under them.  Time is reduced to whether Timeout has    *)
(* passed since the last recorded failure.                                 *)
(***************************************************************************)
EXTENDS Integers, FiniteSets

CONSTANTS Callers,             \* callers of Execute
          FailureThreshold, SuccessThreshold, MaxConcurrent

ASSUME CircuitBreakerConstants ==
    /\ FailureThreshold \in Nat \ {0}
    /\ SuccessThreshold \in Nat \ {0}
    /\ MaxConcurrent \in Nat \ {0}   \* NewCircuitBreaker turns 0 into 1

VARIABLES state,             \* "Closed", "Open" or "HalfOpen"
          failures, successes, halfOpenRequests,
          ripe,              \* Timeout has passed since lastFailureTime
          healthy,           \* environment: requests succeed
          calling,           \* callers that were allowed and have not reported
          probes,            \* ghost: those allowed in the present half-open period
          stale              \* ghost: reports in this period by others than probes

counters == <<failures, successes, halfOpenRequests>>
breakerVars == <<state, counters, ripe, healthy, calling, probes, stale>>

BreakerInit ==
    /\ state = "Closed"
    /\ failures = 0 /\ successes = 0 /\ halfOpenRequests = 0
    /\ ripe = FALSE /\ healthy = TRUE
    /\ calling = {} /\ probes = {} /\ stale = 0

-------------------------------------------------------------------------------
(* Allow.                                                                   *)

AllowClosed(p) ==
    /\ state = "Closed"
    /\ p \notin calling
    /\ calling' = calling \cup {p}
    /\ UNCHANGED <<state, counters, ripe, healthy, probes, stale>>

\* The timeout has passed: half-open, and this caller is the first probe.
AllowOpen(p) ==
    /\ state = "Open" /\ ripe
    /\ p \notin calling
    /\ state' = "HalfOpen"
    /\ successes' = 0
    /\ halfOpenRequests' = halfOpenRequests + 1
    /\ calling' = calling \cup {p}
    /\ probes' = {p} /\ stale' = 0
    /\ UNCHANGED <<failures, ripe, healthy>>

MayProbe == halfOpenRequests < MaxConcurrent

AllowHalfOpen(p) ==
    /\ state = "HalfOpen" /\ MayProbe
    /\ p \notin calling
    /\ halfOpenRequests' = halfOpenRequests + 1
    /\ calling' = calling \cup {p}
    /\ probes' = probes \cup {p}
    /\ UNCHANGED <<state, failures, successes, ripe, healthy, stale>>

-------------------------------------------------------------------------------
(* RecordSuccess and RecordFailure.                                         *)

\* Mutant: a success in half-open does not free the probe's place.
KeepPlace == halfOpenRequests

FreePlace == IF halfOpenRequests > 0 THEN halfOpenRequests - 1 ELSE 0

\* The ghosts when p reports in half-open.
Report(p) ==
    /\ calling' = calling \ {p}
    /\ probes' = probes \ {p}
    /\ stale' = IF state = "HalfOpen" /\ p \notin probes THEN stale + 1 ELSE stale

Succeed(p) ==
    /\ p \in calling
    /\ healthy
    /\ Report(p)
    /\ CASE state = "Closed" ->
              failures' = 0 /\ UNCHANGED <<state, successes, halfOpenRequests>>
         [] state = "Open" -> UNCHANGED <<state, counters>>
         [] state = "HalfOpen" /\ successes + 1 >= SuccessThreshold ->
              state' = "Closed" /\ failures' = 0 /\ successes' = 0 /\ halfOpenRequests' = 0
         [] OTHER ->
              /\ successes' = successes + 1
              /\ halfOpenRequests' = FreePlace
              /\ UNCHANGED <<state, failures>>
    /\ UNCHANGED <<ripe, healthy>>

\* A failure restarts the timeout in every state.
Fail(p) ==
    /\ p \in calling
    /\ ~healthy
    /\ Report(p)
    /\ ripe' = FALSE
    /\ CASE state = "Closed" /\ failures + 1 < FailureThreshold ->
              failures' = failures + 1 /\ UNCHANGED <<state, successes, halfOpenRequests>>
         [] state = "Closed" /\ failures + 1 >= FailureThreshold ->
              /\ state' = "Open" /\ failures' = failures + 1
              /\ successes' = 0 /\ halfOpenRequests' = 0
         [] state = "Open" -> UNCHANGED <<state, counters>>
         [] OTHER ->
              /\ state' = "Open" /\ successes' = 0 /\ halfOpenRequests' = 0
              /\ UNCHANGED failures
    /\ UNCHANGED healthy

-------------------------------------------------------------------------------
\* Reset leaves lastFailureTime and the calls in flight alone.
Reset ==
    /\ state' = "Closed"
    /\ failures' = 0 /\ successes' = 0 /\ halfOpenRequests' = 0
    /\ UNCHANGED <<ripe, healthy, calling, probes, stale>>

TimePasses ==
    /\ ~ripe
    /\ ripe' = TRUE
    /\ UNCHANGED <<state, counters, healthy, calling, probes, stale>>

\* The host goes down or comes back.
HostChanges ==
    /\ healthy' = ~healthy
    /\ UNCHANGED <<state, counters, ripe, calling, probes, stale>>

Request(p) == AllowClosed(p) \/ AllowOpen(p) \/ AllowHalfOpen(p)

BreakerNext ==
    \/ \E p \in Callers : Request(p) \/ Succeed(p) \/ Fail(p)
    \/ Reset \/ TimePasses \/ HostChanges

\* Time passes, requests keep coming and every request ends.
BreakerFairness ==
    /\ WF_breakerVars(TimePasses)
    /\ \A p \in Callers : SF_breakerVars(Request(p)) /\ WF_breakerVars(Succeed(p) \/ Fail(p))

BreakerSpec == BreakerInit /\ [][BreakerNext]_breakerVars /\ BreakerFairness

-------------------------------------------------------------------------------
(* Properties.                                                              *)

BreakerTypeOK ==
    /\ state \in {"Closed", "Open", "HalfOpen"}
    /\ failures \in 0 .. FailureThreshold
    /\ successes \in 0 .. SuccessThreshold - 1
    /\ halfOpenRequests \in 0 .. MaxConcurrent
    /\ {ripe, healthy} \subseteq BOOLEAN
    /\ calling \subseteq Callers /\ probes \subseteq calling
    /\ stale \in Nat

\* In half-open, the probes in flight exceed MaxConcurrent at most by the late
\* results of calls from earlier periods: each of them frees a place that no
\* probe has left.
ProbesBounded ==
    state = "HalfOpen" => Cardinality(probes) <= MaxConcurrent + stale

\* A place taken in half-open belongs to a call that will still report, so the
\* breaker cannot get stuck refusing everyone.
PlacesAreCalls ==
    /\ halfOpenRequests <= Cardinality(calling)
    /\ state # "HalfOpen" => halfOpenRequests = 0

\* Once the host stays healthy, the circuit closes for good.
Recovers == <>[]healthy => <>[](state = "Closed")
===============================================================================
