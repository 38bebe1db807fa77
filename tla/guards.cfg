\* The browser pool with three visitors, then the circuit breaker with four callers.
CONSTANTS
  Procs = {p1, p2, p3}
  Size = 2
  RecycleAfter = 1
  MaxBrowsers = 4
  Callers = {c1, c2, c3, c4}
  FailureThreshold = 2
  SuccessThreshold = 3
  MaxConcurrent = 1
SPECIFICATION GuardsSpec
CHECK_DEADLOCK FALSE
INVARIANT TokensConserved
PROPERTY HandedOutOpen
PROPERTY AcquireServed
INVARIANT PlacesAreCalls
PROPERTY Recovers
