\* Teams of three callers; the constants of the adaptive limiter are scaled.
CONSTANTS
  c1 = c1
  c2 = c2
  c3 = c3
  Goroutines = {c1, c2, c3}
  Domains = {d1, d2}
  Teams <- MCTeams
  Delay = 2
  MaxRetries = 2
  InitialDelay = 1
  MaxDelay = 3
  RetryableTypes <- MCTypes
  Concurrency = 1
  windowSize = 11
  minRate = 60
  maxRate = 100
  Paths = {"p", "q", "r"}
  Files <- MCFiles
  MaxFetches = 2
SPECIFICATION RequestsSpec
CHECK_DEADLOCK FALSE
INVARIANTS
  RequestsTypeOK
  RobotsObeyed
PROPERTIES
  OwnPace
  RetriesJustified
  CallsReturn
  AdaptsToServer
