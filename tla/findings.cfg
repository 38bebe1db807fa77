SPECIFICATION Spec
CONSTANTS
  Workers = {w1, w2}
  Pages = {"/", "/a", "/b"}
  Root = "/"
  Hash <- MCHash
  NoHash = "none"
  Paths = {"/api", "/v1"}
  MaxProbes = 1
  GraphQL = "/graphql"
  Quick = {"/quick"}
  Late = {"/late"}
  Requests <- MCRequests
  Ajax <- MCAjax
  Parsed <- MCParsed
  Forms = {"login"}
CHECK_DEADLOCK FALSE
INVARIANT ReportComplete
INVARIANT PassiveOnce
INVARIANT ContentKept
INVARIANT StatsMatch
 
