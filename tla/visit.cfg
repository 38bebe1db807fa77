\* One use of one page, with one or two requests of the page.
CONSTANTS
  r1 = r1
  r2 = r2
  Reqs = {r1, r2}
  Jobs <- MCJobs
  Sites <- MCSites
  MaxCaptured = 1
  MaxScrolls = 2
  MaxHeight = 3
SPECIFICATION VisitSpec
CHECK_DEADLOCK FALSE
PROPERTIES
  ShownIsReported
  XHRsReported
  DataAwaited
  VisitEnds
