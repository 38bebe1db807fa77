SPECIFICATION Spec
CONSTANTS
  w1 = w1
  w2 = w2
  scout = scout
  home = home
  a = a
  b = b
  tab = tab
  Workers = {w1, w2}
  Scout = scout
  URLs = {home, a, b, tab}
  Target = home
  Sitemap = {}
  Links <- MCLinks
  Dynamic <- MCDynamic
  Extra = {tab}
  Norm <- MCNorm
  UIState = {tab}
  Allowed = {home, a, b, tab}
  MaxDepth = 2
  Capacity = 1
  BatchSize = 2
  MaxEmpty = 1
CHECK_DEADLOCK FALSE
INVARIANT TypeOK
INVARIANT NothingLeftBehind
INVARIANT CrawlComplete
INVARIANT RepeatedInRaceOnly
 
