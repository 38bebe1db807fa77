SPECIFICATION Spec
CONSTANTS
  w1 = w1
  w2 = w2
  Pools = {"pathBruter"}
  Crew <- MCCrew
  Tasks <- MCTasks
  Alone = {"robots", "sourceMap", "fingerprint"}
  Maps = {"app.js.map"}
  Yield <- MCYield
  Roots <- MCRoots
  RobotsMaps <- MCRobotsMaps
  Index <- MCIndex
  MaxDepth = 1
CHECK_DEADLOCK FALSE
INVARIANT NoSendOnClosed
INVARIANT ReturnsAllFound
PROPERTY DiscoverReturns
