SPECIFICATION Spec
CONSTANTS
  w1 = w1
  w2 = w2
  stopper = stopper
  listener = listener
  Workers = {w1, w2}
  Stopper = stopper
  Listener = listener
  Size = 2
  MaxBrowsers = 2
CHECK_DEADLOCK FALSE
INVARIANT StopIsGraceful
