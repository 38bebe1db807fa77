SPECIFICATION PersistentSpec
CONSTANTS
  u1 = u1
  u2 = u2
  u3 = u3
  Keys = {u1, u2, u3}
  MaxMem = 2
  MaxFaults = 3
INVARIANT BoundedLoss
INVARIANT RedeliveryNeedsFailure
PROPERTY EverythingIsPopped
