\* Two connections and a sender, at one or two addresses.
CONSTANTS
  c1 = c1
  c2 = c2
  c3 = c3
  Conns = {c1, c2, c3}
  Senders = {c3}
  URLs = {"u1", "u2"}
  Plans <- MCPlans
  maxMsgs = 2
  None = None
SPECIFICATION Spec
CHECK_DEADLOCK FALSE
INVARIANT MessagesKept
PROPERTY CallsReturn
