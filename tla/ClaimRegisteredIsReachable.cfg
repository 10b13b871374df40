SPECIFICATION Spec
CONSTANTS
  Handler = {h1, h2}
  Event = {e1}
  Reader = {r1}
  None = None
INVARIANT RegisteredIsReachable
CHECK_DEADLOCK FALSE
