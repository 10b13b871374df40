SPECIFICATION Spec
CONSTANTS
  Broker = {b1}
  durationMax = 2
  overstayAttempts = 2
  MaxStarts = 4
INVARIANTS DelegatesAtLimit
CHECK_DEADLOCK FALSE
