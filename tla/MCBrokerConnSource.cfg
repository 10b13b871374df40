SPECIFICATION Spec
CONSTANTS
  Broker = {b1}
  durationMax = 24
  overstayAttempts = 2
  MaxStarts = 12
CONSTRAINT TwoStreams
INVARIANTS RetryBudget
PROPERTIES FollowsPolicy BehavesAsLink
\* a panic and a stopped object are final
CHECK_DEADLOCK FALSE
