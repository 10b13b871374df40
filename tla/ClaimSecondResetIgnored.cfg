SPECIFICATION Spec
CONSTANTS
  Id = {i1}
  Resetter = {r1, r2}
  None = None
  Boot = Boot
  MaxRounds = 1
  durationMax = 2
  overstayAttempts = 1
  MaxStarts = 1
INVARIANT SecondResetIgnored
CHECK_DEADLOCK FALSE
