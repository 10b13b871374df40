SPECIFICATION Spec
CONSTANTS
  Id = {i1}
  Resetter = {r1}
  None = None
  Boot = Boot
  MaxRounds = 1
  durationMax = 2
  overstayAttempts = 1
  MaxStarts = 1
PROPERTY SignalMeansRecovered
CHECK_DEADLOCK FALSE
