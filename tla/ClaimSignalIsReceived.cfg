SPECIFICATION FairSpec
CONSTANTS
  Id = {i1}
  Resetter = {r1}
  None = None
  Boot = Boot
  MaxRounds = 2
  durationMax = 2
  overstayAttempts = 1
  MaxStarts = 1
PROPERTY SignalIsReceived
CHECK_DEADLOCK FALSE
