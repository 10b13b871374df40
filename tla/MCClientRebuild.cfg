SPECIFICATION Spec
CONSTANTS
  Id = {i1}
  Resetter = {r1, r2}
  None = None
  Boot = Boot
  MaxRounds = 2
  durationMax = 1
  overstayAttempts = 1
  MaxStarts = 2
SYMMETRY Interchangeable
CONSTRAINT RebuiltStartOnce
INVARIANTS TypeOK OverstayOffline FlagsHaveOwners ClientInv SignalsOffline RebuildsBounded
CHECK_DEADLOCK FALSE
