SPECIFICATION FairSpec
CONSTANTS
  Broker = {b1}
  durationMax = 2
  overstayAttempts = 1
  MaxStarts = 5
INVARIANTS TypeOK OneLiveContext StreamIsOwned AckOnOwnStream ConnInv
PROPERTIES NoStartAfterReset SupersededIsLeft ShutdownCompletes
\* a panic and a stopped object are final
CHECK_DEADLOCK FALSE
