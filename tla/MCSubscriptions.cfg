SPECIFICATION Spec
CONSTANTS
  Handler = {h1, h2, h3}
  Event = {e1, e2}
  Reader = {r1}
  None = None
SYMMETRY Interchangeable
INVARIANTS LeftAlone NoEntryLeaks StoreInv
CHECK_DEADLOCK FALSE
