SPECIFICATION Spec
CONSTANTS
  Thread = {t1, t2}
  MaxChunks = 2
  Size = 2
  MaxObjects = 3
  Field = {f1}
  MaxSlots = 2
  MajorAfter = 0
  Wrap = 4
  Garbage = {0}
  Regimes <- StaleRegimes
  None = None
INVARIANT NoStaleRoot
CHECK_DEADLOCK FALSE
