SPECIFICATION Spec
CONSTANTS
  Thread = {t1, t2}
  MaxChunks = 4
  Size = 2
  MaxObjects = 2
  Field = {f1}
  MaxSlots = 1
  MajorAfter = 0
  Wrap = 4
  Garbage = {0}
  Regimes <- FinalizerRegimes
  None = None
INVARIANT FreeFuncRunsOnce
CHECK_DEADLOCK FALSE
