SPECIFICATION Spec
CONSTANTS
  Main = main
  None = None
  Thread = {main, w1, w2}
  Block = {b1, b2, b3}
  MaxTasks = 1
  MaxWidth = 0
  MaxSignal = 0
  Feature = {"defer", "finish", "retire"}
INVARIANTS HeadHasNoPrevious
CHECK_DEADLOCK FALSE
