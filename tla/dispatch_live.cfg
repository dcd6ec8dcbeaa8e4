SPECIFICATION FairSpec
CONSTANTS
  Main = main
  None = None
  Thread = {main, w1}
  Block = {b1, b2}
  MaxTasks = 1
  MaxWidth = 0
  MaxSignal = 0
  Feature = {"collect", "poll", "finish", "defer", "retire"}
PROPERTIES GCReturns
CHECK_DEADLOCK FALSE
