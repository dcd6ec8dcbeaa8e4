SPECIFICATION BusyLoopSpec
CONSTANTS
  Main = main
  None = None
  Thread = {main, w1}
  Block = {b1}
  MaxTasks = 1
  MaxWidth = 0
  MaxSignal = 0
  Feature = {"collect", "poll", "defer"}
PROPERTIES BarriersStopTheTask
CHECK_DEADLOCK FALSE
