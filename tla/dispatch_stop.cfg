SPECIFICATION Spec
CONSTANTS
  Main = main
  None = None
  Thread = {main, w1, w2}
  Block = {b1}
  MaxTasks = 3
  MaxWidth = 2
  MaxSignal = 0
  Feature = {"collect", "poll", "finish", "defer", "await", "drop", "parallel", "symbol"}
SYMMETRY WorkerSymmetry
INVARIANTS WorldIsStopped SignalsBalance EveryThreadIsListed
PROPERTIES LeaveWaitsForCollection ImplementsStopTheWorld
CHECK_DEADLOCK FALSE
