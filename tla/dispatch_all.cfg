SPECIFICATION Spec
CONSTANTS
  Main = main
  None = None
  Thread = {main, w1, w2}
  Block = {b1, b2}
  MaxTasks = 2
  MaxWidth = 1
  MaxSignal = 1
  Feature = {"collect", "poll", "finish", "defer", "await", "drop", "parallel", "symbol", "late", "retire"}
SYMMETRY WorkerSymmetry
INVARIANTS TypeOK HibernationMatchesControl CollectionsDoNotOverlap ListIsDoublyLinked
CHECK_DEADLOCK FALSE
