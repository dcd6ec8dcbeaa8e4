SPECIFICATION ExceptionsSpec
CONSTANTS
  Exception = {e1, e2}
  Many = Many
  NoException = NoException
  MaxDepth = 3
  MaxTasks = 2
  TryPrograms <- ReturningPrograms
INVARIANT StartingHandlerIsRestored
CHECK_DEADLOCK FALSE
