SPECIFICATION ContinuationsSpec
CONSTANTS
  Base = Base
  NullPointer = NullPointer
  MaxContinuations = 3
  MaxHandlers = 3
  TaskPrograms <- AbortingPrograms
CHECK_DEADLOCK FALSE
INVARIANT AbortEndsTheTask
