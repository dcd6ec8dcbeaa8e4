SPECIFICATION MemorySpec
CONSTANTS
  Thread = {t1, t2}
  MaxChunks = 4
  Size = 2
  MaxObjects = 2
  Field = {f1}
  MaxSlots = 1
  MajorAfter = 0
  Wrap = 4
  Garbage = {0, 1}
  Regimes <- HeapRegimes
  None = None
  NullPointer = NullPointer
  Base = Base
  MaxContinuations = 5
  MaxHandlers = 3
  TaskPrograms <- CatchingPrograms
  Worker = {a1, a2, a3}
  Adder = a1
  ArrayPrograms = {"store", "map"}
  InitialRoom = 1
  MaxSize = 4
  Nil = Nil
  Null = Null
  Unwritten = Unwritten
  UserName = {x, "member_missing"}
  Value = {v, NULL}
  Function = {f, g}
  NullFunctions = {g}
  MaxExisting = 9
  Programs <- ObjectPrograms
  SN_NIL = SN_NIL
  NULL = NULL
  NoEntry = NoEntry
  Trap = Trap
  Byte = {b0, b1}
  Zero = b0
  Behind = Behind
  PageSize = 4
  PatchLength = 3
  MaxBytes = 8
  x = x
  b0 = b0
  b1 = b1
CHECK_DEADLOCK FALSE
INVARIANTS
  TypeOK ReachableIsIntact PinnedStaysPut NoStaleRoot FreeFuncRunsOnce FreeFuncIsNotLost MajorReclaims
  IncludesAreAcyclic InstancesAreOfTheirClasses
  StacksHaveOneOwner ReturnsReachTheirCaller
  InBounds StoreGetsWhatWasAdded
PROPERTIES
  ImplementsObjectGraph ImplementsObjectModel ImplementsByteSequence
