SPECIFICATION LanguageSpec
CONSTANTS
  Thread = {t1, t2, t3}
  Name = {n1, n2, n3}
  None = None
  Initialized = TRUE
  Names = {It, x, y}
  Values = {v, w}
  Objects = {o1}
  Parameters <- ParameterLists
  ArgumentLists <- Lists
  Assigned = {w}
  It = It
  First = x
  Class = Class
  Nil = Nil
  Null = Null
  Unwritten = Unwritten
  Member = Member
  Missing = Missing
  Trap = Trap
  Unset = Unset
  NotGiven = NotGiven
  TopLevelIt = FALSE
  ContextPrograms <- WideAndDeep
  Exception = {e1, e2}
  Many = Many
  NoException = NoException
  MaxDepth = 3
  MaxTasks = 2
  TryPrograms <- TriesToCheck
  FileName <- FileNames
  Cwd = "cwd"
  Root = "/"
  LibDir = "lib"
  OtherDirs = {"more"}
  Main = Main
  NoFile = NoFile
  FileSystems <- SmallFileSystems
  MaxRequires = 5
  MaxLoading = 3
  x = x
  y = y
  v = v
  w = w
  o1 = o1
CHECK_DEADLOCK FALSE
INVARIANTS
  SymbolsAreUnique SymbolsKeepTheirNames
  ContextsTypeOK ReferencesNameTheirVariable
  ExceptionsTypeOK HandlersMatchFrames
  CompiledCodeMeansItsText
  ClosuresGetElements ResultsFollowTheAnswers
  FilesLoadOnce NamesMeanOneFile
PROPERTIES
  ImplementsLexicalScope ImplementsTryCatchEnsure ThrowsUnwind
