CONSTANTS
  libS = libS
  libA = libA
  libB = libB
  libC = libC
  libD = libD
  t1 = t1
  t2 = t2
  t3 = t3
  Null = Null
  None = None
  Objs = {libS, libA, libB, libC, libD}
  Startup = {libS}
  Tls = {}
  Pinnable = {libA, libD}
  Deps <- MCDeps
  Imports <- MCImports
  Nested = {"ctor_open", "ctor_close"}
  MaxOpens = 2
  MaxDepth = 2
  Cap = 2
  MaxBlocks = 3
  MaxExitFns = 4
  NestedInLibrary = FALSE
  CloseDuringExit = FALSE
  NPools = 2
  MaxAtfork = 2
  MaxForks = 2
  MaxLevel = 3
  MaxFires = 3
  MaxProcs = 2
  MaxCalls = 3
  Systems = {"dl", "exit", "fork", "timer", "life", "joins", "spawn"}
SPECIFICATION ProcessSpec
INVARIANTS MappedWhileNeeded DependenciesUp HandlersRunOnce ChildUsable TimerCalls
           MappingLifetime ThreadsListed  CommandsTrue
PROPERTY HandlerOrder
CHECK_DEADLOCK FALSE
