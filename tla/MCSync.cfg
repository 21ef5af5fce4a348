CONSTANTS
  t1 = t1
  t2 = t2
  t3 = t3
  here = here
  there = there
  i1 = i1
  i2 = i2
  Threads <- MCThreads
  NoOwner = NoOwner
  Cancellable <- OnlyT1
  SeqMod = 2
  MaxReaders = 2
  SemValueMax = 2
  MaxItems = 1
  MaxDepth = 2
  Initial = 0
  Targets = {1, 2, 3}
  MaxArrivals = 7
  None = None
  Procs <- MCProcs
  ProcOf <- MCProcOf
  Inodes <- MCInodes
  Files <- MCFiles
  StdSeq <- MCStdSeq
  MaxHandles = 2
  Bytes = {1, 2}
  Newline = 2
  BufSize = 2
  Unget = 1
  LineBuffered = TRUE
  AppendMode = FALSE
  MaxLen = 4
  out = out
  f1 = f1
  f2 = f2
  MaxOpens = 3
SYMMETRY Symmetric
SPECIFICATION MCSpec
INVARIANTS NoForgottenWaiter WriterAlone StreamLocks
PROPERTIES MutexComesBack NoEarlyReturn NamesTrue StreamsTrue
CHECK_DEADLOCK FALSE
