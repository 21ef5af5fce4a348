CONSTANTS
  t1 = t1
  t2 = t2
  t3 = t3
  here = here
  there = there
  i1 = i1
  i2 = i2
  Threads <- Pair
  NoOwner = NoOwner
  Cancellable <- OnlyT1
  SeqMod = 3
  MaxReaders = 1
  SemValueMax = 1
  MaxItems = 2
  MaxDepth = 2
  Initial = 0
  Targets = {1}
  MaxArrivals = 0
  None = None
  Procs <- MCProcs
  ProcOf <- MCProcOf
  Inodes <- MCInodes
  Files <- MCFiles
  StdSeq <- MCStdSeq
  MaxHandles = 1
  Bytes = {1}
  Newline = 2
  BufSize = 1
  Unget = 1
  LineBuffered = TRUE
  AppendMode = FALSE
  MaxLen = 0
  out = out
  f1 = f1
  f2 = f2
  MaxOpens = 0
SPECIFICATION CondSpec
PROPERTY CancelEndsWait
CHECK_DEADLOCK FALSE
