CONSTANTS
  t1 = t1
  t2 = t2
  t3 = t3
  Null = Null
  Threads <- MCThreads
  NoOwner = NoOwner
  Cancellable = {}
  SeqMod = 2
  MaxReaders = 1
  SemValueMax = 1
  Initial = 0
  Targets = {1}
  MaxArrivals = 0
  MaxItems = 0
  None = None
  MaxFires = 2
  out = out
  file = file
  MaxDepth = 1
  MaxOpens = 2
SPECIFICATION FairSpec
PROPERTIES WaitsEnd CallsReturn
CHECK_DEADLOCK FALSE
