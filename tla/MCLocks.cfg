CONSTANTS
  t1 = t1
  t2 = t2
  t3 = t3
  Threads <- MCThreads
  NoOwner = NoOwner
  MaxCount = 2
  c1 = c1
  c2 = c2
  cb1 = cb1
  cb2 = cb2
  fd1 = fd1
  MaxReqs = 2
  MaxGroups = 1
SPECIFICATION LocksSpec
INVARIANT IInv
PROPERTIES ImplementsLock InternalLockTrue RequestsTrue Completes
CHECK_DEADLOCK FALSE
