SPECIFICATION PCSpec
CHECK_DEADLOCK FALSE
CONSTANTS
  a = a
  b = b
  ok = ok
  bad = bad
  f1 = f1
  f2 = f2
  x = x
  None = None
  Normal = ok
  Codes <- PCCodes
  Clients <- PCTwo
  Procs <- PCProcs
  Counters <- PCOne
  NumMax = 3
  Files <- PCTwoFiles
  Points <- PCOnePoint
  Calls <- PCAll
  Iters <- PCIters
  MaxStores = 3
INVARIANTS
  StatesKept
  CoverageKept
PROPERTIES
  IsDispenser
  LogGrows
