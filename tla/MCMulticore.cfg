SPECIFICATION FewFiles
CHECK_DEADLOCK FALSE
CONSTANTS
  ok = ok
  bad = bad
  None = None
  Normal = ok
  Codes <- MCCodes
  Clients <- MCClients
  Procs <- MCProcs
  Counters <- MCBoth
  NumMax = 5
  Files <- MCEmpty
  Points <- MCEmpty
  Cores = 3
  Forks = 4
  MaxIters = 1
  MaxKills = 1
INVARIANTS
  NothingShared
  NoOrphans
PROPERTY MulticoreEnds
