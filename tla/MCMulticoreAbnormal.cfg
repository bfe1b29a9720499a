SPECIFICATION MulticoreSpec
CHECK_DEADLOCK FALSE
CONSTANTS
  ok = ok
  bad = bad
  None = None
  Normal = ok
  Codes <- MCCodes
  Clients <- MCClients
  Procs <- MCProcs
  Counters <- MCBoth
  NumMax = 1
  Files <- MCEmpty
  Points <- MCEmpty
  Cores = 1
  Forks = 2
  MaxIters = 1
  MaxKills = 0
INVARIANT AbnormalStops
