SPECIFICATION LoopSpec
CHECK_DEADLOCK FALSE
CONSTANTS
  NumWords = 1
  MaxWords = 3
  MaxSeeds = 2
  MaxCorpus = 2
  NoGuide = FALSE
  Runs = {1, 2}
  Transitions = {x, y}
INVARIANTS
  KeptRan
  WellFormed
  SeedsKnown
PROPERTY CallReturns
