CONSTANTS
  WordSize = 8
  EntryPoint <- MCEntryPoint
  required_rti_cycles = 2
  buf_size = 24
  Kinds <- MCKinds
  Configs <- MCConfigs
  Memory <- MCMemory
  Tasks <- MCTasks
  MaxTasks = 2
  Commands <- MCCommands
  Controls <- MCControls
  Programs <- MCPrograms
  Limits <- MCLimits
  Streams <- MCStreams
  Sessions <- MCSessions
SPECIFICATION Spec
INVARIANT HartsAccounted
INVARIANT RegistersReturned
INVARIANT AccessesExact
PROPERTY CommandsExact
PROPERTY OperationsEnd
CHECK_DEADLOCK FALSE
