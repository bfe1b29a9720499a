SPECIFICATION MCSpec
CONSTANTS
  Code <- MCCode
  MaxIsa <- MCIsa
  NPmp = 2
  NumTriggers = 2
  XBits = 8
  EpcBits = 7
  PaddrBits = 6
  PmpShift = 2
  LgGran = 2
  CauseLimit = 16
  PgShift = 3
  IdxBits = 1
  WidenBits = 1
  PteSize = 4
  TlbEntries = 2
  IcacheEntries = 2
  Bus <- MCBus
  DebugRegion <- MCDebugRegion
  PageTable <- MCPageTable
  DebugRomEntry = 0
  DebugRomTvec = 4
  ResetVector = 16
  Quantum = 2
  PsInt <- MCPsInt
  Lines <- MCLines
  HaltKinds <- MCHaltKinds
  MsipAt = 8
  MaxPasses = 5
  MemoryPasses = 4
  GuestPasses = 3
  DebugPasses = 4
CONSTRAINT Within
INVARIANTS TLBCurrent RetiredCounted StepsOnce SavedCsrsRestore
PROPERTY PrivilegeMoves
CHECK_DEADLOCK FALSE
