SPECIFICATION Spec
CONSTANTS
  ByteBits = 2
  VLENB = 4
  ELEN = 4
  NVPR = 8
  PageBytes = 8
  MaxSetVl = 2
  Draws = 10
  FloatWidths = {2, 4}
  Settings <- MCSettings
  Loaded <- MCLoaded
  FloatOp <- MCFloatOp
  ExpBits <- MCExpBits
  Pairs <- MCPairs
  SharedInsns <- MCSharedInsns
  INTERLEAVE = 3
  MaxShared = 7
INVARIANTS
  TypeCurrent
  ElementsExact
  RestartExact
  InstructionsExact
PROPERTY
  ScAtomic
CHECK_DEADLOCK FALSE
