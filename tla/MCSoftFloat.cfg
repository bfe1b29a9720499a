CONSTANTS
  F16 <- MCF16
  F32 <- MCF32
  F64 <- MCF64
  F128 <- MCF128
  Lo128 = 2
  I8 = 4
  I16 = 6
  I32 = 10
  I64 = 15
  Frac32 = 4
  Up32 = 10
  Up64 = 6
  Up128 = 3

SPECIFICATION Spec
INVARIANTS
  RoundedOnce
  ValuesOrdered
CHECK_DEADLOCK FALSE
