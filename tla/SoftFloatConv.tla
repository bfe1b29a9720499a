---------------------------- MODULE SoftFloatConv ----------------------------
(***************************************************************************)
(* The conversions of SoftFloat: between formats, from integers and to     *)
(* integers, and the estimates of reciprocals (riscv-isa-sim/softfloat),   *)
(* one definition for each function.                                       *)
(* An integer of n bits is its value; the widths of the integers and the   *)
(* guard bits of the rounding to 32 bits are parameters.                   *)
(***************************************************************************)
EXTENDS SoftFloatArith, Sequences

CONSTANTS I8, I16, I32, I64,   \* the widths of integers (8, 16, 32, 64)
          Frac32,              \* fraction bits that roundToI32 rounds (12)
          Up32, Up64, Up128    \* how far f*_to_i32 shifts first (32, 0 and 0)

\* A word holds what the formats shift into it.
ASSUME WidthsFit ==
  /\ I8 < I16 /\ I16 < I32 /\ I32 < I64
  /\ I32 >= 2^(F16.e - 1) + 1         \* f16_to_i32 shifts without a check
  /\ F16.s + 2 < I32 /\ F32.s + 2 < I64
  /\ F16.s + 2 <= Frac32
  /\ F32.s + Up32 >= I32 + Frac32 /\ F64.s + Up64 >= I32 + Frac32
  /\ F128.s - Lo128 > I32               \* the sticky bit stays below the point
  /\ I32 <= Width(F32) /\ I64 <= Width(F64) /\ I32 <= F64.s + 1 /\ I64 <= F128.s + 1
  /\ F128.s - Lo128 + Up128 >= I32 + Frac32 /\ I64 > F128.s - Lo128

(***************************************************************************)
(* Between formats (f16_to_f32.c, f64_to_f32.c and so on).                 *)
(***************************************************************************)
ConvertNaN(F, G, a) ==
  Result(DefaultNaN(G), IF IsSigNaN(F, a) THEN {"invalid"} ELSE {})

\* To a wider format: exact; a subnormal number becomes a normal one.
Widen(F, G, a) ==
  LET n   == NormSubnormal(F, Frac(F, a))
      sub == Exp(F, a) = 0
  IN  CASE IsNaN(F, a)  -> ConvertNaN(F, G, a)
        [] IsInf(F, a)  -> Result(Infinity(G, Sign(F, a)), {})
        [] IsZero(F, a) -> Result(Zero(G, Sign(F, a)), {})
        [] OTHER ->
             Result(Pack(G, Sign(F, a),
                         (IF sub THEN n.exp - 1 ELSE Exp(F, a)) + Bias(G) - Bias(F),
                         (IF sub THEN n.sig ELSE Frac(F, a)) * 2^(G.s - F.s)), {})

\* To a narrower format: the fraction is jammed into the guard bits.
Narrow(F, G, m, a) ==
  LET frac == ShiftRightJam(Frac(F, a), F.s - G.s - Guard(G))
      sign == Sign(F, a)
  IN  CASE IsNaN(F, a) -> ConvertNaN(F, G, a)
        [] IsInf(F, a) -> Result(Infinity(G, sign), {})
        [] OTHER ->
             IF Exp(F, a) = 0 /\ frac = 0 THEN Result(Zero(G, sign), {})
             ELSE RoundPack(G, m, sign, Exp(F, a) - Bias(F) + Bias(G) - 1,
                            frac + Hidden(G) * 2^Guard(G))

f16_to_f32(a)     == Widen(F16, F32, a)
f16_to_f64(a)     == Widen(F16, F64, a)
f16_to_f128(a)    == Widen(F16, F128, a)
f32_to_f64(a)     == Widen(F32, F64, a)
f32_to_f128(a)    == Widen(F32, F128, a)
f64_to_f128(a)    == Widen(F64, F128, a)
f32_to_f16(a, m)  == Narrow(F32, F16, m, a)
f64_to_f16(a, m)  == Narrow(F64, F16, m, a)
f64_to_f32(a, m)  == Narrow(F64, F32, m, a)
f128_to_f16(a, m) == Narrow(F128, F16, m, a)
f128_to_f32(a, m) == Narrow(F128, F32, m, a)
f128_to_f64(a, m) == Narrow(F128, F64, m, a)

(***************************************************************************)
(* From integers.                                                          *)
(***************************************************************************)
Magn(i)   == IF i < 0 THEN -i ELSE i
SignOf(i) == IF i < 0 THEN 1 ELSE 0

\* Every integer is exact in the format (i32_to_f64.c, i64_to_f128.c).
FromIntExact(F, i) ==
  LET shift == F.s + 1 - BitLength(Magn(i))
  IN  IF i = 0 THEN Result(0, {})
      ELSE Result(Pack(F, SignOf(i), Bias(F) + F.s - 1 - shift, Magn(i) * 2^shift), {})

\* One that fits the significand is packed, another one rounded
\* (i32_to_f16.c, i64_to_f32.c).
FromIntShift(F, m, i) ==
  LET shift == F.s + 1 - BitLength(Magn(i))
      down  == shift + Guard(F)
      sig   == IF down < 0 THEN ShiftRightJam(Magn(i), -down) ELSE Magn(i) * 2^down
  IN  IF shift >= 0 THEN FromIntExact(F, i)
      ELSE RoundPack(F, m, SignOf(i), Bias(F) + F.s + Guard(F) - 1 - down, sig)

\* The integer is as wide as the word of the format: normRoundPack has no room
\* for its top bit (i32_to_f32.c, ui64_to_f64.c).
FromIntWide(F, m, n, i) ==
  LET exp == Bias(F) + F.s + Guard(F) - 1
  IN  CASE i = -(2^(n - 1))        -> Result(Pack(F, 1, Bias(F) + n - 1, 0), {})
        [] i >= 2^(Width(F) - 1)   -> RoundPack(F, m, 0, exp + 1, ShiftRightJam(i, 1))
        [] OTHER                   -> NormRoundPack(F, m, SignOf(i), exp, Magn(i))

i32_to_f16(i, m)   == FromIntShift(F16, m, i)
i64_to_f16(i, m)   == FromIntShift(F16, m, i)
ui32_to_f16(i, m)  == FromIntShift(F16, m, i)
ui64_to_f16(i, m)  == FromIntShift(F16, m, i)
i32_to_f32(i, m)   == FromIntWide(F32, m, I32, i)
i64_to_f32(i, m)   == FromIntShift(F32, m, i)
ui32_to_f32(i, m)  == FromIntWide(F32, m, I32, i)
ui64_to_f32(i, m)  == FromIntShift(F32, m, i)
i32_to_f64(i)      == FromIntExact(F64, i)
i64_to_f64(i, m)   == FromIntWide(F64, m, I64, i)
ui32_to_f64(i)     == FromIntExact(F64, i)
ui64_to_f64(i, m)  == FromIntWide(F64, m, I64, i)
i32_to_f128(i)     == FromIntExact(F128, i)
i64_to_f128(i)     == FromIntExact(F128, i)
ui32_to_f128(i)    == FromIntExact(F128, i)
ui64_to_f128(i)    == FromIntExact(F128, i)

(***************************************************************************)
(* To integers.  An invalid conversion gives the nearest end of the range, *)
(* a NaN the upper one (specialize.h).                                     *)
(***************************************************************************)
Highest(n, signed) == (IF signed THEN 2^(n - 1) ELSE 2^n) - 1
Lowest(n, signed)  == IF signed THEN -(2^(n - 1)) ELSE 0

OutOfRange(n, signed, sign) ==
  Result(IF sign = 1 THEN Lowest(n, signed) ELSE Highest(n, signed), {"invalid"})

\* sig has g bits below the point, the last of them sticky (s_roundToI32.c,
\* s_roundToI64.c with its extra word as two bits, and the unsigned ones).
RoundToInteger(n, g, signed, m, exact, sign, sig) ==
  LET half == 2^(g - 1)
      bits == sig % 2^g
      up   == (sig + RoundIncrement(m, sign, half)) \div 2^g
      z    == IF bits = half /\ m = "near_even" THEN 2 * (up \div 2) ELSE up
      fits == IF sign = 1 THEN z <= -Lowest(n, signed) ELSE z <= Highest(n, signed)
  IN  IF up >= 2^n \/ ~fits THEN OutOfRange(n, signed, sign)
      ELSE Result(IF sign = 1 THEN -z ELSE z,
                  IF exact /\ bits # 0 THEN {"inexact"} ELSE {})

softfloat_roundToI32(sign, sig, m, exact)  == RoundToInteger(I32, Frac32, TRUE, m, exact, sign, sig)
softfloat_roundToUI32(sign, sig, m, exact) == RoundToInteger(I32, Frac32, FALSE, m, exact, sign, sig)
softfloat_roundToI64(sign, sig, m, exact)  == RoundToInteger(I64, 2, TRUE, m, exact, sign, sig)
softfloat_roundToUI64(sign, sig, m, exact) == RoundToInteger(I64, 2, FALSE, m, exact, sign, sig)

RoundTo32(signed, sign, sig, m, exact) ==
  IF signed THEN softfloat_roundToI32(sign, sig, m, exact)
            ELSE softfloat_roundToUI32(sign, sig, m, exact)
RoundTo64(signed, sign, sig, m, exact) ==
  IF signed THEN softfloat_roundToI64(sign, sig, m, exact)
            ELSE softfloat_roundToUI64(sign, sig, m, exact)

\* The significand, with its hidden bit if it is not subnormal.
Sig(F, a) == Frac(F, a) + (IF Exp(F, a) = 0 THEN 0 ELSE Hidden(F))

\* 16 bits: n is the width of the result, which only a special operand and a
\* whole number meet; the rest rounds as for 32 bits.
F16ToInt(n, signed, m, exact, a) ==
  LET exp   == Exp(F16, a)
      sign  == Sign(F16, a)
      whole == exp - (Bias(F16) + F16.s)
      shift == whole + Frac32
      abs   == Sig(F16, a) * 2^whole
  IN  CASE Special(F16, a) ->
             OutOfRange(n, signed, IF IsNaN(F16, a) THEN 0 ELSE sign)
        [] exp # 0 /\ whole >= 0 /\ (signed \/ sign = 0) ->
             Result(IF sign = 1 THEN -abs ELSE abs, {})
        [] OTHER ->
             RoundTo32(signed, sign,
                       Sig(F16, a) * (IF exp # 0 /\ shift > 0 THEN 2^shift ELSE 1), m, exact)

\* To 32 bits: up is how far the significand is shifted first; it has all its
\* bits in a format of two words, the lower one only sticks.
ToInt32(F, up, lo, signed, m, exact, a) ==
  LET sign  == IF IsNaN(F, a) THEN 0 ELSE Sign(F, a)
      sig   == ShiftRightJam(Sig(F, a), lo) * 2^up
      shift == Bias(F) + F.s - lo + up - Frac32 - Exp(F, a)
  IN  RoundTo32(signed, sign, IF shift > 0 THEN ShiftRightJam(sig, shift) ELSE sig, m, exact)

\* To 64 bits: half and sticky bit of what is shifted out.
ToInt64(F, signed, m, exact, a) ==
  LET shift == Bias(F) + F.s - Exp(F, a)
      over  == Exp(F, a) > Bias(F) + I64 - 1
      sign  == IF over /\ IsNaN(F, a) THEN 0 ELSE Sign(F, a)
      sig   == 4 * Sig(F, a)
  IN  IF over THEN OutOfRange(I64, signed, sign)
      ELSE RoundTo64(signed, sign,
                     IF shift > 0 THEN ShiftRightJam(sig, shift) ELSE sig * 2^(-shift), m, exact)

f16_to_i32(a, m, exact)   == F16ToInt(I32, TRUE, m, exact, a)
f16_to_ui32(a, m, exact)  == F16ToInt(I32, FALSE, m, exact, a)
f16_to_i64(a, m, exact)   == F16ToInt(I64, TRUE, m, exact, a)
f16_to_ui64(a, m, exact)  == F16ToInt(I64, FALSE, m, exact, a)
f32_to_i32(a, m, exact)   == ToInt32(F32, Up32, 0, TRUE, m, exact, a)
f32_to_ui32(a, m, exact)  == ToInt32(F32, Up32, 0, FALSE, m, exact, a)
f64_to_i32(a, m, exact)   == ToInt32(F64, Up64, 0, TRUE, m, exact, a)
f64_to_ui32(a, m, exact)  == ToInt32(F64, Up64, 0, FALSE, m, exact, a)
f128_to_i32(a, m, exact)  == ToInt32(F128, Up128, Lo128, TRUE, m, exact, a)
f128_to_ui32(a, m, exact) == ToInt32(F128, Up128, Lo128, FALSE, m, exact, a)
f32_to_i64(a, m, exact)   == ToInt64(F32, TRUE, m, exact, a)
f32_to_ui64(a, m, exact)  == ToInt64(F32, FALSE, m, exact, a)
f64_to_i64(a, m, exact)   == ToInt64(F64, TRUE, m, exact, a)
f64_to_ui64(a, m, exact)  == ToInt64(F64, FALSE, m, exact, a)
f128_to_i64(a, m, exact)  == ToInt64(F128, TRUE, m, exact, a)
f128_to_ui64(a, m, exact) == ToInt64(F128, FALSE, m, exact, a)

\* To fewer bits, through 32: out of range drops the flags of the detour.
Narrowed(n, signed, r) ==
  CASE r.v > Highest(n, signed) -> OutOfRange(n, signed, 0)
    [] r.v < Lowest(n, signed)  -> OutOfRange(n, signed, 1)
    [] OTHER                    -> r

f16_to_i8(a, m, exact)   == Narrowed(I8, TRUE, f16_to_i32(a, m, exact))
f16_to_ui8(a, m, exact)  == Narrowed(I8, FALSE, f16_to_ui32(a, m, exact))
f16_to_i16(a, m, exact)  == Narrowed(I16, TRUE, f16_to_i32(a, m, exact))
f16_to_ui16(a, m, exact) == Narrowed(I16, FALSE, f16_to_ui32(a, m, exact))
f32_to_i16(a, m, exact)  == Narrowed(I16, TRUE, f32_to_i32(a, m, exact))
f32_to_ui16(a, m, exact) == Narrowed(I16, FALSE, f32_to_ui32(a, m, exact))

(***************************************************************************)
(* Truncation (the _r_minMag functions).                                   *)
(***************************************************************************)
Truncated(F, n, signed, exact, a) ==
  LET exp   == Exp(F, a)
      shift == Bias(F) + F.s - exp
      sign  == Sign(F, a)
      last  == n - 1 - (IF signed THEN 1 ELSE 0)
      unit  == 2^shift
      lost  == shift > 0 /\ Sig(F, a) % unit # 0
      abs   == IF shift > 0 THEN Sig(F, a) \div unit ELSE Sig(F, a) * 2^(-shift)
      inexact(b) == IF exact /\ b THEN {"inexact"} ELSE {}
  IN  CASE exp < Bias(F) -> Result(0, inexact(~IsZero(F, a)))
        [] exp >= Bias(F) /\ ~signed /\ sign = 1 ->
             OutOfRange(n, signed, IF IsNaN(F, a) THEN 0 ELSE 1)
        [] signed /\ sign = 1 /\ ~Special(F, a) /\ exp - Bias(F) = n - 1
             /\ abs = 2^(n - 1) -> Result(-abs, inexact(lost))
        [] OTHER ->
             IF Special(F, a) \/ exp - Bias(F) > last
               THEN OutOfRange(n, signed, IF IsNaN(F, a) THEN 0 ELSE sign)
               ELSE Result(IF sign = 1 THEN -abs ELSE abs, inexact(lost))

f16_to_i32_r_minMag(a, exact)   == Truncated(F16, I32, TRUE, exact, a)
f16_to_ui32_r_minMag(a, exact)  == Truncated(F16, I32, FALSE, exact, a)
f16_to_i64_r_minMag(a, exact)   == Truncated(F16, I64, TRUE, exact, a)
f16_to_ui64_r_minMag(a, exact)  == Truncated(F16, I64, FALSE, exact, a)
f32_to_i32_r_minMag(a, exact)   == Truncated(F32, I32, TRUE, exact, a)
f32_to_ui32_r_minMag(a, exact)  == Truncated(F32, I32, FALSE, exact, a)
f32_to_i64_r_minMag(a, exact)   == Truncated(F32, I64, TRUE, exact, a)
f32_to_ui64_r_minMag(a, exact)  == Truncated(F32, I64, FALSE, exact, a)
f64_to_i32_r_minMag(a, exact)   == Truncated(F64, I32, TRUE, exact, a)
f64_to_ui32_r_minMag(a, exact)  == Truncated(F64, I32, FALSE, exact, a)
f64_to_i64_r_minMag(a, exact)   == Truncated(F64, I64, TRUE, exact, a)
f64_to_ui64_r_minMag(a, exact)  == Truncated(F64, I64, FALSE, exact, a)
f128_to_i32_r_minMag(a, exact)  == Truncated(F128, I32, TRUE, exact, a)
f128_to_ui32_r_minMag(a, exact) == Truncated(F128, I32, FALSE, exact, a)
f128_to_i64_r_minMag(a, exact)  == Truncated(F128, I64, TRUE, exact, a)
f128_to_ui64_r_minMag(a, exact) == Truncated(F128, I64, FALSE, exact, a)

(***************************************************************************)
(* The 7-bit estimates of 1/x and 1/sqrt(x) (fall_reciprocal.c), which the *)
(* vector unit uses.  The tables are those of the source; a format needs   *)
(* at least 7 bits of fraction.                                            *)
(***************************************************************************)
\* What *_classify returns, without its bits.
ClassOf(F, a) ==
  CASE IsSigNaN(F, a)      -> "sNaN"
    [] IsNaN(F, a)         -> "qNaN"
    [] IsInf(F, a)         -> "inf"
    [] IsZero(F, a)        -> "zero"
    [] Exp(F, a) = 0       -> "subnormal"
    [] OTHER               -> "normal"

\* A subnormal fraction is shifted until its leading bit leaves the word; the
\* exponent counts the shifts down from 0.
Shifted(F, a) ==
  LET k == F.s - BitLength(Frac(F, a))
  IN  IF Exp(F, a) = 0
        THEN [exp |-> -k, sig |-> (Frac(F, a) * 2^(k + 1)) % 2^F.s]
        ELSE [exp |-> Exp(F, a), sig |-> Frac(F, a)]

rsqrte7Table == <<
  52, 51, 50, 48, 47, 46, 44, 43, 42, 41, 40, 39, 38, 36, 35, 34,
  33, 32, 31, 30, 30, 29, 28, 27, 26, 25, 24, 23, 23, 22, 21, 20,
  19, 19, 18, 17, 16, 16, 15, 14, 14, 13, 12, 12, 11, 10, 10, 9,
  9, 8, 7, 7, 6, 6, 5, 4, 4, 3, 3, 2, 2, 1, 1, 0,
  127, 125, 123, 121, 119, 118, 116, 114, 113, 111, 109, 108, 106, 105, 103, 102,
  100, 99, 97, 96, 95, 93, 92, 91, 90, 88, 87, 86, 85, 84, 83, 82,
  80, 79, 78, 77, 76, 75, 74, 73, 72, 71, 70, 70, 69, 68, 67, 66,
  65, 64, 63, 63, 62, 61, 60, 59, 59, 58, 57, 56, 56, 55, 54, 53 >>

\* The exponent is halved, so its parity takes part in the index.
rsqrte7(F, a) ==
  LET n     == Shifted(F, a)
      index == (n.exp % 2) * 64 + n.sig \div 2^(F.s - 6)
      exp   == (3 * Bias(F) - 1 - n.exp) \div 2
  IN  Pack(F, Sign(F, a), exp, rsqrte7Table[index + 1] * 2^(F.s - 7))

recip7Table == <<
  127, 125, 123, 121, 119, 117, 116, 114, 112, 110, 109, 107, 105, 104, 102, 100,
  99, 97, 96, 94, 93, 91, 90, 88, 87, 85, 84, 83, 81, 80, 79, 77,
  76, 75, 74, 72, 71, 70, 69, 68, 66, 65, 64, 63, 62, 61, 60, 59,
  58, 57, 56, 55, 54, 53, 52, 51, 50, 49, 48, 47, 46, 45, 44, 43,
  42, 41, 40, 40, 39, 38, 37, 36, 35, 35, 34, 33, 32, 31, 31, 30,
  29, 28, 28, 27, 26, 25, 25, 24, 23, 23, 22, 21, 21, 20, 19, 19,
  18, 17, 17, 16, 15, 15, 14, 14, 13, 12, 12, 11, 11, 10, 9, 9,
  8, 8, 7, 7, 6, 5, 5, 4, 4, 3, 3, 2, 2, 1, 1, 0 >>

\* The reciprocal of a number below half the smallest normal one overflows;
\* one that falls below the normal numbers is a shifted fraction.
recip7(F, m, a) ==
  LET n     == Shifted(F, a)
      sign  == Sign(F, a)
      lower == \/ m = "minMag"
               \/ m = "min" /\ sign = 0
               \/ m = "max" /\ sign = 1
      sig   == recip7Table[n.sig \div 2^(F.s - 7) + 1] * 2^(F.s - 7)
      exp   == 2 * Bias(F) - 1 - n.exp
      sub   == (sig + Hidden(F)) \div 2
  IN  IF n.exp < -1
        THEN Result(Infinity(F, sign) - (IF lower THEN 1 ELSE 0), {"inexact", "overflow"})
        ELSE Result(CASE exp = 0  -> Pack(F, sign, 0, sub)
                      [] exp = -1 -> Pack(F, sign, 0, sub \div 2)
                      [] OTHER    -> Pack(F, sign, exp, sig), {})

Rsqrte(F, a) ==
  CASE ClassOf(F, a) = "sNaN" -> Invalid(F)
    [] ClassOf(F, a) = "qNaN" -> Result(DefaultNaN(F), {})
    [] ClassOf(F, a) = "zero" -> Result(Infinity(F, Sign(F, a)), {"infinite"})
    [] ClassOf(F, a) \notin {"sNaN", "qNaN", "zero"} /\ Sign(F, a) = 1 -> Invalid(F)
    [] ClassOf(F, a) = "inf" /\ Sign(F, a) = 0 -> Result(0, {})
    [] OTHER -> Result(rsqrte7(F, a), {})

Recip(F, m, a) ==
  CASE ClassOf(F, a) = "sNaN" -> Invalid(F)
    [] ClassOf(F, a) = "qNaN" -> Result(DefaultNaN(F), {})
    [] ClassOf(F, a) = "zero" -> Result(Infinity(F, Sign(F, a)), {"infinite"})
    [] ClassOf(F, a) = "inf"  -> Result(Zero(F, Sign(F, a)), {})
    [] OTHER -> recip7(F, m, a)

f16_rsqrte7(a)   == Rsqrte(F16, a)
f32_rsqrte7(a)   == Rsqrte(F32, a)
f64_rsqrte7(a)   == Rsqrte(F64, a)
f16_recip7(a, m) == Recip(F16, m, a)
f32_recip7(a, m) == Recip(F32, m, a)
f64_recip7(a, m) == Recip(F64, m, a)
=============================================================================
