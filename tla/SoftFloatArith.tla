--------------------------- MODULE SoftFloatArith ---------------------------
(***************************************************************************)
(* The arithmetic and the comparisons of SoftFloat (riscv-isa-sim/softfloat*)
(* in the tree): one definition for the functions of several formats that  *)
(* differ in their widths alone, and after these one for each function of  *)
(* the library.  The quotient and the square root, which the source        *)
(* estimates from a table and corrects, are the exact ones with a sticky   *)
(* bit: what the correction is to give.  The widths of the four formats are*)
(* parameters; only their order is used.                                   *)
(***************************************************************************)
EXTENDS SoftFloat

CONSTANTS F16, F32, F64, F128,
          Lo128   \* bits of the lower word of a 128-bit number

ASSUME FormatsGrow ==
  /\ \A F \in {F16, F32, F64, F128} : F.e \in Nat /\ F.s \in Nat /\ F.e >= 4 /\ F.s >= 2
  /\ \A p \in {<<F16, F32>>, <<F32, F64>>, <<F64, F128>>} :
        p[1].e < p[2].e /\ p[1].s + Guard(p[1]) <= p[2].s
  /\ Lo128 \in Nat /\ Lo128 < F128.s

(***************************************************************************)
(* Addition of magnitudes: the sign is that of a (s_addMagsF32.c and       *)
(* s_addMagsF64.c; the former packs an even sum without rounding it).      *)
(***************************************************************************)
AddMags(F, m, a, b) ==
  LET g     == Guard(F)
      diff  == Exp(F, a) - Exp(F, b)
      sign  == Sign(F, a)
      unit  == 2^(g - 1)
      same  == 2 * Hidden(F) + Frac(F, a) + Frac(F, b)
      small(x) == ShiftRightJam(Doubled(F, x) * unit, IF diff < 0 THEN -diff ELSE diff)
      sum   == IF diff < 0
                 THEN (Hidden(F) + Frac(F, b)) * unit + small(a)
                 ELSE (Hidden(F) + Frac(F, a)) * unit + small(b)
      expZ  == IF diff < 0 THEN Exp(F, b) ELSE Exp(F, a)
  IN  CASE IsNaN(F, a) \/ IsNaN(F, b) -> PropagateNaN(F, a, b)
        [] Special(F, a)              -> Result(a, {})
        [] Special(F, b)              -> Result(Infinity(F, sign), {})
        [] diff = 0 /\ Exp(F, a) = 0  -> Result(a + Frac(F, b), {})
        [] diff = 0 /\ Exp(F, a) # 0  ->
             RoundPack(F, m, sign, Exp(F, a), same * unit)
        [] OTHER ->
             IF sum < 2 * Hidden(F) * unit
               THEN RoundPack(F, m, sign, expZ - 1, 2 * sum)
               ELSE RoundPack(F, m, sign, expZ, sum)

(***************************************************************************)
(* Subtraction of magnitudes (s_subMagsF32.c, s_subMagsF64.c).             *)
(***************************************************************************)
CancelledZero(F, m) == Result(Zero(F, IF m = "min" THEN 1 ELSE 0), {})

\* Equal exponents: the difference is exact, only its exponent moves.
SubAligned(F, m, a, b) ==
  LET d     == Frac(F, a) - Frac(F, b)
      abs   == IF d < 0 THEN -d ELSE d
      sign  == IF d < 0 THEN 1 - Sign(F, a) ELSE Sign(F, a)
      exp   == IF Exp(F, a) = 0 THEN 0 ELSE Exp(F, a) - 1
      norm  == F.s + 1 - BitLength(abs)
      shift == IF exp < norm THEN exp ELSE norm
  IN  IF d = 0 THEN CancelledZero(F, m)
      ELSE Result(Pack(F, sign, exp - shift, abs * 2^shift), {})

SubMags(F, m, a, b) ==
  LET g     == Guard(F)
      diff  == Exp(F, a) - Exp(F, b)
      sign  == IF diff < 0 THEN 1 - Sign(F, a) ELSE Sign(F, a)
      big   == IF diff < 0 THEN b ELSE a
      small == IF diff < 0 THEN a ELSE b
      sig   == (Hidden(F) + Frac(F, big)) * 2^g
                 - ShiftRightJam(Doubled(F, small) * 2^g,
                                 IF diff < 0 THEN -diff ELSE diff)
  IN  CASE IsNaN(F, a) \/ IsNaN(F, b)     -> PropagateNaN(F, a, b)
        [] Special(F, a) /\ Special(F, b) -> Invalid(F)
        [] Special(F, a)                  -> Result(a, {})
        [] Special(F, b)                  -> Result(Infinity(F, sign), {})
        [] diff = 0                       -> SubAligned(F, m, a, b)
        [] OTHER -> NormRoundPack(F, m, sign, Exp(F, big) - 1, sig)

(***************************************************************************)
(* The 16-bit format adds in a word of twice its width, and replaces an    *)
(* operand too small to matter by an epsilon (s_addMagsF16.c).             *)
(***************************************************************************)
AddEpsilon(F, m, z) ==
  LET away == AwayFromZero(m, Sign(F, z))
      v    == CASE away      -> z + 1
                [] m = "odd" -> WithSticky(z, TRUE)
                [] OTHER     -> z
  IN  Result(v, {"inexact"} \cup
                (IF away /\ IsInf(F, v) THEN {"overflow"} ELSE {}))

SubEpsilon(F, m, z) ==
  LET v == CASE m = "minMag"                      -> z - 1
             [] AwayFromZero(m, 1 - Sign(F, z))   -> z - 1
             [] m = "odd"                         -> WithSticky(z - 1, TRUE)
             [] OTHER                             -> z
  IN  Result(v, {"inexact"})

\* The upper half of a double word, jammed; exact when no guard bit is left.
PackDouble(F, m, sign, exp, sigZZ) ==
  LET sig == ShiftRightJam(sigZZ, Width(F))
      g   == Guard(F)
  IN  IF sig % 2^g = 0 /\ exp >= 0 /\ exp < ExpMax(F) - 1
        THEN Result(Pack(F, sign, exp, sig \div 2^g), {})
        ELSE RoundPack(F, m, sign, exp, sig)

AddMags16(F, m, a, b) ==
  LET diff  == Exp(F, a) - Exp(F, b)
      sign  == Sign(F, a)
      top   == 2 * Width(F) - 3 - F.s
      big   == IF diff < 0 THEN b ELSE a
      small == IF diff < 0 THEN a ELSE b
      dist  == IF diff < 0 THEN -diff ELSE diff
      sum   == (Hidden(F) + Frac(F, big)) * 2^top + Doubled(F, small) * 2^(top - dist)
      self  == Pack(F, sign, Exp(F, big), Frac(F, big))
  IN  CASE IsNaN(F, a) \/ IsNaN(F, b) -> PropagateNaN(F, a, b)
        [] Special(F, a)              -> Result(a, {})
        [] Special(F, b)              -> Result(Infinity(F, sign), {})
        [] diff = 0 /\ Exp(F, a) = 0  -> Result(a + Frac(F, b), {})
        [] diff = 0 /\ Exp(F, a) # 0  ->
             RoundPack(F, m, sign, Exp(F, a),
                       (2 * Hidden(F) + Frac(F, a) + Frac(F, b)) * 2^(Guard(F) - 1))
        [] diff # 0 /\ dist >= F.s + 3 ->
             IF IsZero(F, small) THEN Result(self, {}) ELSE AddEpsilon(F, m, self)
        [] OTHER ->
             IF sum < 2^(2 * Width(F) - 2)
               THEN PackDouble(F, m, sign, Exp(F, big) - 1, 2 * sum)
               ELSE PackDouble(F, m, sign, Exp(F, big), sum)

\* (s_subMagsF16.c)
SubMags16(F, m, a, b) ==
  LET diff  == Exp(F, a) - Exp(F, b)
      sign  == IF diff < 0 THEN 1 - Sign(F, a) ELSE Sign(F, a)
      big   == IF diff < 0 THEN b ELSE a
      small == IF diff < 0 THEN a ELSE b
      dist  == IF diff < 0 THEN -diff ELSE diff
      sig   == (Hidden(F) + Frac(F, big)) * 2^dist - Doubled(F, small)
      shift == LeadingZeros(2 * Width(F), sig) - 1
      self  == Pack(F, sign, Exp(F, big), Frac(F, big))
  IN  CASE IsNaN(F, a) \/ IsNaN(F, b)     -> PropagateNaN(F, a, b)
        [] Special(F, a) /\ Special(F, b) -> Invalid(F)
        [] Special(F, a)                  -> Result(a, {})
        [] Special(F, b)                  -> Result(Infinity(F, sign), {})
        [] diff = 0                       -> SubAligned(F, m, a, b)
        [] diff # 0 /\ dist >= F.s + 3    ->
             IF IsZero(F, small) THEN Result(self, {}) ELSE SubEpsilon(F, m, self)
        [] OTHER ->
             PackDouble(F, m, sign,
                        Exp(F, small) + 2 * Width(F) - 3 - F.s - shift,
                        sig * 2^shift)

(***************************************************************************)
(* Multiplication and division (f16_mul.c, f16_div.c and so on).           *)
(***************************************************************************)
SignProduct(F, a, b) == IF Sign(F, a) = Sign(F, b) THEN 0 ELSE 1

\* What both do with operands whose product or quotient needs no rounding.
Mul(F, m, a, b) ==
  LET sign == SignProduct(F, a, b)
      A    == Normal(F, a)
      B    == Normal(F, b)
      g    == Guard(F)
      sig  == ShiftRightJam((A.sig * 2^g) * (B.sig * 2^(g + 1)), Width(F))
      exp  == A.exp + B.exp - Bias(F)
      inf  == Special(F, a) \/ Special(F, b)
      zero == IsZero(F, a) \/ IsZero(F, b)
  IN  CASE IsNaN(F, a) \/ IsNaN(F, b) -> PropagateNaN(F, a, b)
        [] inf /\ zero                -> Invalid(F)
        [] inf                        -> Result(Infinity(F, sign), {})
        [] zero                       -> Result(Zero(F, sign), {})
        [] OTHER ->
             IF sig < 2^(Width(F) - 2)
               THEN RoundPack(F, m, sign, exp - 1, 2 * sig)
               ELSE RoundPack(F, m, sign, exp, sig)

\* The special operands of a division; [] OTHER is the caller's finite case.
DivSpecial(F, a, b, finite) ==
  LET sign == SignProduct(F, a, b)
  IN  CASE IsNaN(F, a) \/ IsNaN(F, b)     -> PropagateNaN(F, a, b)
        [] Special(F, a) /\ Special(F, b) -> Invalid(F)
        [] Special(F, a)                  -> Result(Infinity(F, sign), {})
        [] Special(F, b)                  -> Result(Zero(F, sign), {})
        [] IsZero(F, a) /\ IsZero(F, b)   -> Invalid(F)
        [] IsZero(F, b)                   -> Result(Infinity(F, sign), {"infinite"})
        [] IsZero(F, a)                   -> Result(Zero(F, sign), {})
        [] OTHER                          -> finite

\* floor(n * 2^k / d), with a sticky bit in place of the remainder; a bit of
\* the quotient at a time, so that no shifted operand outgrows the word.
Quotient(n, k, d) ==
  LET step[i \in 0..k] ==
        IF i = 0 THEN [q |-> n \div d, r |-> n % d]
        ELSE LET p == step[i - 1]
             IN  [q |-> 2 * p.q + (2 * p.r) \div d, r |-> (2 * p.r) % d]
  IN  WithSticky(step[k].q, step[k].r # 0)

Div(F, m, a, b) ==
  LET A     == Normal(F, a)
      B     == Normal(F, b)
      exp   == A.exp - B.exp + Bias(F) - 1
      w     == Width(F)
  IN  DivSpecial(F, a, b,
        IF A.sig < B.sig
          THEN RoundPack(F, m, SignProduct(F, a, b), exp - 1,
                         Quotient(A.sig, w - 1, B.sig))
          ELSE RoundPack(F, m, SignProduct(F, a, b), exp,
                         Quotient(A.sig, w - 2, B.sig)))

(***************************************************************************)
(* Square root (f16_sqrt.c and so on).  An odd exponent doubles the        *)
(* significand.  The root has bits more bits than the significand.         *)
(***************************************************************************)

SqrtSpecial(F, a, finite) ==
  CASE IsNaN(F, a)                        -> PropagateNaN(F, a, 0)
    [] IsZero(F, a)                       -> Result(a, {})
    [] Sign(F, a) = 1                     -> Invalid(F)
    [] Special(F, a)                      -> Result(a, {})
    [] OTHER                              -> finite

Root(F, sig, exp, bits) ==
  LET n == sig * 2^(F.s + 2 * bits) * (IF exp % 2 = 0 THEN 2 ELSE 1)
      r == SquareRoot(n)
  IN  [root |-> r, exact |-> r * r = n]

Sqrt(F, m, a) ==
  LET A == Normal(F, a)
      g == Guard(F)
      r == Root(F, A.sig, A.exp, g)
  IN  SqrtSpecial(F, a,
        RoundPack(F, m, 0, (A.exp - Bias(F)) \div 2 + Bias(F) - 1,
                  WithSticky(r.root, ~r.exact)))

(***************************************************************************)
(* The IEEE remainder (f16_rem.c and so on): a minus the multiple of b     *)
(* nearest to it, the even one of two.  The source takes up to 30 bits of  *)
(* the quotient in a turn of its loop, the recursion below one.            *)
(***************************************************************************)

TakesOneMore(mean, odd) == mean > 0 \/ (mean = 0 /\ odd)

Remainder(A, B) ==
  LET diff == A.exp - B.exp
      step[i \in 0..diff] ==
        IF i = 0 THEN [r |-> A.sig % B.sig, odd |-> A.sig >= B.sig]
        ELSE LET p == 2 * step[i - 1].r
             IN  [r |-> p % B.sig, odd |-> p >= B.sig]
      last == IF diff = -1 THEN [r |-> A.sig, odd |-> FALSE] ELSE step[diff]
      d    == IF diff = -1 THEN 2 * B.sig ELSE B.sig
      mean == 2 * last.r - d
      back == TakesOneMore(mean, last.odd)
  IN  [neg |-> back, r |-> IF back THEN d - last.r ELSE last.r,
       exp |-> IF diff = -1 THEN A.exp ELSE B.exp]

Rem(F, m, a, b) ==
  LET A    == Normal(F, a)
      B    == Normal(F, b)
      rem  == Remainder(A, B)
      sign == IF rem.neg THEN 1 - Sign(F, a) ELSE Sign(F, a)
  IN  CASE IsNaN(F, a) \/ IsNaN(F, b) -> PropagateNaN(F, a, b)
        [] Special(F, a)              -> Invalid(F)
        [] Special(F, b)              -> Result(a, {})
        [] IsZero(F, b)               -> Invalid(F)
        [] IsZero(F, a)               -> Result(a, {})
        [] OTHER ->
             IF A.exp - B.exp < -1 THEN Result(a, {})
             ELSE NormRoundPack(F, m, sign, rem.exp, rem.r * 2^(Guard(F) - 1))

(***************************************************************************)
(* Rounding to an integer in the same format (f16_roundToInt.c and so on). *)
(***************************************************************************)
RoundToIntSmall(F, mode, exact, a) ==
  LET sign == Sign(F, a)
      one  == Pack(F, sign, Bias(F), 0)
      half == Exp(F, a) = Bias(F) - 1
      up   == CASE mode = "near_even"   -> half /\ Frac(F, a) # 0
                [] mode = "near_maxMag" -> half
                [] OTHER                -> AwayFromZero(mode, sign)
  IN  IF IsZero(F, a) THEN Result(a, {})
      ELSE Result(IF up THEN one ELSE Zero(F, sign),
                  IF exact THEN {"inexact"} ELSE {})

RoundToInt(F, a, mode, exact) ==
  LET exp   == Exp(F, a)
      last  == 2^(Bias(F) + F.s - exp)
      moved == CASE mode \in {"near_maxMag", "near_even"}  -> a + last \div 2
                 [] AwayFromZero(mode, Sign(F, a))         -> a + last - 1
                 [] OTHER                                  -> a
      kept  == moved - (moved % last)
      z     == IF mode = "near_even" /\ moved = kept
                 THEN kept - (IF (kept \div last) % 2 = 1 THEN last ELSE 0)
                 ELSE kept
  IN  CASE exp < Bias(F)        -> RoundToIntSmall(F, mode, exact, a)
        [] IsNaN(F, a)          -> PropagateNaN(F, a, 0)
        [] exp >= Bias(F) + F.s -> Result(a, {})
        [] OTHER -> Result(z, IF exact /\ z # a THEN {"inexact"} ELSE {})

-----------------------------------------------------------------------------
(* The multiply-add (s_mulAddF16.c, s_mulAddF32.c, s_mulAddF64.c,          *)
(* s_mulAddF128.c) and the arithmetic of the 128-bit format.               *)

Flags(r, fl) == Result(r.v, r.fl \cup fl)

\* The sign of the addend and of the product: op is 0, subC or subProd.
SignC(F, c, op) == IF op = "subC" THEN 1 - Sign(F, c) ELSE Sign(F, c)
SignP(F, a, b, op) ==
  IF op = "subProd" THEN 1 - SignProduct(F, a, b) ELSE SignProduct(F, a, b)

(***************************************************************************)
(* The operands that need no arithmetic, in the order of the source: an    *)
(* infinite product comes before a NaN addend, and infinity times zero is  *)
(* invalid whatever the addend.                                            *)
(***************************************************************************)
MulAddSpecial(F, m, a, b, c, op, finite) ==
  LET signP  == SignP(F, a, b, op)
      signC  == SignC(F, c, op)
      inf    == Special(F, a) \/ Special(F, b)
      zero   == IsZero(F, a) \/ IsZero(F, b)
      infP   == Infinity(F, signP)
  IN  CASE IsNaN(F, a) \/ IsNaN(F, b) ->
             Flags(PropagateNaN(F, DefaultNaN(F), c), PropagateNaN(F, a, b).fl)
        [] inf /\ zero -> Flags(PropagateNaN(F, DefaultNaN(F), c), {"invalid"})
        [] inf /\ IsNaN(F, c) -> PropagateNaN(F, infP, c)
        [] inf /\ Special(F, c) /\ signP # signC -> Invalid(F)
        [] inf -> Result(infP, {})
        [] IsNaN(F, c) -> PropagateNaN(F, 0, c)
        [] Special(F, c) -> Result(c, {})
        [] zero /\ IsZero(F, c) /\ signP # signC -> CancelledZero(F, m)
        [] zero -> Result(c, {})
        [] OTHER -> finite

\* The product in a double word, its leading bit in place 2 * Width - 3.
Product(F, a, b) ==
  LET A    == Normal(F, a)
      B    == Normal(F, b)
      g    == Guard(F)
      prod == (A.sig * 2^g) * (B.sig * 2^g)
      exp  == A.exp + B.exp - Bias(F) + 1
  IN  IF prod < 2^(2 * Width(F) - 3)
        THEN [exp |-> exp - 1, sig |-> 2 * prod]
        ELSE [exp |-> exp, sig |-> prod]

\* The addend in the word, aligned with the upper word of the product.
Addend(F, C) == C.sig * 2^(Guard(F) - 1)

\* The addend is zero: the product alone is rounded.
RoundProduct(F, m, sign, P) ==
  RoundPack(F, m, sign, P.exp - 1, ShiftRightJam(P.sig, Width(F) - 1))

\* The sum of equal signs, in a word.
RoundSum(F, m, sign, exp, sum) ==
  IF sum < 2^(Width(F) - 2) THEN RoundPack(F, m, sign, exp - 1, 2 * sum)
                            ELSE RoundPack(F, m, sign, exp, sum)

\* The difference of opposite signs, in a double word; sign is the one of a
\* positive difference.
RoundDifference(F, m, sign, exp, rest) ==
  LET w     == Width(F)
      abs   == IF rest < 0 THEN -rest ELSE rest
      shift == LeadingZeros(2 * w, abs) - 1
      sigZ  == IF shift < w THEN ShiftRightJam(abs, w - shift) ELSE abs * 2^(shift - w)
  IN  IF rest = 0 THEN CancelledZero(F, m)
      ELSE RoundPack(F, m, IF rest < 0 THEN 1 - sign ELSE sign, exp - shift, sigZ)

(***************************************************************************)
(* 16 and 32 bits: product and addend are added in the double word.        *)
(***************************************************************************)
FusedSum(F, m, sign, P, C) ==
  LET w    == Width(F)
      diff == P.exp - C.exp
  IN  IF diff <= 0
        THEN RoundSum(F, m, sign, C.exp, Addend(F, C) + ShiftRightJam(P.sig, w - diff))
        ELSE RoundSum(F, m, sign, P.exp,
               ShiftRightJam(P.sig + ShiftRightJam(Addend(F, C) * 2^w, diff), w))

FusedDifference(F, m, signP, signC, P, C) ==
  LET addend == Addend(F, C) * 2^Width(F)
      diff   == P.exp - C.exp
  IN  IF diff < 0
        THEN RoundDifference(F, m, signC, C.exp, addend - ShiftRightJam(P.sig, -diff))
        ELSE RoundDifference(F, m, signP, P.exp, P.sig - ShiftRightJam(addend, diff))

FusedFinite(F, m, signP, signC, P, C, zeroC) ==
  CASE zeroC                    -> RoundProduct(F, m, signP, P)
    [] ~zeroC /\ signP = signC  -> FusedSum(F, m, signP, P, C)
    [] OTHER                    -> FusedDifference(F, m, signP, signC, P, C)

MulAdd(F, m, a, b, c, op) ==
  MulAddSpecial(F, m, a, b, c, op,
    FusedFinite(F, m, SignP(F, a, b, op), SignC(F, c, op),
                Product(F, a, b), Normal(F, c), IsZero(F, c)))

(***************************************************************************)
(* 64 bits: a product far below the addend is shifted in its upper word    *)
(* alone, the lower word stays as the sticky bits.                         *)
(***************************************************************************)
UpperShifted(sig, word, dist) == ShiftRightJam(sig \div word, dist) * word + (sig % word)

FusedSum64(F, m, sign, P, C) ==
  LET w      == Width(F)
      diff   == P.exp - C.exp
      addend == Addend(F, C) * 2^w
  IN  IF diff < 0
        THEN RoundSum(F, m, sign, C.exp,
               ShiftRightJam(addend + UpperShifted(P.sig, 2^w, -diff), w))
        ELSE RoundSum(F, m, sign, P.exp,
               ShiftRightJam((IF diff > 0 THEN ShiftRightJam(addend, diff) ELSE addend)
                               + P.sig, w))

FusedDifference64(F, m, signP, signC, P, C) ==
  LET w      == Width(F)
      diff   == P.exp - C.exp
      addend == Addend(F, C) * 2^w
  IN  CASE diff < -1 -> RoundDifference(F, m, signC, C.exp,
                          addend - UpperShifted(P.sig, 2^w, -diff))
        [] diff = -1 -> RoundDifference(F, m, signC, C.exp, addend - ShiftRightJam(P.sig, 1))
        [] diff = 0  -> RoundDifference(F, m, signP, P.exp, P.sig - addend)
        [] diff > 0  -> RoundDifference(F, m, signP, P.exp,
                          P.sig - ShiftRightJam(addend, diff))

FusedFinite64(F, m, signP, signC, P, C, zeroC) ==
  CASE zeroC                    -> RoundProduct(F, m, signP, P)
    [] ~zeroC /\ signP = signC  -> FusedSum64(F, m, signP, P, C)
    [] OTHER                    -> FusedDifference64(F, m, signP, signC, P, C)

MulAdd64(F, m, a, b, c, op) ==
  MulAddSpecial(F, m, a, b, c, op,
    FusedFinite64(F, m, SignP(F, a, b, op), SignC(F, c, op),
                  Product(F, a, b), Normal(F, c), IsZero(F, c)))

(***************************************************************************)
(* 128 bits: two guard bits stand for the extra word.                      *)
(***************************************************************************)
RoundPack128(F, m, sign, exp, sig) == RoundPackG(F, 2, m, sign, exp, sig)

NormRoundPack128(F, m, sign, exp, sig) ==
  LET shift == F.s + 1 - BitLength(sig)
      expZ  == exp - shift
  IN  IF sig = 0 THEN Result(Zero(F, sign), {})
      ELSE IF shift < 0
        THEN RoundPack128(F, m, sign, expZ, ShiftRightJam(4 * sig, -shift))
      ELSE IF expZ >= 0 /\ expZ < ExpMax(F) - 2
        THEN Result(Pack(F, sign, expZ, sig * 2^shift), {})
        ELSE RoundPack128(F, m, sign, expZ, 4 * sig * 2^shift)

AddMags128(F, m, a, b) ==
  LET diff  == Exp(F, a) - Exp(F, b)
      sign  == Sign(F, a)
      big   == IF diff < 0 THEN b ELSE a
      small == IF diff < 0 THEN a ELSE b
      sum   == 4 * (Hidden(F) + Frac(F, big))
                 + ShiftRightJam(4 * Doubled(F, small), IF diff < 0 THEN -diff ELSE diff)
      same  == 4 * (2 * Hidden(F) + Frac(F, a) + Frac(F, b))
  IN  CASE IsNaN(F, a) \/ IsNaN(F, b) -> PropagateNaN(F, a, b)
        [] Special(F, a)              -> Result(a, {})
        [] Special(F, b)              -> Result(Infinity(F, sign), {})
        [] diff = 0 /\ Exp(F, a) = 0  ->
             Result(Pack(F, sign, 0, Frac(F, a) + Frac(F, b)), {})
        [] diff = 0 /\ Exp(F, a) # 0  ->
             RoundPack128(F, m, sign, Exp(F, a), ShiftRightJam(same, 1))
        [] OTHER ->
             IF sum < 8 * Hidden(F)
               THEN RoundPack128(F, m, sign, Exp(F, big) - 1, sum)
               ELSE RoundPack128(F, m, sign, Exp(F, big), ShiftRightJam(sum, 1))

SubMags128(F, m, a, b) ==
  LET diff  == Exp(F, a) - Exp(F, b)
      swap  == diff < 0 \/ (diff = 0 /\ Frac(F, a) < Frac(F, b))
      sign  == IF swap THEN 1 - Sign(F, a) ELSE Sign(F, a)
      big   == IF swap THEN b ELSE a
      small == IF swap THEN a ELSE b
      expZ  == IF Exp(F, big) = 0 THEN 1 ELSE Exp(F, big)
      apart == 16 * (Hidden(F) + Frac(F, big))
                 - ShiftRightJam(16 * Doubled(F, small), IF diff < 0 THEN -diff ELSE diff)
      sig   == IF diff = 0 THEN 16 * (Frac(F, big) - Frac(F, small)) ELSE apart
  IN  CASE IsNaN(F, a) \/ IsNaN(F, b)     -> PropagateNaN(F, a, b)
        [] Special(F, a) /\ Special(F, b) -> Invalid(F)
        [] Special(F, a)                  -> Result(a, {})
        [] Special(F, b)                  -> Result(Infinity(F, 1 - Sign(F, a)), {})
        [] OTHER -> IF sig = 0 THEN CancelledZero(F, m)
                    ELSE NormRoundPack128(F, m, sign, expZ - 5, sig)

Mul128(F, m, a, b) ==
  LET sign == SignProduct(F, a, b)
      A    == Normal(F, a)
      B    == Normal(F, b)
      sig  == ShiftRightJam(A.sig * B.sig, F.s - 2)
      exp  == A.exp + B.exp - Bias(F) - 1
      inf  == Special(F, a) \/ Special(F, b)
      zero == IsZero(F, a) \/ IsZero(F, b)
  IN  CASE IsNaN(F, a) \/ IsNaN(F, b) -> PropagateNaN(F, a, b)
        [] inf /\ zero                -> Invalid(F)
        [] inf                        -> Result(Infinity(F, sign), {})
        [] zero                       -> Result(Zero(F, sign), {})
        [] OTHER ->
             IF sig < 8 * Hidden(F)
               THEN RoundPack128(F, m, sign, exp, sig)
               ELSE RoundPack128(F, m, sign, exp + 1, ShiftRightJam(sig, 1))

Div128(F, m, a, b) ==
  LET A   == Normal(F, a)
      B   == Normal(F, b)
      exp == A.exp - B.exp + Bias(F) - 1
  IN  DivSpecial(F, a, b,
        IF A.sig < B.sig
          THEN RoundPack128(F, m, SignProduct(F, a, b), exp - 1,
                            Quotient(A.sig, F.s + 3, B.sig))
          ELSE RoundPack128(F, m, SignProduct(F, a, b), exp,
                            Quotient(A.sig, F.s + 2, B.sig)))

\* The half bit of the root is told by the remainder.
Sqrt128(F, m, a) ==
  LET A == Normal(F, a)
      n == A.sig * 2^F.s * (IF A.exp % 2 = 0 THEN 2 ELSE 1)
      r == SquareRoot(n)
      extra == (IF n - r * r > r THEN 2 ELSE 0) + (IF n # r * r THEN 1 ELSE 0)
  IN  SqrtSpecial(F, a,
        RoundPack128(F, m, 0, (A.exp - Bias(F)) \div 2 + Bias(F) - 1, 4 * r + extra))

Rem128(F, m, a, b) ==
  LET A    == Normal(F, a)
      B    == Normal(F, b)
      rem  == Remainder(A, B)
      sign == IF rem.neg THEN 1 - Sign(F, a) ELSE Sign(F, a)
  IN  CASE IsNaN(F, a) \/ IsNaN(F, b) -> PropagateNaN(F, a, b)
        [] Special(F, a)              -> Invalid(F)
        [] Special(F, b)              -> Result(a, {})
        [] IsZero(F, b)               -> Invalid(F)
        [] IsZero(F, a)               -> Result(a, {})
        [] OTHER ->
             IF A.exp - B.exp < -1 THEN Result(a, {})
             ELSE NormRoundPack128(F, m, sign, rem.exp - 1, rem.r)

(***************************************************************************)
(* The multiply-add of 128 bits.  The double word keeps Below zero bits    *)
(* under the product (23 in the source), which a shifted addend is jammed  *)
(* into; its upper half keeps Headroom bits below a significand (8 in the  *)
(* source), and a shift of that half leaves the lower one in place, as     *)
(* sticky bits.                                                            *)
(***************************************************************************)
Headroom == 3
Below    == 2

\* exp is the exponent of a leading bit in the product's place, less one.
Place(F, m, sign, exp, sig) ==
  LET n == BitLength(sig) - 1
      k == n - (F.s + 2)
  IN  RoundPack128(F, m, sign, exp - 1 + n - (2 * F.s + 1 + Below),
                   IF k < 0 THEN sig * 2^(-k) ELSE ShiftRightJam(sig, k))

\* The product and the addend in the double word, and how far apart.
Aligned(F, P, C) ==
  LET full == P.sig >= 2^(2 * F.s + 1)
      exp  == IF full THEN P.exp ELSE P.exp - 1
      sig  == P.sig * 2^Below
      low  == 2^(F.s + 1 + Below - Headroom)
      down == exp - C.exp + (IF full THEN 0 ELSE 1)
  IN  [exp    |-> exp,
       diff   |-> exp - C.exp,
       prod   |-> IF full THEN sig ELSE 2 * sig,
       addend |-> C.sig * 2^(F.s + 1 + Below),
       low    |-> low,
       lower  |-> sig % low,
       upper  |-> IF down < 0 THEN ShiftRightJam(sig \div low, -down) ELSE sig \div low]

\* Equal signs.
FusedSum128(F, m, sign, P, C) ==
  LET w   == Aligned(F, P, C)
      sum == CASE w.diff < 0 -> w.addend + w.upper * w.low + w.lower
               [] w.diff = 0 -> w.addend + w.prod
               [] w.diff > 0 -> w.prod + ShiftRightJam(w.addend, w.diff)
  IN  Place(F, m, sign, IF w.diff < 0 THEN C.exp ELSE w.exp, sum)

\* (a bug: the lower half's borrow is forgotten)
Borrow_None(w) == 0

Borrow(w) == IF w.lower # 0 THEN 1 ELSE 0

\* Opposite signs: far below the addend, the product's lower half takes one
\* from the upper and sticks.
FusedDifference128(F, m, signP, signC, P, C) ==
  LET w    == Aligned(F, P, C)
      lost == Borrow(w)
      far  == w.addend - (w.upper + lost) * w.low + lost
      rest == CASE w.diff = -1 -> w.addend - w.prod \div 2
                [] w.diff >= 0 -> w.prod - ShiftRightJam(w.addend, w.diff)
      signZ == IF w.diff < 0 THEN signC ELSE IF rest < 0 THEN 1 - signP ELSE signP
  IN  CASE w.diff < -1 -> Place(F, m, signC, C.exp, far)
        [] w.diff >= -1 /\ rest = 0 -> CancelledZero(F, m)
        [] OTHER -> Place(F, m, signZ, IF w.diff < 0 THEN C.exp ELSE w.exp,
                          IF rest < 0 THEN -rest ELSE rest)

MulAdd128(F, m, a, b, c, op) ==
  LET A     == Normal(F, a)
      B     == Normal(F, b)
      P     == [exp |-> A.exp + B.exp - Bias(F) + 1, sig |-> A.sig * B.sig]
      signP == SignP(F, a, b, op)
      signC == SignC(F, c, op)
  IN  MulAddSpecial(F, m, a, b, c, op,
        CASE IsZero(F, c) -> Place(F, m, signP, P.exp, P.sig * 2^Below)
          [] ~IsZero(F, c) /\ signP = signC ->
               FusedSum128(F, m, signP, P, Normal(F, c))
          [] OTHER -> FusedDifference128(F, m, signP, signC, P, Normal(F, c)))

(***************************************************************************)
(* Rounding to an integer, 128 bits: with more than lo fraction bits the   *)
(* lower word only rounds the upper one (f128_roundToInt.c).               *)
(***************************************************************************)
RoundToInt128(F, lo, a, mode, exact) ==
  LET exp   == Exp(F, a)
      word  == 2^lo
      hi    == a \div word
      last  == 2^(Bias(F) + F.s - lo - exp)
      lower == a % word # 0
      moved == CASE mode \in {"near_maxMag", "near_even"} -> hi + last \div 2
                 [] AwayFromZero(mode, Sign(F, a)) -> WithSticky(hi, lower) + last - 1
                 [] OTHER                          -> hi
      kept  == moved - (moved % last)
      even  == mode = "near_even" /\ moved = kept /\ ~lower
      z     == (IF even /\ (kept \div last) % 2 = 1 THEN kept - last ELSE kept) * word
  IN  CASE exp < Bias(F) -> RoundToIntSmall(F, mode, exact, a)
        [] exp >= Bias(F) + F.s - lo -> RoundToInt(F, a, mode, exact)
        [] OTHER -> Result(z, IF exact /\ z # a THEN {"inexact"} ELSE {})

----------------------------------------------------------------------------
(***************************************************************************)
(* Helpers named after a format.                                           *)
(***************************************************************************)
softfloat_addMagsF16(m, a, b)  == AddMags16(F16, m, a, b)
softfloat_addMagsF32(m, a, b)  == AddMags(F32, m, a, b)
softfloat_addMagsF64(m, a, b)  == AddMags(F64, m, a, b)
softfloat_addMagsF128(m, a, b) == AddMags128(F128, m, a, b)
softfloat_subMagsF16(m, a, b)  == SubMags16(F16, m, a, b)
softfloat_subMagsF32(m, a, b)  == SubMags(F32, m, a, b)
softfloat_subMagsF64(m, a, b)  == SubMags(F64, m, a, b)
softfloat_subMagsF128(m, a, b) == SubMags128(F128, m, a, b)

softfloat_mulAddF16(m, a, b, c, op)  == MulAdd(F16, m, a, b, c, op)
softfloat_mulAddF32(m, a, b, c, op)  == MulAdd(F32, m, a, b, c, op)
softfloat_mulAddF64(m, a, b, c, op)  == MulAdd64(F64, m, a, b, c, op)
softfloat_mulAddF128(m, a, b, c, op) == MulAdd128(F128, m, a, b, c, op)

(***************************************************************************)
(* Addition and subtraction.                                               *)
(***************************************************************************)
f16_add(a, b, m) ==
  IF Sign(F16, a) = Sign(F16, b) THEN softfloat_addMagsF16(m, a, b)
                                 ELSE softfloat_subMagsF16(m, a, b)
f32_add(a, b, m) ==
  IF Sign(F32, a) = Sign(F32, b) THEN softfloat_addMagsF32(m, a, b)
                                 ELSE softfloat_subMagsF32(m, a, b)
f64_add(a, b, m) ==
  IF Sign(F64, a) = Sign(F64, b) THEN softfloat_addMagsF64(m, a, b)
                                 ELSE softfloat_subMagsF64(m, a, b)
f128_add(a, b, m) ==
  IF Sign(F128, a) = Sign(F128, b) THEN softfloat_addMagsF128(m, a, b)
                                   ELSE softfloat_subMagsF128(m, a, b)

f16_sub(a, b, m) ==
  IF Sign(F16, a) = Sign(F16, b) THEN softfloat_subMagsF16(m, a, b)
                                 ELSE softfloat_addMagsF16(m, a, b)
f32_sub(a, b, m) ==
  IF Sign(F32, a) = Sign(F32, b) THEN softfloat_subMagsF32(m, a, b)
                                 ELSE softfloat_addMagsF32(m, a, b)
f64_sub(a, b, m) ==
  IF Sign(F64, a) = Sign(F64, b) THEN softfloat_subMagsF64(m, a, b)
                                 ELSE softfloat_addMagsF64(m, a, b)
f128_sub(a, b, m) ==
  IF Sign(F128, a) = Sign(F128, b) THEN softfloat_subMagsF128(m, a, b)
                                   ELSE softfloat_addMagsF128(m, a, b)

(***************************************************************************)
(* The other operations.                                                   *)
(***************************************************************************)
f16_mul(a, b, m)  == Mul(F16, m, a, b)
f32_mul(a, b, m)  == Mul(F32, m, a, b)
f64_mul(a, b, m)  == Mul(F64, m, a, b)
f128_mul(a, b, m) == Mul128(F128, m, a, b)

f16_div(a, b, m)  == Div(F16, m, a, b)
f32_div(a, b, m)  == Div(F32, m, a, b)
f64_div(a, b, m)  == Div(F64, m, a, b)
f128_div(a, b, m) == Div128(F128, m, a, b)

f16_rem(a, b, m)  == Rem(F16, m, a, b)
f32_rem(a, b, m)  == Rem(F32, m, a, b)
f64_rem(a, b, m)  == Rem(F64, m, a, b)
f128_rem(a, b, m) == Rem128(F128, m, a, b)

f16_sqrt(a, m)  == Sqrt(F16, m, a)
f32_sqrt(a, m)  == Sqrt(F32, m, a)
f64_sqrt(a, m)  == Sqrt(F64, m, a)
f128_sqrt(a, m) == Sqrt128(F128, m, a)

f16_mulAdd(a, b, c, m)  == softfloat_mulAddF16(m, a, b, c, "add")
f32_mulAdd(a, b, c, m)  == softfloat_mulAddF32(m, a, b, c, "add")
f64_mulAdd(a, b, c, m)  == softfloat_mulAddF64(m, a, b, c, "add")
f128_mulAdd(a, b, c, m) == softfloat_mulAddF128(m, a, b, c, "add")

f16_roundToInt(a, mode, exact)  == RoundToInt(F16, a, mode, exact)
f32_roundToInt(a, mode, exact)  == RoundToInt(F32, a, mode, exact)
f64_roundToInt(a, mode, exact)  == RoundToInt(F64, a, mode, exact)
f128_roundToInt(a, mode, exact) == RoundToInt128(F128, Lo128, a, mode, exact)

(***************************************************************************)
(* Comparisons.  A quiet one is invalid for signaling NaNs alone.          *)
(***************************************************************************)
Unordered(F, a, b) == IsNaN(F, a) \/ IsNaN(F, b)

Compared(F, a, b, quiet, ordered) ==
  IF Unordered(F, a, b)
    THEN Result(FALSE, IF quiet THEN PropagateNaN(F, a, b).fl ELSE {"invalid"})
    ELSE Result(ordered, {})

\* (a bug: zeros of unlike sign are unlike)
BothZero_Same(F, a, b) == a = b /\ IsZero(F, a)

BothZero(F, a, b) == IsZero(F, a) /\ IsZero(F, b)

Eq(F, a, b, quiet) == Compared(F, a, b, quiet, a = b \/ BothZero(F, a, b))

Le(F, a, b, quiet) ==
  Compared(F, a, b, quiet,
    IF Sign(F, a) # Sign(F, b) THEN Sign(F, a) = 1 \/ BothZero(F, a, b)
    ELSE a = b \/ ((Sign(F, a) = 1) # (a < b)))

Lt(F, a, b, quiet) ==
  Compared(F, a, b, quiet,
    IF Sign(F, a) # Sign(F, b) THEN Sign(F, a) = 1 /\ ~BothZero(F, a, b)
    ELSE a # b /\ ((Sign(F, a) = 1) # (a < b)))

f16_eq(a, b)  == Eq(F16, a, b, TRUE)
f32_eq(a, b)  == Eq(F32, a, b, TRUE)
f64_eq(a, b)  == Eq(F64, a, b, TRUE)
f128_eq(a, b) == Eq(F128, a, b, TRUE)
f16_eq_signaling(a, b)  == Eq(F16, a, b, FALSE)
f32_eq_signaling(a, b)  == Eq(F32, a, b, FALSE)
f64_eq_signaling(a, b)  == Eq(F64, a, b, FALSE)
f128_eq_signaling(a, b) == Eq(F128, a, b, FALSE)

f16_le(a, b)  == Le(F16, a, b, FALSE)
f32_le(a, b)  == Le(F32, a, b, FALSE)
f64_le(a, b)  == Le(F64, a, b, FALSE)
f128_le(a, b) == Le(F128, a, b, FALSE)
f16_le_quiet(a, b)  == Le(F16, a, b, TRUE)
f32_le_quiet(a, b)  == Le(F32, a, b, TRUE)
f64_le_quiet(a, b)  == Le(F64, a, b, TRUE)
f128_le_quiet(a, b) == Le(F128, a, b, TRUE)

f16_lt(a, b)  == Lt(F16, a, b, FALSE)
f32_lt(a, b)  == Lt(F32, a, b, FALSE)
f64_lt(a, b)  == Lt(F64, a, b, FALSE)
f128_lt(a, b) == Lt(F128, a, b, FALSE)
f16_lt_quiet(a, b)  == Lt(F16, a, b, TRUE)
f32_lt_quiet(a, b)  == Lt(F32, a, b, TRUE)
f64_lt_quiet(a, b)  == Lt(F64, a, b, TRUE)
f128_lt_quiet(a, b) == Lt(F128, a, b, TRUE)

f16_isSignalingNaN(a)  == IsSigNaN(F16, a)
f32_isSignalingNaN(a)  == IsSigNaN(F32, a)
f64_isSignalingNaN(a)  == IsSigNaN(F64, a)
f128_isSignalingNaN(a) == IsSigNaN(F128, a)

\* The number of the one bit that is set.
Classify(F, a) ==
  LET rank == CASE IsInf(F, a) -> 0
                [] ~Special(F, a) /\ Exp(F, a) # 0 -> 1
                [] Exp(F, a) = 0 /\ Frac(F, a) # 0 -> 2
                [] OTHER -> 3
  IN  CASE IsSigNaN(F, a)                     -> 8
        [] IsNaN(F, a) /\ ~IsSigNaN(F, a)     -> 9
        [] ~IsNaN(F, a) /\ Sign(F, a) = 1     -> rank
        [] OTHER                              -> 7 - rank

f16_classify(a)  == Classify(F16, a)
f32_classify(a)  == Classify(F32, a)
f64_classify(a)  == Classify(F64, a)
f128_classify(a) == Classify(F128, a)

\* The greater one; a NaN only for two of them (fall_maxmin.c).
Extremum(F, a, b, first, equal, signOf) ==
  IF IsNaN(F, a) /\ IsNaN(F, b) THEN Result(DefaultNaN(F), first.fl)
  ELSE Result(IF first.v \/ (equal.v /\ Sign(F, signOf) = 1) \/ IsNaN(F, b)
                THEN a ELSE b, first.fl)

FMax(F, a, b) == Extremum(F, a, b, Lt(F, b, a, TRUE), Eq(F, b, a, TRUE), b)
FMin(F, a, b) == Extremum(F, a, b, Lt(F, a, b, TRUE), Eq(F, a, b, TRUE), a)

f16_max(a, b) == FMax(F16, a, b)
f32_max(a, b) == FMax(F32, a, b)
f64_max(a, b) == FMax(F64, a, b)
f16_min(a, b) == FMin(F16, a, b)
f32_min(a, b) == FMin(F32, a, b)
f64_min(a, b) == FMin(F64, a, b)
=============================================================================
