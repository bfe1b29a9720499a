----------------------------- MODULE SoftFloat -----------------------------
(***************************************************************************)
(* Berkeley SoftFloat as the simulator builds it (riscv-isa-sim/softfloat, *)
(* RISC-V specialization, SOFTFLOAT_FAST_INT64, SOFTFLOAT_ROUND_ODD): the  *)
(* algorithms the functions of the four formats share.                     *)
(*                                                                         *)
(* A number is the unsigned integer that encodes it (the ui of the source).*)
(* A format F is a record: F.e bits of exponent, F.s bits of fraction; the *)
(* word that a significand is rounded in has F.e - 1 guard bits, as in the *)
(* source (16, 32 and 64 bits for 5, 8 and 11 of exponent).  The 128-bit   *)
(* format keeps its significand and an extra word; the extra word is       *)
(* modelled by the two bits rounding tells apart, the half bit and the or  *)
(* of all lower ones.                                                      *)
(*                                                                         *)
(* A function returns its value v and the set fl of exception flags that   *)
(* it raises; m is the rounding mode, a global variable of the source.     *)
(***************************************************************************)
EXTENDS Integers

Modes == {"near_even", "minMag", "min", "max", "near_maxMag", "odd"}

Guard(F)  == F.e - 1
Width(F)  == 1 + F.e + F.s
Bias(F)   == 2^(F.e - 1) - 1
ExpMax(F) == 2^F.e - 1
Hidden(F) == 2^F.s

Result(v, fl) == [v |-> v, fl |-> fl]

(***************************************************************************)
(* Bits of an encoding (internals.h).                                      *)
(***************************************************************************)
Sign(F, a) == a \div 2^(F.e + F.s)
Exp(F, a)  == (a \div 2^F.s) % 2^F.e
Frac(F, a) == a % 2^F.s

\* Packing adds: a carry out of sig goes into the exponent.
Pack(F, sign, exp, sig) ==
  (sign * 2^(F.e + F.s) + exp * 2^F.s + sig) % 2^Width(F)

Magnitude(F, a)  == a % 2^(F.e + F.s)
Flip(F, a)       == (a + 2^(F.e + F.s)) % 2^Width(F)
IsNaN(F, a)      == Exp(F, a) = ExpMax(F) /\ Frac(F, a) # 0
IsSigNaN(F, a)   == IsNaN(F, a) /\ Frac(F, a) < 2^(F.s - 1)
DefaultNaN(F)    == Pack(F, 0, ExpMax(F), 2^(F.s - 1))
Infinity(F, sign) == Pack(F, sign, ExpMax(F), 0)
Zero(F, sign)     == Pack(F, sign, 0, 0)

Invalid(F) == Result(DefaultNaN(F), {"invalid"})

PropagateNaN(F, a, b) ==
  Result(DefaultNaN(F),
         IF IsSigNaN(F, a) \/ IsSigNaN(F, b) THEN {"invalid"} ELSE {})

(***************************************************************************)
(* Words (primitives.h).                                                   *)
(***************************************************************************)
WithSticky(v, lost) == IF lost /\ v % 2 = 0 THEN v + 1 ELSE v

\* A shift right whose lowest bit collects the bits shifted out.
ShiftRightJam(a, dist) ==
  IF dist <= 30 THEN WithSticky(a \div 2^dist, a % 2^dist # 0)
  ELSE IF a = 0 THEN 0 ELSE 1

BitLength(a) == IF a = 0 THEN 0 ELSE CHOOSE n \in 1..31 : a \div 2^(n - 1) = 1

LeadingZeros(width, a) == width - BitLength(a)

\* The integer square root, a bit at a time.
SquareRoot(n) ==
  LET root[k \in 0..16] ==
        IF k = 0 THEN 0
        ELSE LET r == root[k - 1] IN
             LET t == r + 2^(16 - k)
             IN  IF t <= n \div t THEN t ELSE r
  IN  root[16]

(***************************************************************************)
(* Rounding and packing (s_roundPackToF*.c, s_normRoundPackToF*.c).        *)
(***************************************************************************)
AwayFromZero(m, sign) == m = (IF sign = 1 THEN "min" ELSE "max")

RoundIncrement(m, sign, half) ==
  CASE m \in {"near_even", "near_maxMag"} -> half
    [] AwayFromZero(m, sign)              -> 2 * half - 1
    [] OTHER                              -> 0

\* sig has g guard bits below a significand of F.s + 1 bits.
RoundPackG(F, g, m, sign, exp, sig) ==
  LET half  == 2^(g - 1)
      inc   == RoundIncrement(m, sign, half)
      carry == 2^(F.s + 1 + g) <= sig + inc
      last  == ExpMax(F) - 2
      sub   == exp < 0
      sigS  == IF sub THEN ShiftRightJam(sig, -exp) ELSE sig
      bits  == sigS % 2^g
      tiny  == sub /\ (exp < -1 \/ ~carry)
      up    == (sigS + inc) \div 2^g
      sigZ  == CASE bits # 0 /\ m = "odd"             -> WithSticky(up, TRUE)
                 [] bits = half /\ m = "near_even"    -> 2 * (up \div 2)
                 [] OTHER                             -> up
      expZ  == IF sub \/ (sigZ = 0) THEN 0 ELSE exp
  IN  IF exp > last \/ (exp = last /\ carry)
        THEN Result(Infinity(F, sign) - (IF inc = 0 THEN 1 ELSE 0),
                    {"overflow", "inexact"})
        ELSE Result(Pack(F, sign, expZ, sigZ),
                    (IF tiny /\ bits # 0 THEN {"underflow"} ELSE {})
                      \cup (IF bits # 0 THEN {"inexact"} ELSE {}))

RoundPack(F, m, sign, exp, sig) == RoundPackG(F, Guard(F), m, sign, exp, sig)

NormSubnormal(F, sig) ==
  LET shift == F.s + 1 - BitLength(sig)
  IN  [exp |-> 1 - shift, sig |-> sig * 2^shift]

NormRoundPack(F, m, sign, exp, sig) ==
  LET shift == LeadingZeros(Width(F), sig) - 1
      expZ  == exp - shift
      g     == Guard(F)
  IN  IF sig = 0 THEN Result(Zero(F, sign), {})
      ELSE IF shift >= g /\ expZ >= 0 /\ expZ < ExpMax(F) - 2
        THEN Result(Pack(F, sign, expZ, sig * 2^(shift - g)), {})
        ELSE RoundPack(F, m, sign, expZ, sig * 2^shift)

\* The operand of an operation that has no zero, infinity or NaN left: a
\* subnormal number is normalized, the hidden bit is set.
Normal(F, a) ==
  LET n == NormSubnormal(F, Frac(F, a))
  IN  IF Exp(F, a) = 0
        THEN [exp |-> n.exp, sig |-> n.sig]
        ELSE [exp |-> Exp(F, a), sig |-> Frac(F, a) + Hidden(F)]

IsZero(F, a) == Magnitude(F, a) = 0
IsInf(F, a)  == Magnitude(F, a) = Infinity(F, 0)

\* The larger exponent's significand with its hidden bit, the smaller one's
\* doubled in place of the bit a subnormal number has not.
Doubled(F, a) == Frac(F, a) + (IF Exp(F, a) = 0 THEN Frac(F, a) ELSE Hidden(F))

Special(F, a) == Exp(F, a) = ExpMax(F)
=============================================================================
