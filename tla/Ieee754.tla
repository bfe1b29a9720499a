------------------------------ MODULE Ieee754 ------------------------------
(***************************************************************************)
(* What SoftFloat promises: the results of IEEE 754, defined by the exact  *)
(* value of an operation and one rounding of it.  Nothing of the library's *)
(* algorithms is used, only the layout of an encoding.                     *)
(*                                                                         *)
(* A finite number is [neg, m, q]: its sign and the magnitude m * 2^q.  An *)
(* addend too small to reach any bit that rounding looks at is replaced by *)
(* a small one, so that the numbers stay within 31 bits.                   *)
(***************************************************************************)
EXTENDS SoftFloat

Least(x, y) == IF x < y THEN x ELSE y
Most(x, y)  == IF x < y THEN y ELSE x
Absolute(x) == IF x < 0 THEN -x ELSE x

Finite(F, a) == Exp(F, a) # ExpMax(F)

Num(F, a) ==
  [neg |-> Sign(F, a) = 1,
   m   |-> Frac(F, a) + (IF Exp(F, a) = 0 THEN 0 ELSE 2^F.s),
   q   |-> Most(Exp(F, a), 1) - Bias(F) - F.s]

SignBit(neg) == IF neg THEN 1 ELSE 0

(***************************************************************************)
(* Of k and k + 1, the one a mode takes; rest compares what is left with a *)
(* half: "exact", "below", "half" or "above".                              *)
(***************************************************************************)
Chosen(mode, neg, k, rest) ==
  LET up == CASE mode = "near_even"   -> rest = "above" \/ (rest = "half" /\ k % 2 = 1)
              [] mode = "near_maxMag" -> rest \in {"half", "above"}
              [] mode = "min"         -> neg
              [] mode = "max"         -> ~neg
              [] mode = "odd"         -> k % 2 = 0
              [] mode = "minMag"      -> FALSE
  IN  IF rest # "exact" /\ up THEN k + 1 ELSE k

\* m / 2^d, d > 0: its floor and what is left.
Split(m, d) ==
  IF d > BitLength(m)
    THEN [k |-> 0, rest |-> IF m = 0 THEN "exact" ELSE "below"]
    ELSE LET r == m % 2^d
         IN  [k    |-> m \div 2^d,
              rest |-> CASE r = 0           -> "exact"
                         [] r = 2^(d - 1)   -> "half"
                         [] r > 2^(d - 1)   -> "above"
                         [] OTHER           -> "below"]

\* x rounded to a multiple of 2^u: the multiple, and whether it is exact.
RoundAt(mode, x, u) ==
  IF x.q >= u THEN [k |-> x.m * 2^(x.q - u), exact |-> TRUE]
  ELSE LET p == Split(x.m, u - x.q)
       IN  [k |-> Chosen(mode, x.neg, p.k, p.rest), exact |-> p.rest = "exact"]

(***************************************************************************)
(* The correctly rounded encoding of x # 0 and the exceptions it signals;  *)
(* tininess is found after rounding.                                       *)
(***************************************************************************)
Rounded(F, mode, x) ==
  LET top   == BitLength(x.m) - 1 + x.q
      sgn   == SignBit(x.neg)
      u     == Most(top, 1 - Bias(F)) - F.s
      z     == RoundAt(mode, x, u)
      free  == RoundAt(mode, x, top - F.s)
      tiny  == top < 1 - Bias(F)
                 /\ ~(top = -Bias(F) /\ free.k = 2^(F.s + 1))
      code  == (u + F.s + Bias(F) - 1) * 2^F.s + z.k
      away  == mode \in {"near_even", "near_maxMag"} \/ (mode = "min" /\ x.neg)
                 \/ (mode = "max" /\ ~x.neg)
      inf   == ExpMax(F) * 2^F.s
  IN  IF code >= inf
        THEN Result(sgn * 2^(F.e + F.s) + inf - (IF away THEN 0 ELSE 1),
                    {"overflow", "inexact"})
        ELSE Result(sgn * 2^(F.e + F.s) + code,
                    (IF z.exact THEN {} ELSE {"inexact"})
                      \cup (IF tiny /\ ~z.exact THEN {"underflow"} ELSE {}))

\* An exact zero: negative only if both addends were or the mode is min.
ExactZero(F, mode, x, y) ==
  Result(Zero(F, IF x.neg = y.neg THEN SignBit(x.neg) ELSE SignBit(mode = "min")), {})

(***************************************************************************)
(* Exact values.                                                           *)
(***************************************************************************)
\* A small addend far below y is replaced by a sixteenth of y's last place.
Reduced(F, x, y) ==
  IF x.m # 0 /\ y.m # 0 /\ x.q + BitLength(x.m) <= y.q - 4
    THEN [neg |-> x.neg, m |-> 1, q |-> y.q - 4]
    ELSE x

Plus(F, x, y) ==
  LET a == Reduced(F, x, y)
      b == Reduced(F, y, x)
      q == CASE a.m = 0 -> b.q [] b.m = 0 -> a.q [] OTHER -> Least(a.q, b.q)
      at(n) == IF n.m = 0 THEN 0 ELSE (IF n.neg THEN -n.m ELSE n.m) * 2^(n.q - q)
      sum   == at(a) + at(b)
  IN  [neg |-> sum < 0, m |-> Absolute(sum), q |-> q]

Times(x, y) == [neg |-> x.neg # y.neg, m |-> x.m * y.m, q |-> x.q + y.q]

\* A number without trailing zeros, and one with its leading bit in place.
Normalized(F, x) ==
  LET k == F.s + 1 - BitLength(x.m)
  IN  [neg |-> x.neg, m |-> x.m * 2^k, q |-> x.q - k]

\* The quotient with a half and a sticky bit.
Over(F, x, y) ==
  LET a == Normalized(F, x)
      b == Normalized(F, y)
      n == a.m * 2^(F.s + 1)
      r == 2 * (n % b.m)
  IN  [neg |-> x.neg # y.neg, q |-> a.q - b.q - F.s - 3,
       m   |-> 4 * (n \div b.m) + (IF r >= b.m THEN 2 ELSE 0)
                 + (IF r % b.m = 0 THEN 0 ELSE 1)]

\* The root with a half and a sticky bit.
RootOf(F, x) ==
  LET a == Normalized(F, x)
      e == a.q - F.s
      n == a.m * 2^F.s * (IF e % 2 = 0 THEN 1 ELSE 2)
      r == SquareRoot(n)
  IN  [neg |-> FALSE, q |-> e \div 2 - 2,
       m   |-> 4 * r + (IF n - r * r > r THEN 2 ELSE 0) + (IF n = r * r THEN 0 ELSE 1)]

\* x - n * y for the n nearest to x / y, the even one of two: 2y is a period.
RECURSIVE DoubleMod(_, _, _)
DoubleMod(m, times, modulus) ==
  IF times = 0 THEN m % modulus
  ELSE DoubleMod((2 * m) % modulus, times - 1, modulus)

RemainderOf(x, y) ==
  LET q  == Least(x.q, y.q)
      b  == y.m * 2^(y.q - q)
      p  == DoubleMod(x.m, x.q - q, 2 * b)
      r  == IF 2 * p <= b THEN p ELSE IF 2 * p < 3 * b THEN p - b ELSE p - 2 * b
  IN  IF x.q + BitLength(x.m) < y.q + BitLength(y.m) - 1 THEN x
      ELSE [neg |-> IF r < 0 THEN ~x.neg ELSE x.neg, m |-> Absolute(r), q |-> q]

\* A total preorder of the numbers: the two zeros are one.
Key(F, a) == IF Sign(F, a) = 1 THEN -Magnitude(F, a) ELSE Magnitude(F, a)

(***************************************************************************)
(* The operations, special operands included.                              *)
(***************************************************************************)
AnyNaN(F, S)    == \E a \in S : IsNaN(F, a)
QuietResult(F, S) ==
  Result(DefaultNaN(F), IF \E a \in S : IsSigNaN(F, a) THEN {"invalid"} ELSE {})

Sum(F, mode, a, b) ==
  LET x == Num(F, a)
      y == Num(F, b)
      z == Plus(F, x, y)
  IN  CASE AnyNaN(F, {a, b})       -> QuietResult(F, {a, b})
        [] IsInf(F, a) /\ ~AnyNaN(F, {b}) ->
             IF b = Flip(F, a) THEN Invalid(F) ELSE Result(a, {})
        [] Finite(F, a) /\ IsInf(F, b) -> Result(b, {})
        [] OTHER -> IF z.m = 0 THEN ExactZero(F, mode, x, y) ELSE Rounded(F, mode, z)

Prod(F, mode, a, b) ==
  LET sgn == SignBit(Sign(F, a) # Sign(F, b))
      z   == Times(Num(F, a), Num(F, b))
  IN  CASE AnyNaN(F, {a, b}) -> QuietResult(F, {a, b})
        [] Finite(F, a) /\ Finite(F, b) ->
             IF z.m = 0 THEN Result(Zero(F, sgn), {}) ELSE Rounded(F, mode, z)
        [] OTHER -> IF IsZero(F, a) \/ IsZero(F, b) THEN Invalid(F)
                    ELSE Result(Infinity(F, sgn), {})

Quot(F, mode, a, b) ==
  LET sgn == SignBit(Sign(F, a) # Sign(F, b))
  IN  CASE AnyNaN(F, {a, b}) -> QuietResult(F, {a, b})
        [] (IsInf(F, a) /\ IsInf(F, b)) \/ (IsZero(F, a) /\ IsZero(F, b)) -> Invalid(F)
        [] IsInf(F, a) /\ Finite(F, b) -> Result(Infinity(F, sgn), {})
        [] Finite(F, a) /\ ~IsZero(F, a) /\ IsZero(F, b) ->
             Result(Infinity(F, sgn), {"infinite"})
        [] Finite(F, a) /\ (IsInf(F, b) \/ (IsZero(F, a) /\ ~IsZero(F, b) /\ Finite(F, b))) ->
             Result(Zero(F, sgn), {})
        [] OTHER -> Rounded(F, mode, Over(F, Num(F, a), Num(F, b)))

SquareRootOf(F, mode, a) ==
  CASE IsNaN(F, a)              -> QuietResult(F, {a})
    [] IsZero(F, a)             -> Result(a, {})
    [] ~IsNaN(F, a) /\ ~IsZero(F, a) /\ Sign(F, a) = 1 -> Invalid(F)
    [] IsInf(F, a) /\ Sign(F, a) = 0 -> Result(a, {})
    [] OTHER                    -> Rounded(F, mode, RootOf(F, Num(F, a)))

RemOf(F, a, b) ==
  LET z == RemainderOf(Num(F, a), Num(F, b))
  IN  CASE AnyNaN(F, {a, b}) -> QuietResult(F, {a, b})
        [] IsInf(F, a) \/ (IsZero(F, b) /\ Finite(F, a)) -> Invalid(F)
        [] Finite(F, a) /\ ~IsZero(F, b) /\ (IsInf(F, b) \/ IsZero(F, a)) -> Result(a, {})
        [] OTHER -> IF z.m = 0 THEN Result(Zero(F, Sign(F, a)), {})
                    ELSE Rounded(F, "minMag", z)

\* a * b + c, rounded once.  The special operands follow the RISC-V choice:
\* infinity times zero is invalid even with a quiet NaN.
Fused(F, mode, a, b, c) ==
  LET p == Times(Num(F, a), Num(F, b))
      z == Plus(F, p, Num(F, c))
      sgn == SignBit(Sign(F, a) # Sign(F, b))
      infP == IsInf(F, a) \/ IsInf(F, b)
      none == infP /\ (IsZero(F, a) \/ IsZero(F, b))
  IN  CASE AnyNaN(F, {a, b, c}) \/ none ->
             Result(DefaultNaN(F), QuietResult(F, {a, b, c}).fl
                                     \cup (IF none THEN {"invalid"} ELSE {}))
        [] infP /\ ~none /\ ~AnyNaN(F, {a, b, c}) ->
             IF c = Infinity(F, 1 - sgn) THEN Invalid(F) ELSE Result(Infinity(F, sgn), {})
        [] Finite(F, a) /\ Finite(F, b) /\ IsInf(F, c) -> Result(c, {})
        [] OTHER -> IF z.m = 0 THEN ExactZero(F, mode, p, Num(F, c)) ELSE Rounded(F, mode, z)

\* An integer in the same format; odd truncates.
IntMode(mode) == IF mode = "odd" THEN "minMag" ELSE mode

Integral(F, mode, exact, a) ==
  LET x == Num(F, a)
      z == RoundAt(IntMode(mode), x, 0)
  IN  CASE IsNaN(F, a) -> QuietResult(F, {a})
        [] IsInf(F, a) \/ (Finite(F, a) /\ x.q >= 0) -> Result(a, {})
        [] OTHER ->
             Result(IF z.k = 0 THEN Zero(F, Sign(F, a))
                    ELSE Rounded(F, "minMag", [neg |-> x.neg, m |-> z.k, q |-> 0]).v,
                    IF exact /\ ~z.exact THEN {"inexact"} ELSE {})

\* An integer of low .. high.
ToInteger(F, mode, exact, low, high, a) ==
  LET x == Num(F, a)
      z == RoundAt(IntMode(mode), x, 0)
      v == IF x.neg THEN -z.k ELSE z.k
      big == x.q + BitLength(x.m) > 18
  IN  CASE IsNaN(F, a) -> Result(high, {"invalid"})
        [] IsInf(F, a) \/ (Finite(F, a) /\ big) ->
             Result(IF x.neg THEN low ELSE high, {"invalid"})
        [] OTHER ->
             IF v < low THEN Result(low, {"invalid"})
             ELSE IF v > high THEN Result(high, {"invalid"})
             ELSE Result(v, IF exact /\ ~z.exact THEN {"inexact"} ELSE {})

FromInteger(F, mode, i) ==
  IF i = 0 THEN Result(0, {})
  ELSE Rounded(F, mode, [neg |-> i < 0, m |-> Absolute(i), q |-> 0])

Converted(F, G, mode, a) ==
  LET x == Num(F, a)
  IN  CASE IsNaN(F, a)  -> Result(DefaultNaN(G), QuietResult(F, {a}).fl)
        [] IsInf(F, a)  -> Result(Infinity(G, Sign(F, a)), {})
        [] IsZero(F, a) -> Result(Zero(G, Sign(F, a)), {})
        [] OTHER        -> Rounded(G, mode, x)
=============================================================================
