---------------------------- MODULE MCSoftFloat ----------------------------
(***************************************************************************)
(* SoftFloat against IEEE 754 on small formats.  A behaviour makes one     *)
(* call: operands and a rounding mode are chosen, the properties compare   *)
(* what each function returns with the exact result rounded once.          *)
(***************************************************************************)
EXTENDS SoftFloatConv, Ieee754, FiniteSets

MCF16  == [e |-> 4, s |-> 2]
MCF32  == [e |-> 5, s |-> 5]
MCF64  == [e |-> 6, s |-> 9]
MCF128 == [e |-> 7, s |-> 14]

\* The fused operations of the two wide formats multiply words: a smaller
\* format keeps the exact product within 31 bits.
Q == [e |-> 6, s |-> 5]

Formats == [f16 |-> F16, f32 |-> F32, f64 |-> F64, f128 |-> F128]

(***************************************************************************)
(* Every encoding of the 16-bit format; of the others those at the ends    *)
(* and in the middle of each field.                                        *)
(***************************************************************************)
All(F) == 0..(2^Width(F) - 1)

Encodings(F, exps, fracs) ==
  {Pack(F, t[1], t[2], t[3]) : t \in {0, 1} \X exps \X fracs}

EdgeFracs(F) == {0, 1, 2^(F.s - 1) - 1, 2^(F.s - 1), 2^F.s - 1}

\* Exponents whose numbers differ by less and by more than the fraction holds.
EdgeExps(F) == {0, 1, Bias(F), Bias(F) + F.s + 1, ExpMax(F) - 1, ExpMax(F)}

Edges(F) == IF F = F16 THEN All(F) ELSE Encodings(F, EdgeExps(F), EdgeFracs(F))

\* The factors and the addends of a multiply-add.
Factors(F) == Encodings(F, {0, Bias(F) - 1, Bias(F) + 1}, {1, 2^F.s - 1})
                \cup {0, Infinity(F, 1), DefaultNaN(F) - 1}
Addends(F) == Encodings(F, {0, 1, Bias(F) - 2, Bias(F), Bias(F) + 2, ExpMax(F) - 1},
                        {0, 2^F.s - 1})
                \cup {Infinity(F, 0), Infinity(F, 1), DefaultNaN(F)}

\* For one operand: every exponent.
Single(F) == IF F = F16 \/ F = F32 THEN All(F)
             ELSE Encodings(F, 0..ExpMax(F), EdgeFracs(F) \cup {2^(F.s - 3) + 1})

VARIABLE call   \* the operation with its operands

Idle == [op |-> "none"]

Init == call = Idle

Pair == \E f \in DOMAIN Formats : \E a, b \in Edges(Formats[f]), m \in Modes :
          call' = [op |-> "pair", f |-> f, a |-> a, b |-> b, m |-> m]

One == \E f \in DOMAIN Formats : \E a \in Single(Formats[f]), m \in Modes :
         call' = [op |-> "one", f |-> f, a |-> a, m |-> m]

Triple == \E f \in {"f16", "f32", "q"}, m \in Modes :
            LET F == IF f = "q" THEN Q ELSE Formats[f]
            IN  \E a, b \in Factors(F), c \in Addends(F) :
                  call' = [op |-> "fused", f |-> f, a |-> a, b |-> b, c |-> c, m |-> m]

Integer == \E i \in {j + d : j \in {-(2^14), -(2^9), -32, 0, 32, 64, 2^8, 2^9, 2^10, 2^11, 2^14, 2^15},
                             d \in -5..5}, m \in Modes :
             call' = [op |-> "int", i |-> i, m |-> m]

Estimate == \E a \in All(F64), m \in {"near_even", "min"} :
              (a % 7 = 0 \/ Exp(F64, a) < 2) /\ call' = [op |-> "estimate", a |-> a, m |-> m]

Next == call = Idle /\ (Pair \/ One \/ Triple \/ Integer \/ Estimate)

Spec == Init /\ [][Next]_call

(***************************************************************************)
(* The functions by format.                                                *)
(***************************************************************************)
AddOf(f, a, b, m) == CASE f = "f16" -> f16_add(a, b, m) [] f = "f32" -> f32_add(a, b, m)
                       [] f = "f64" -> f64_add(a, b, m) [] f = "f128" -> f128_add(a, b, m)
SubOf(f, a, b, m) == CASE f = "f16" -> f16_sub(a, b, m) [] f = "f32" -> f32_sub(a, b, m)
                       [] f = "f64" -> f64_sub(a, b, m) [] f = "f128" -> f128_sub(a, b, m)
MulOf(f, a, b, m) == CASE f = "f16" -> f16_mul(a, b, m) [] f = "f32" -> f32_mul(a, b, m)
                       [] f = "f64" -> f64_mul(a, b, m) [] f = "f128" -> f128_mul(a, b, m)
DivOf(f, a, b, m) == CASE f = "f16" -> f16_div(a, b, m) [] f = "f32" -> f32_div(a, b, m)
                       [] f = "f64" -> f64_div(a, b, m) [] f = "f128" -> f128_div(a, b, m)
RemBy(f, a, b, m) == CASE f = "f16" -> f16_rem(a, b, m) [] f = "f32" -> f32_rem(a, b, m)
                       [] f = "f64" -> f64_rem(a, b, m) [] f = "f128" -> f128_rem(a, b, m)
SqrtOf(f, a, m)   == CASE f = "f16" -> f16_sqrt(a, m) [] f = "f32" -> f32_sqrt(a, m)
                       [] f = "f64" -> f64_sqrt(a, m) [] f = "f128" -> f128_sqrt(a, m)
IntOf(f, a, m, x) == CASE f = "f16" -> f16_roundToInt(a, m, x) [] f = "f32" -> f32_roundToInt(a, m, x)
                       [] f = "f64" -> f64_roundToInt(a, m, x) [] f = "f128" -> f128_roundToInt(a, m, x)
FusedOf(f, a, b, c, m) ==
  CASE f = "f16" -> {f16_mulAdd(a, b, c, m)}
    [] f = "f32" -> {f32_mulAdd(a, b, c, m)}
    [] f = "q"   -> {MulAdd64(Q, m, a, b, c, "add"), MulAdd128(Q, m, a, b, c, "add")}

F(f) == IF f = "q" THEN Q ELSE Formats[f]

(***************************************************************************)
(* Addition, subtraction, multiplication and division return the exact     *)
(* result rounded once in the mode, with the exceptions of IEEE 754, in    *)
(* every format: whatever the alignment, cancellation, carry, subnormal    *)
(* operand or result (f16_add.c .. f128_div.c, s_addMagsF*.c,              *)
(* s_subMagsF*.c, s_roundPackToF*.c, s_normRoundPackToF*.c).               *)
(***************************************************************************)
ArithmeticRounded ==
  call.op = "pair" =>
    LET G == F(call.f) m == call.m a == call.a b == call.b IN
      /\ AddOf(call.f, a, b, m) = Sum(G, m, a, b)
      /\ SubOf(call.f, a, b, m) =
           IF IsNaN(G, b) THEN Sum(G, m, a, b) ELSE Sum(G, m, a, Flip(G, b))
      /\ MulOf(call.f, a, b, m) = Prod(G, m, a, b)
      /\ DivOf(call.f, a, b, m) = Quot(G, m, a, b)

(***************************************************************************)
(* The remainder is exact: a - n * b for the integer n nearest to a / b,   *)
(* even in a tie, and so its parity survives the reduction of the quotient *)
(* (f16_rem.c .. f128_rem.c).                                              *)
(***************************************************************************)
RemainderExact ==
  call.op = "pair" =>
    RemBy(call.f, call.a, call.b, call.m) = RemOf(F(call.f), call.a, call.b)

(***************************************************************************)
(* The square root and the rounding to an integer of the same format, with *)
(* and without the inexact exception (f16_sqrt.c .. f128_roundToInt.c).    *)
(***************************************************************************)
RootsRounded ==
  call.op = "one" =>
    LET G == F(call.f) IN
      /\ SqrtOf(call.f, call.a, call.m) = SquareRootOf(G, call.m, call.a)
      /\ \A x \in BOOLEAN :
           IntOf(call.f, call.a, call.m, x) = Integral(G, call.m, x, call.a)

(***************************************************************************)
(* A multiply-add rounds once: no rounding of the product is seen in the   *)
(* sum, whichever of the two is greater (s_mulAddF16.c .. s_mulAddF128.c,  *)
(* with op = 0, which every caller passes).                                *)
(***************************************************************************)
FusedRoundsOnce ==
  call.op = "fused" =>
    \A r \in FusedOf(call.f, call.a, call.b, call.c, call.m) :
      r = Fused(F(call.f), call.m, call.a, call.b, call.c)

(***************************************************************************)
(* Conversions: to a narrower format rounded once, to a wider one exactly  *)
(* and without flags, from every integer, and to an integer: rounded in    *)
(* the mode or truncated, with invalid alone and the nearest end of the    *)
(* range when the rounded value, not the operand, is out of it             *)
(* (f16_to_f32.c .. ui64_to_f128.c, f16_to_i8.c .. f128_to_ui64_r_minMag.c)*)
(***************************************************************************)
Signed(n)   == <<-(2^(n - 1)), 2^(n - 1) - 1>>
Unsigned(n) == <<0, 2^n - 1>>

BetweenFormats(f, a, m) ==
  CASE f = "f16"  -> /\ f16_to_f32(a) = Converted(F16, F32, m, a)
                     /\ f16_to_f64(a) = Converted(F16, F64, m, a)
                     /\ f16_to_f128(a) = Converted(F16, F128, m, a)
    [] f = "f32"  -> /\ f32_to_f16(a, m) = Converted(F32, F16, m, a)
                     /\ f32_to_f64(a) = Converted(F32, F64, m, a)
                     /\ f32_to_f128(a) = Converted(F32, F128, m, a)
    [] f = "f64"  -> /\ f64_to_f16(a, m) = Converted(F64, F16, m, a)
                     /\ f64_to_f32(a, m) = Converted(F64, F32, m, a)
                     /\ f64_to_f128(a) = Converted(F64, F128, m, a)
    [] f = "f128" -> /\ f128_to_f16(a, m) = Converted(F128, F16, m, a)
                     /\ f128_to_f32(a, m) = Converted(F128, F32, m, a)
                     /\ f128_to_f64(a, m) = Converted(F128, F64, m, a)

\* The functions to integers of a format, by the range of the result.
ToInt(f, a, m, x) ==
  CASE f = "f16"  -> {<<Signed(I8), f16_to_i8(a, m, x)>>, <<Unsigned(I8), f16_to_ui8(a, m, x)>>,
                      <<Signed(I16), f16_to_i16(a, m, x)>>, <<Unsigned(I16), f16_to_ui16(a, m, x)>>,
                      <<Signed(I32), f16_to_i32(a, m, x)>>, <<Unsigned(I32), f16_to_ui32(a, m, x)>>,
                      <<Signed(I64), f16_to_i64(a, m, x)>>, <<Unsigned(I64), f16_to_ui64(a, m, x)>>}
    [] f = "f32"  -> {<<Signed(I16), f32_to_i16(a, m, x)>>, <<Unsigned(I16), f32_to_ui16(a, m, x)>>,
                      <<Signed(I32), f32_to_i32(a, m, x)>>, <<Unsigned(I32), f32_to_ui32(a, m, x)>>,
                      <<Signed(I64), f32_to_i64(a, m, x)>>, <<Unsigned(I64), f32_to_ui64(a, m, x)>>}
    [] f = "f64"  -> {<<Signed(I32), f64_to_i32(a, m, x)>>, <<Unsigned(I32), f64_to_ui32(a, m, x)>>,
                      <<Signed(I64), f64_to_i64(a, m, x)>>, <<Unsigned(I64), f64_to_ui64(a, m, x)>>}
    [] f = "f128" -> {<<Signed(I32), f128_to_i32(a, m, x)>>, <<Unsigned(I32), f128_to_ui32(a, m, x)>>,
                      <<Signed(I64), f128_to_i64(a, m, x)>>, <<Unsigned(I64), f128_to_ui64(a, m, x)>>}

Truncation(f, a, x) ==
  CASE f = "f16"  -> {<<Signed(I32), f16_to_i32_r_minMag(a, x)>>, <<Unsigned(I32), f16_to_ui32_r_minMag(a, x)>>,
                      <<Signed(I64), f16_to_i64_r_minMag(a, x)>>, <<Unsigned(I64), f16_to_ui64_r_minMag(a, x)>>}
    [] f = "f32"  -> {<<Signed(I32), f32_to_i32_r_minMag(a, x)>>, <<Unsigned(I32), f32_to_ui32_r_minMag(a, x)>>,
                      <<Signed(I64), f32_to_i64_r_minMag(a, x)>>, <<Unsigned(I64), f32_to_ui64_r_minMag(a, x)>>}
    [] f = "f64"  -> {<<Signed(I32), f64_to_i32_r_minMag(a, x)>>, <<Unsigned(I32), f64_to_ui32_r_minMag(a, x)>>,
                      <<Signed(I64), f64_to_i64_r_minMag(a, x)>>, <<Unsigned(I64), f64_to_ui64_r_minMag(a, x)>>}
    [] f = "f128" -> {<<Signed(I32), f128_to_i32_r_minMag(a, x)>>, <<Unsigned(I32), f128_to_ui32_r_minMag(a, x)>>,
                      <<Signed(I64), f128_to_i64_r_minMag(a, x)>>, <<Unsigned(I64), f128_to_ui64_r_minMag(a, x)>>}

\* The last conjunct is ui32_to_f32 for integers as wide as the format.
FromInt(i, m) ==
  /\ i \in Signed(I32)[1]..Signed(I32)[2] =>
       /\ i32_to_f16(i, m) = FromInteger(F16, m, i) /\ i32_to_f32(i, m) = FromInteger(F32, m, i)
       /\ i32_to_f64(i) = FromInteger(F64, m, i)    /\ i32_to_f128(i) = FromInteger(F128, m, i)
  /\ i \in 0..Unsigned(I32)[2] =>
       /\ ui32_to_f16(i, m) = FromInteger(F16, m, i) /\ ui32_to_f32(i, m) = FromInteger(F32, m, i)
       /\ ui32_to_f64(i) = FromInteger(F64, m, i)    /\ ui32_to_f128(i) = FromInteger(F128, m, i)
  /\ i \in Signed(I64)[1]..Signed(I64)[2] =>
       /\ i64_to_f16(i, m) = FromInteger(F16, m, i) /\ i64_to_f32(i, m) = FromInteger(F32, m, i)
       /\ i64_to_f64(i, m) = FromInteger(F64, m, i) /\ i64_to_f128(i) = FromInteger(F128, m, i)
  /\ i \in 0..Unsigned(I64)[2] =>
       /\ ui64_to_f16(i, m) = FromInteger(F16, m, i) /\ ui64_to_f32(i, m) = FromInteger(F32, m, i)
       /\ ui64_to_f64(i, m) = FromInteger(F64, m, i) /\ ui64_to_f128(i) = FromInteger(F128, m, i)
  /\ i \in 0..Unsigned(Width(F32))[2] =>
       FromIntWide(F32, m, Width(F32), i) = FromInteger(F32, m, i)

ConversionsRounded ==
  /\ call.op = "one" =>
       /\ BetweenFormats(call.f, call.a, call.m)
       /\ \A x \in BOOLEAN :
            /\ \A r \in ToInt(call.f, call.a, call.m, x) :
                 r[2] = ToInteger(F(call.f), call.m, x, r[1][1], r[1][2], call.a)
            /\ \A r \in Truncation(call.f, call.a, x) :
                 r[2] = ToInteger(F(call.f), "minMag", x, r[1][1], r[1][2], call.a)
  /\ call.op = "int" => FromInt(call.i, call.m)

(***************************************************************************)
(* Comparisons order the numbers by value, a NaN is unordered and signals  *)
(* as its function promises; the greater and the smaller of two agree with *)
(* the order and take a number before a NaN, and the classes divide the    *)
(* numbers (f16_eq.c .. f128_lt_quiet.c, fall_maxmin.c, f16_classify.c).   *)
(***************************************************************************)
Comparisons(f, a, b) ==
  CASE f = "f16"  -> <<f16_eq(a, b), f16_eq_signaling(a, b), f16_le(a, b), f16_le_quiet(a, b),
                       f16_lt(a, b), f16_lt_quiet(a, b)>>
    [] f = "f32"  -> <<f32_eq(a, b), f32_eq_signaling(a, b), f32_le(a, b), f32_le_quiet(a, b),
                       f32_lt(a, b), f32_lt_quiet(a, b)>>
    [] f = "f64"  -> <<f64_eq(a, b), f64_eq_signaling(a, b), f64_le(a, b), f64_le_quiet(a, b),
                       f64_lt(a, b), f64_lt_quiet(a, b)>>
    [] f = "f128" -> <<f128_eq(a, b), f128_eq_signaling(a, b), f128_le(a, b), f128_le_quiet(a, b),
                       f128_lt(a, b), f128_lt_quiet(a, b)>>

ValuesOrdered ==
  call.op = "pair" =>
    LET G  == F(call.f) a == call.a b == call.b
        nan   == IsNaN(G, a) \/ IsNaN(G, b)
        snan  == IsSigNaN(G, a) \/ IsSigNaN(G, b)
        ka == Key(G, a) kb == Key(G, b)
        holds == <<ka = kb, ka = kb, ka <= kb, ka <= kb, ka < kb, ka < kb>>
        loud  == <<snan, nan, nan, snan, nan, snan>>
        most  == FMax(G, a, b)
        least == FMin(G, a, b)
        flags == IF snan THEN {"invalid"} ELSE {}
        class(x) == CASE IsSigNaN(G, x) -> 8
                      [] IsNaN(G, x) /\ ~IsSigNaN(G, x) -> 9
                      [] OTHER ->
                           LET k == CASE IsZero(G, x) -> 0 [] IsInf(G, x) -> 3
                                      [] Exp(G, x) = 0 /\ ~IsZero(G, x) -> 1 [] OTHER -> 2
                           IN  IF Sign(G, x) = 1 THEN 3 - k ELSE 4 + k
    IN  /\ \A j \in 1..6 :
             Comparisons(call.f, a, b)[j]
               = Result(~nan /\ holds[j], IF loud[j] THEN {"invalid"} ELSE {})
        /\ Classify(G, a) = class(a)
        /\ most.fl = flags /\ least.fl = flags
        /\ ~nan => /\ {most.v, least.v} = {a, b}
                   /\ Key(G, least.v) <= Key(G, most.v)
                   /\ ka = kb /\ a # b => Sign(G, least.v) = 1
        /\ nan => \A v \in {most.v, least.v} :
                    v = (IF ~IsNaN(G, a) THEN a ELSE IF ~IsNaN(G, b) THEN b ELSE DefaultNaN(G))

(***************************************************************************)
(* The estimates: 1/x and 1/sqrt(x) to 7 bits for every x whose estimate   *)
(* is a finite number, and otherwise the reciprocal is out of the format   *)
(* (fall_reciprocal.c).                                                    *)
(***************************************************************************)
EstimatesClose ==
  call.op = "estimate" =>
    LET G == F64 a == call.a
        x  == Num(G, a)
        r  == f64_recip7(a, call.m)
        y  == Num(G, r.v)
        ry == f64_rsqrte7(a)
        w  == Num(G, ry.v)
        xy == x.m * y.m
        k  == -(x.q + y.q)
        mw == w.m \div 2^(G.s - 7)
        ww == mw * mw * x.m
        kw == -(x.q + 2 * (w.q + G.s - 7))
    IN  /\ Finite(G, a) /\ x.m # 0 =>
             IF "overflow" \in r.fl
               THEN x.q + BitLength(x.m) - 1 < -Bias(G)
               ELSE /\ Finite(G, r.v) /\ Sign(G, r.v) = Sign(G, a) /\ r.fl = {}
                    /\ k <= 20 /\ 2^7 * Absolute(xy - 2^k) <= 2^k
        /\ Finite(G, a) /\ x.m # 0 /\ ~x.neg =>
             /\ Finite(G, ry.v) /\ ry.fl = {} /\ kw <= 26
             /\ Absolute(ww - 2^kw) <= 2^(kw - 6)
        /\ ~Finite(G, a) \/ x.m = 0 =>
             /\ IsInf(G, r.v) = (x.m = 0) /\ IsInf(G, ry.v) = (x.m = 0)
             /\ IsNaN(G, a) => r = PropagateNaN(G, a, a) /\ ry = PropagateNaN(G, a, a)
        /\ x.neg /\ x.m # 0 => IsNaN(G, ry.v)

(***************************************************************************)
(* Every operation of the library and every conversion gives the exact     *)
(* result rounded once in its mode, with the flags of IEEE 754, and the    *)
(* estimates of reciprocals are as close as their 7 bits can be.           *)
(***************************************************************************)
RoundedOnce ==
  /\ ArithmeticRounded /\ RemainderExact /\ RootsRounded /\ FusedRoundsOnce
  /\ ConversionsRounded /\ EstimatesClose
=============================================================================
