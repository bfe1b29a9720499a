----------------------------- MODULE ScalarFloat -----------------------------
(****************************************************************************)
(* The floating-point instructions of the simulator (riscv/insns/f*.h,       *)
(* c_f*.h), one operator per file and named as it.                           *)
(*                                                                          *)
(* A register holds <<v[0], v[1]>>, the 64-bit limbs of a freg_t; a value of *)
(* a format of w bytes is the sequence of its limbs, the least first.  As in *)
(* VectorFloat, FloatOp is any function of the bits of the operands.         *)
(****************************************************************************)
EXTENDS Scalar, VectorFloat

CONSTANT ExpBits(_)     \* exponent bits of the format of so many bytes

e128 == 16

(*--------------------------------- registers ------------------------------*)

Ones(bits) == 2 ^ bits - 1
isBoxedF64(r) == r[2] = Ones(Bits(e64))
isBoxedF32(r) == isBoxedF64(r) /\ r[1] \div 2 ^ Bits(e32) = Ones(Bits(e64) - Bits(e32))
isBoxedF16(r) == isBoxedF32(r) /\ r[1] \div 2 ^ Bits(e16) = Ones(Bits(e64) - Bits(e16))

(* The width of the limb with the sign.                                     *)
Top(w) == Least(w, e64)
TopLimb(v) == v[Len(v)]
defaultNaN(w) ==
  (IF w = e128 THEN <<0>> ELSE <<>>)
    \o <<Ones(ExpBits(w) + 1) * 2 ^ (Bits(Top(w)) - ExpBits(w) - 2)>>

(* 2 ^ the bits of the fraction in the upper limb.                          *)
FracTop(w) == 2 ^ (Bits(Top(w)) - ExpBits(w) - 1)
isNaN(v, w) ==
  /\ (TopLimb(v) \div FracTop(w)) % 2 ^ ExpBits(w) = Ones(ExpBits(w))
  /\ TopLimb(v) % FracTop(w) # 0 \/ (w = e128 /\ v[1] # 0)

Sign(v, w) == TopLimb(v) \div 2 ^ (Bits(Top(w)) - 1)
Negate(v, w) == [v EXCEPT ![Len(v)] = Neg(v[Len(v)], Top(w))]

(* f16, f32, f64, f128: a register that does not hold a value of the format *)
(* is read as a NaN.                                                        *)
Boxed(r, w) ==
  CASE w = e16 -> isBoxedF16(r) [] w = e32 -> isBoxedF32(r) [] w = e64 -> isBoxedF64(r)
Unboxed(r, w) ==
  IF w = e128 THEN r ELSE IF Boxed(r, w) THEN <<Unsigned(r[1], w)>> ELSE defaultNaN(w)

freg(v, w) ==
  IF w = e128 THEN v ELSE <<2 ^ Bits(e64) - 2 ^ Bits(w) + v[1], Ones(Bits(e64))>>

FRS1(s, d, w) == Unboxed(s.FPR[d.rs1], w)
FRS2(s, d, w) == Unboxed(s.FPR[d.rs2], w)
FRS3(s, d, w) == Unboxed(s.FPR[d.rs3], w)
WRITE_FREG(s, r, v, w) == [s EXCEPT !.FPR[r] = freg(v, w)]
WRITE_FRD(s, d, v, w) == WRITE_FREG(s, d.rd, v, w)

(*---------------------------------- checks --------------------------------*)

Extension(w) == CASE w = e16 -> "Zfh" [] w = e32 -> "F" [] w = e64 -> "D" [] w = e128 -> "Q"
require_fp(s, exts) == exts \subseteq s.ext /\ s.fs
Has(s, w) == require_fp(s, {Extension(w)})

RM(s, d) == IF d.rm = 7 THEN s.frm ELSE d.rm
Rounds(s, d) == RM(s, d) <= 4

(*--------------------------------- operations -----------------------------*)

(* An operation of SoftFloat on operands of w bytes, its result one of `to'. *)
Operation(op, w, args, to) ==
  [v |-> [k \in 1 .. (IF to = e128 THEN 2 ELSE 1) |->
            Unsigned(FloatOp(op, w, args \o <<to, k>>).v, Top(to))],
   flags |-> FloatOp(op, w, args \o <<to, 1>>).flags]

FloatTo(s, d, r, w) == set_fp_exceptions(WRITE_FRD(s, d, r.v, w), r.flags)
IntegerTo(s, d, r, w) == set_fp_exceptions(WRITE_RD(s, d, Signed(r.v, w)), r.flags)

ToFloat(s, d, ok, op, w, args, to) ==
  Checked(s, ok /\ Rounds(s, d),
    FloatTo(s, d, Operation(op, w, args \o <<RM(s, d)>>, to), to))

ToInteger(s, d, ok, op, w, to) ==
  Checked(s, ok /\ Rounds(s, d),
    IntegerTo(s, d, FloatOp(op, w, FRS1(s, d, w) \o <<RM(s, d)>>), to))

Arithmetic(s, d, op, w) ==
  ToFloat(s, d, Has(s, w), op, w, FRS1(s, d, w) \o FRS2(s, d, w), w)
Root(s, d, w) == ToFloat(s, d, Has(s, w), "sqrt", w, FRS1(s, d, w), w)
MulAdd(s, d, a, b, c, w) == ToFloat(s, d, Has(s, w), "mulAdd", w, a \o b \o c, w)

Compare(s, d, op, w) ==
  Checked(s, Has(s, w),
    IntegerTo(s, d, FloatOp(op, w, FRS1(s, d, w) \o FRS2(s, d, w)), e64))
Classify(s, d, w) ==
  Checked(s, Has(s, w), WRITE_RD(s, d, FloatOp("classify", w, FRS1(s, d, w)).v))

(* The lesser of two, the negative zero below the positive one; a NaN only  *)
(* when both are.                                                           *)
OrZeros(lt, eq, sign) ==
  IF lt.v = 1 THEN lt ELSE [v |-> ToInt(eq.v = 1 /\ sign = 1), flags |-> lt.flags \cup eq.flags]
Before(a, b, w) ==
  OrZeros(FloatOp("lt_quiet", w, a \o b), FloatOp("eq", w, a \o b), Sign(a, w))

Chosen(s, d, w, a, b, first) ==
  Checked(s, Has(s, w),
    set_fp_exceptions(
      IF isNaN(a, w) /\ isNaN(b, w) THEN WRITE_FRD(s, d, defaultNaN(w), w)
      ELSE WRITE_FRD(s, d, s.FPR[IF first.v = 1 \/ isNaN(b, w) THEN d.rs1 ELSE d.rs2], e128),
      first.flags))
LesserOf(s, d, w, a, b) == Chosen(s, d, w, a, b, Before(a, b, w))
GreaterOf(s, d, w, a, b) == Chosen(s, d, w, a, b, Before(b, a, w))
Earlier(s, d, w) == LesserOf(s, d, w, FRS1(s, d, w), FRS2(s, d, w))
Later(s, d, w) == GreaterOf(s, d, w, FRS1(s, d, w), FRS2(s, d, w))

(* The sign of b, its complement, or its exclusive or with that of a.       *)
Resigned(a, w, was, sign) == IF was = sign THEN a ELSE Negate(a, w)
Resign(a, w, was, of, n, x) == Resigned(a, w, was, ((IF x THEN was ELSE ToInt(n)) + of) % 2)
SignFrom(a, b, w, n, x) == Resign(a, w, Sign(a, w), Sign(b, w), n, x)
fsgnj(s, d, w, n, x) ==
  Checked(s, Has(s, w), WRITE_FRD(s, d, SignFrom(FRS1(s, d, w), FRS2(s, d, w), w, n, x), w))

FLoad(s, r, addr, w) == Load(s, addr, w, LAMBDA t, x : WRITE_FREG(t, r, <<x>>, w))
FAddress(s, d) == reg_t(s.XPR[d.rs1] + d.imm)

load_float128(s, r, addr) ==
  IF addr % e128 # 0 THEN Trapped(s, Wrapped(s.mem, addr), "misaligned")
  ELSE Load(s, addr, e64, LAMBDA t, lo :
         Load(t, addr + e64, e64, LAMBDA q, hi : WRITE_FREG(q, r, <<lo, hi>>, e128)))
SecondHalf(t, addr, v) == Unless(t, Store(t, addr + e64, e64, v[2]))
(* The second half may fault when the first is written.                     *)
store_float128(s, addr, v) ==
  IF addr % e128 # 0 THEN Trapped(s, Wrapped(s.mem, addr), "misaligned")
  ELSE SecondHalf(Store(s, addr, e64, v[1]), addr, v)

(*-------------------------------- instructions ----------------------------*)

fadd_h(s, d) == Arithmetic(s, d, "add", e16)
fadd_s(s, d) == Arithmetic(s, d, "add", e32)
fadd_d(s, d) == Arithmetic(s, d, "add", e64)
fadd_q(s, d) == Arithmetic(s, d, "add", e128)
fsub_h(s, d) == Arithmetic(s, d, "sub", e16)
fsub_s(s, d) == Arithmetic(s, d, "sub", e32)
fsub_d(s, d) == Arithmetic(s, d, "sub", e64)
fsub_q(s, d) == Arithmetic(s, d, "sub", e128)
fmul_h(s, d) == Arithmetic(s, d, "mul", e16)
fmul_s(s, d) == Arithmetic(s, d, "mul", e32)
fmul_d(s, d) == Arithmetic(s, d, "mul", e64)
fmul_q(s, d) == Arithmetic(s, d, "mul", e128)
fdiv_h(s, d) == Arithmetic(s, d, "div", e16)
fdiv_s(s, d) == Arithmetic(s, d, "div", e32)
fdiv_d(s, d) == Arithmetic(s, d, "div", e64)
fdiv_q(s, d) == Arithmetic(s, d, "div", e128)
fsqrt_h(s, d) == Root(s, d, e16)
fsqrt_s(s, d) == Root(s, d, e32)
fsqrt_d(s, d) == Root(s, d, e64)
fsqrt_q(s, d) == Root(s, d, e128)

fmadd_h(s, d) ==
  MulAdd(s, d, FRS1(s, d, e16), FRS2(s, d, e16), FRS3(s, d, e16), e16)
fmadd_s(s, d) ==
  MulAdd(s, d, FRS1(s, d, e32), FRS2(s, d, e32), FRS3(s, d, e32), e32)
fmadd_d(s, d) ==
  MulAdd(s, d, FRS1(s, d, e64), FRS2(s, d, e64), FRS3(s, d, e64), e64)
fmadd_q(s, d) ==
  MulAdd(s, d, FRS1(s, d, e128), FRS2(s, d, e128), FRS3(s, d, e128), e128)
fmsub_h(s, d) ==
  MulAdd(s, d, FRS1(s, d, e16), FRS2(s, d, e16), Negate(FRS3(s, d, e16), e16), e16)
fmsub_s(s, d) ==
  MulAdd(s, d, FRS1(s, d, e32), FRS2(s, d, e32), Negate(FRS3(s, d, e32), e32), e32)
fmsub_d(s, d) ==
  MulAdd(s, d, FRS1(s, d, e64), FRS2(s, d, e64), Negate(FRS3(s, d, e64), e64), e64)
fmsub_q(s, d) ==
  MulAdd(s, d, FRS1(s, d, e128), FRS2(s, d, e128), Negate(FRS3(s, d, e128), e128), e128)
fnmsub_h(s, d) ==
  MulAdd(s, d, Negate(FRS1(s, d, e16), e16), FRS2(s, d, e16), FRS3(s, d, e16), e16)
fnmsub_s(s, d) ==
  MulAdd(s, d, Negate(FRS1(s, d, e32), e32), FRS2(s, d, e32), FRS3(s, d, e32), e32)
fnmsub_d(s, d) ==
  MulAdd(s, d, Negate(FRS1(s, d, e64), e64), FRS2(s, d, e64), FRS3(s, d, e64), e64)
fnmsub_q(s, d) ==
  MulAdd(s, d, Negate(FRS1(s, d, e128), e128), FRS2(s, d, e128), FRS3(s, d, e128), e128)
fnmadd_h(s, d) ==
  MulAdd(s, d, Negate(FRS1(s, d, e16), e16), FRS2(s, d, e16), Negate(FRS3(s, d, e16), e16), e16)
fnmadd_s(s, d) ==
  MulAdd(s, d, Negate(FRS1(s, d, e32), e32), FRS2(s, d, e32), Negate(FRS3(s, d, e32), e32), e32)
fnmadd_d(s, d) ==
  MulAdd(s, d, Negate(FRS1(s, d, e64), e64), FRS2(s, d, e64), Negate(FRS3(s, d, e64), e64), e64)
fnmadd_q(s, d) ==
  MulAdd(s, d, Negate(FRS1(s, d, e128), e128), FRS2(s, d, e128), Negate(FRS3(s, d, e128), e128), e128)

feq_h(s, d) == Compare(s, d, "eq", e16)
feq_s(s, d) == Compare(s, d, "eq", e32)
feq_d(s, d) == Compare(s, d, "eq", e64)
feq_q(s, d) == Compare(s, d, "eq", e128)
flt_h(s, d) == Compare(s, d, "lt", e16)
flt_s(s, d) == Compare(s, d, "lt", e32)
flt_d(s, d) == Compare(s, d, "lt", e64)
flt_q(s, d) == Compare(s, d, "lt", e128)
fle_h(s, d) == Compare(s, d, "le", e16)
fle_s(s, d) == Compare(s, d, "le", e32)
fle_d(s, d) == Compare(s, d, "le", e64)
fle_q(s, d) == Compare(s, d, "le", e128)
fclass_h(s, d) == Classify(s, d, e16)
fclass_s(s, d) == Classify(s, d, e32)
fclass_d(s, d) == Classify(s, d, e64)
fclass_q(s, d) == Classify(s, d, e128)
(* The 16-bit format has its own operation in the library.                  *)
fmin_s(s, d) == Earlier(s, d, e32)
fmin_d(s, d) == Earlier(s, d, e64)
fmin_q(s, d) == Earlier(s, d, e128)
fmin_h(s, d) ==
  Checked(s, Has(s, e16),
    FloatTo(s, d, Operation("min", e16, FRS1(s, d, e16) \o FRS2(s, d, e16), e16), e16))
fmax_s(s, d) == Later(s, d, e32)
fmax_d(s, d) == Later(s, d, e64)
fmax_q(s, d) == Later(s, d, e128)
fmax_h(s, d) ==
  Checked(s, Has(s, e16),
    FloatTo(s, d, Operation("max", e16, FRS1(s, d, e16) \o FRS2(s, d, e16), e16), e16))
fsgnj_h(s, d) == fsgnj(s, d, e16, FALSE, FALSE)
fsgnj_s(s, d) == fsgnj(s, d, e32, FALSE, FALSE)
fsgnj_d(s, d) == fsgnj(s, d, e64, FALSE, FALSE)
fsgnj_q(s, d) == fsgnj(s, d, e128, FALSE, FALSE)
fsgnjn_h(s, d) == fsgnj(s, d, e16, TRUE, FALSE)
fsgnjn_s(s, d) == fsgnj(s, d, e32, TRUE, FALSE)
fsgnjn_d(s, d) == fsgnj(s, d, e64, TRUE, FALSE)
fsgnjn_q(s, d) == fsgnj(s, d, e128, TRUE, FALSE)
fsgnjx_h(s, d) == fsgnj(s, d, e16, FALSE, TRUE)
fsgnjx_s(s, d) == fsgnj(s, d, e32, FALSE, TRUE)
fsgnjx_d(s, d) == fsgnj(s, d, e64, FALSE, TRUE)
fsgnjx_q(s, d) == fsgnj(s, d, e128, FALSE, TRUE)

(* Between formats.                                                         *)
Between(s, d, exts, w, to) == ToFloat(s, d, require_fp(s, exts), "to", w, FRS1(s, d, w), to)
fcvt_d_h(s, d) == Between(s, d, {"Zfh", "D"}, e16, e64)
fcvt_d_s(s, d) == Between(s, d, {"D"}, e32, e64)
fcvt_d_q(s, d) == Between(s, d, {"Q"}, e128, e64)
fcvt_h_d(s, d) == Between(s, d, {"Zfh", "D"}, e64, e16)
fcvt_h_q(s, d) == Between(s, d, {"Zfh", "Q"}, e128, e16)
fcvt_h_s(s, d) == Between(s, d, {"Zfh"}, e32, e16)
fcvt_q_d(s, d) == Between(s, d, {"Q"}, e64, e128)
fcvt_q_h(s, d) == Between(s, d, {"Zfh", "Q"}, e16, e128)
fcvt_q_s(s, d) == Between(s, d, {"Q"}, e32, e128)
fcvt_s_d(s, d) == Between(s, d, {"D"}, e64, e32)
fcvt_s_h(s, d) == Between(s, d, {"Zfh"}, e16, e32)
fcvt_s_q(s, d) == Between(s, d, {"Q"}, e128, e32)

(* From and to the integers of 32 and 64 bits.                              *)
FromInteger(s, d, op, x, w) == ToFloat(s, d, Has(s, w), op, w, <<x>>, w)
FromLong(s, d, op, w) ==
  ToFloat(s, d, require_rv64(s) /\ Has(s, w), op, w, <<RS1(s, d)>>, w)
fcvt_h_w(s, d) == FromInteger(s, d, "from_i32", zext32(RS1(s, d)), e16)
fcvt_h_wu(s, d) == FromInteger(s, d, "from_ui32", zext32(RS1(s, d)), e16)
fcvt_h_l(s, d) == FromLong(s, d, "from_i64", e16)
fcvt_h_lu(s, d) == FromLong(s, d, "from_ui64", e16)
fcvt_s_w(s, d) == FromInteger(s, d, "from_i32", zext32(RS1(s, d)), e32)
fcvt_s_wu(s, d) == FromInteger(s, d, "from_ui32", zext32(RS1(s, d)), e32)
fcvt_s_l(s, d) == FromLong(s, d, "from_i64", e32)
fcvt_s_lu(s, d) == FromLong(s, d, "from_ui64", e32)
fcvt_d_w(s, d) == FromInteger(s, d, "from_i32", zext32(RS1(s, d)), e64)
fcvt_d_wu(s, d) == FromInteger(s, d, "from_ui32", zext32(RS1(s, d)), e64)
fcvt_d_l(s, d) == FromLong(s, d, "from_i64", e64)
fcvt_d_lu(s, d) == FromLong(s, d, "from_ui64", e64)
fcvt_q_w(s, d) == FromInteger(s, d, "from_i32", zext32(RS1(s, d)), e128)
fcvt_q_wu(s, d) == FromInteger(s, d, "from_ui32", zext32(RS1(s, d)), e128)
fcvt_q_l(s, d) == FromLong(s, d, "from_i64", e128)
fcvt_q_lu(s, d) == FromLong(s, d, "from_ui64", e128)
fcvt_w_h(s, d) == ToInteger(s, d, Has(s, e16), "to_i32", e16, e32)
fcvt_wu_h(s, d) == ToInteger(s, d, Has(s, e16), "to_ui32", e16, e32)
fcvt_l_h(s, d) == ToInteger(s, d, require_rv64(s) /\ Has(s, e16), "to_i64", e16, e64)
fcvt_lu_h(s, d) == ToInteger(s, d, require_rv64(s) /\ Has(s, e16), "to_ui64", e16, e64)
fcvt_w_s(s, d) == ToInteger(s, d, Has(s, e32), "to_i32", e32, e32)
fcvt_wu_s(s, d) == ToInteger(s, d, Has(s, e32), "to_ui32", e32, e32)
fcvt_l_s(s, d) == ToInteger(s, d, require_rv64(s) /\ Has(s, e32), "to_i64", e32, e64)
fcvt_lu_s(s, d) == ToInteger(s, d, require_rv64(s) /\ Has(s, e32), "to_ui64", e32, e64)
fcvt_w_d(s, d) == ToInteger(s, d, Has(s, e64), "to_i32", e64, e32)
fcvt_wu_d(s, d) == ToInteger(s, d, Has(s, e64), "to_ui32", e64, e32)
fcvt_l_d(s, d) == ToInteger(s, d, require_rv64(s) /\ Has(s, e64), "to_i64", e64, e64)
fcvt_lu_d(s, d) == ToInteger(s, d, require_rv64(s) /\ Has(s, e64), "to_ui64", e64, e64)
fcvt_w_q(s, d) == ToInteger(s, d, Has(s, e128), "to_i32", e128, e32)
fcvt_wu_q(s, d) == ToInteger(s, d, Has(s, e128), "to_ui32", e128, e32)
fcvt_l_q(s, d) == ToInteger(s, d, require_rv64(s) /\ Has(s, e128), "to_i64", e128, e64)
fcvt_lu_q(s, d) == ToInteger(s, d, require_rv64(s) /\ Has(s, e128), "to_ui64", e128, e64)

(* Moves of bits, loads and stores.                                         *)
fmv_h_x(s, d) == Checked(s, Has(s, e16), WRITE_FRD(s, d, <<Unsigned(RS1(s, d), e16)>>, e16))
fmv_w_x(s, d) == Checked(s, Has(s, e32), WRITE_FRD(s, d, <<Unsigned(RS1(s, d), e32)>>, e32))
fmv_d_x(s, d) == Checked(s, require_rv64(s) /\ Has(s, e64), WRITE_FRD(s, d, <<RS1(s, d)>>, e64))
fmv_x_h(s, d) == Checked(s, Has(s, e16), WRITE_RD(s, d, Signed(s.FPR[d.rs1][1], e16)))
fmv_x_w(s, d) == Checked(s, Has(s, e32), WRITE_RD(s, d, sext32(s.FPR[d.rs1][1])))
fmv_x_d(s, d) == Checked(s, require_rv64(s) /\ Has(s, e64), WRITE_RD(s, d, s.FPR[d.rs1][1]))
flh(s, d) == Checked(s, Has(s, e16), FLoad(s, d.rd, FAddress(s, d), e16))
flw(s, d) == Checked(s, Has(s, e32), FLoad(s, d.rd, FAddress(s, d), e32))
fld(s, d) == Checked(s, Has(s, e64), FLoad(s, d.rd, FAddress(s, d), e64))
flq(s, d) == Checked(s, Has(s, e128), load_float128(s, d.rd, FAddress(s, d)))
fsh(s, d) == Checked(s, Has(s, e16), Store(s, FAddress(s, d), e16, s.FPR[d.rs2][1]))
fsw(s, d) == Checked(s, Has(s, e32), Store(s, FAddress(s, d), e32, s.FPR[d.rs2][1]))
fsd(s, d) == Checked(s, Has(s, e64), Store(s, FAddress(s, d), e64, s.FPR[d.rs2][1]))
fsq(s, d) == Checked(s, Has(s, e128), store_float128(s, FAddress(s, d), s.FPR[d.rs2]))

(* c.fld .. c.fsdsp; c.flw .. c.fswsp are c.ld .. c.sdsp on RV64.            *)
c_fld(s, d) == C(s, Has(s, e64), FLoad(s, d.rs2s, RVC_RS1S(s, d) + d.imm, e64))
c_fldsp(s, d) == C(s, Has(s, e64), FLoad(s, d.rd, RVC_SP(s) + d.imm, e64))
c_fsd(s, d) == C(s, Has(s, e64), Store(s, RVC_RS1S(s, d) + d.imm, e64, s.FPR[d.rs2s][1]))
c_fsdsp(s, d) == C(s, Has(s, e64), Store(s, RVC_SP(s) + d.imm, e64, s.FPR[d.rs2][1]))
c_flw(s, d) ==
  IF s.xlen = e32 THEN C(s, Has(s, e32), FLoad(s, d.rs2s, RVC_RS1S(s, d) + d.imm, e32))
  ELSE C(s, TRUE, LoadTo(s, d.rs2s, RVC_RS1S(s, d) + d.imm, e64, Signed))
c_flwsp(s, d) ==
  IF s.xlen = e32 THEN C(s, Has(s, e32), FLoad(s, d.rd, RVC_SP(s) + d.imm, e32))
  ELSE C(s, d.rd # 0, LoadTo(s, d.rd, RVC_SP(s) + d.imm, e64, Signed))
c_fsw(s, d) ==
  IF s.xlen = e32 THEN C(s, Has(s, e32), Store(s, RVC_RS1S(s, d) + d.imm, e32, s.FPR[d.rs2s][1]))
  ELSE C(s, TRUE, Store(s, RVC_RS1S(s, d) + d.imm, e64, RVC_RS2S(s, d)))
c_fswsp(s, d) ==
  IF s.xlen = e32 THEN C(s, Has(s, e32), Store(s, RVC_SP(s) + d.imm, e32, s.FPR[d.rs2][1]))
  ELSE C(s, TRUE, Store(s, RVC_SP(s) + d.imm, e64, RVC_RS2(s, d)))

(*------------------------------ the instructions --------------------------*)

ScalarFloatOps ==
  << "fadd_h", "fadd_s", "fadd_d", "fadd_q", "fsub_h", "fsub_s", "fsub_d",
     "fsub_q", "fmul_h", "fmul_s", "fmul_d", "fmul_q", "fdiv_h", "fdiv_s",
     "fdiv_d", "fdiv_q", "fsqrt_h", "fsqrt_s", "fsqrt_d", "fsqrt_q",
     "fmadd_h", "fmadd_s", "fmadd_d", "fmadd_q", "fmsub_h", "fmsub_s",
     "fmsub_d", "fmsub_q", "fnmsub_h", "fnmsub_s", "fnmsub_d", "fnmsub_q",
     "fnmadd_h", "fnmadd_s", "fnmadd_d", "fnmadd_q", "feq_h", "feq_s",
     "feq_d", "feq_q", "flt_h", "flt_s", "flt_d", "flt_q", "fle_h", "fle_s",
     "fle_d", "fle_q", "fclass_h", "fclass_s", "fclass_d", "fclass_q",
     "fmin_s", "fmin_d", "fmin_q", "fmin_h", "fmax_s", "fmax_d", "fmax_q",
     "fmax_h", "fsgnj_h", "fsgnj_s", "fsgnj_d", "fsgnj_q", "fsgnjn_h",
     "fsgnjn_s", "fsgnjn_d", "fsgnjn_q", "fsgnjx_h", "fsgnjx_s", "fsgnjx_d",
     "fsgnjx_q", "fcvt_d_h", "fcvt_d_s", "fcvt_d_q", "fcvt_h_d", "fcvt_h_q",
     "fcvt_h_s", "fcvt_q_d", "fcvt_q_h", "fcvt_q_s", "fcvt_s_d", "fcvt_s_h",
     "fcvt_s_q", "fcvt_h_w", "fcvt_h_wu", "fcvt_h_l", "fcvt_h_lu",
     "fcvt_s_w", "fcvt_s_wu", "fcvt_s_l", "fcvt_s_lu", "fcvt_d_w",
     "fcvt_d_wu", "fcvt_d_l", "fcvt_d_lu", "fcvt_q_w", "fcvt_q_wu",
     "fcvt_q_l", "fcvt_q_lu", "fcvt_w_h", "fcvt_wu_h", "fcvt_l_h",
     "fcvt_lu_h", "fcvt_w_s", "fcvt_wu_s", "fcvt_l_s", "fcvt_lu_s",
     "fcvt_w_d", "fcvt_wu_d", "fcvt_l_d", "fcvt_lu_d", "fcvt_w_q",
     "fcvt_wu_q", "fcvt_l_q", "fcvt_lu_q", "fmv_h_x", "fmv_w_x", "fmv_d_x",
     "fmv_x_h", "fmv_x_w", "fmv_x_d", "flh", "flw", "fld", "flq", "fsh",
     "fsw", "fsd", "fsq", "c_fld", "c_fldsp", "c_fsd", "c_fsdsp", "c_flw",
     "c_flwsp", "c_fsw", "c_fswsp" >>

ScalarFloatBody(s, d) ==
  CASE d.op = "fadd_h" -> fadd_h(s, d)
    [] d.op = "fadd_s" -> fadd_s(s, d)
    [] d.op = "fadd_d" -> fadd_d(s, d)
    [] d.op = "fadd_q" -> fadd_q(s, d)
    [] d.op = "fsub_h" -> fsub_h(s, d)
    [] d.op = "fsub_s" -> fsub_s(s, d)
    [] d.op = "fsub_d" -> fsub_d(s, d)
    [] d.op = "fsub_q" -> fsub_q(s, d)
    [] d.op = "fmul_h" -> fmul_h(s, d)
    [] d.op = "fmul_s" -> fmul_s(s, d)
    [] d.op = "fmul_d" -> fmul_d(s, d)
    [] d.op = "fmul_q" -> fmul_q(s, d)
    [] d.op = "fdiv_h" -> fdiv_h(s, d)
    [] d.op = "fdiv_s" -> fdiv_s(s, d)
    [] d.op = "fdiv_d" -> fdiv_d(s, d)
    [] d.op = "fdiv_q" -> fdiv_q(s, d)
    [] d.op = "fsqrt_h" -> fsqrt_h(s, d)
    [] d.op = "fsqrt_s" -> fsqrt_s(s, d)
    [] d.op = "fsqrt_d" -> fsqrt_d(s, d)
    [] d.op = "fsqrt_q" -> fsqrt_q(s, d)
    [] d.op = "fmadd_h" -> fmadd_h(s, d)
    [] d.op = "fmadd_s" -> fmadd_s(s, d)
    [] d.op = "fmadd_d" -> fmadd_d(s, d)
    [] d.op = "fmadd_q" -> fmadd_q(s, d)
    [] d.op = "fmsub_h" -> fmsub_h(s, d)
    [] d.op = "fmsub_s" -> fmsub_s(s, d)
    [] d.op = "fmsub_d" -> fmsub_d(s, d)
    [] d.op = "fmsub_q" -> fmsub_q(s, d)
    [] d.op = "fnmsub_h" -> fnmsub_h(s, d)
    [] d.op = "fnmsub_s" -> fnmsub_s(s, d)
    [] d.op = "fnmsub_d" -> fnmsub_d(s, d)
    [] d.op = "fnmsub_q" -> fnmsub_q(s, d)
    [] d.op = "fnmadd_h" -> fnmadd_h(s, d)
    [] d.op = "fnmadd_s" -> fnmadd_s(s, d)
    [] d.op = "fnmadd_d" -> fnmadd_d(s, d)
    [] d.op = "fnmadd_q" -> fnmadd_q(s, d)
    [] d.op = "feq_h" -> feq_h(s, d)
    [] d.op = "feq_s" -> feq_s(s, d)
    [] d.op = "feq_d" -> feq_d(s, d)
    [] d.op = "feq_q" -> feq_q(s, d)
    [] d.op = "flt_h" -> flt_h(s, d)
    [] d.op = "flt_s" -> flt_s(s, d)
    [] d.op = "flt_d" -> flt_d(s, d)
    [] d.op = "flt_q" -> flt_q(s, d)
    [] d.op = "fle_h" -> fle_h(s, d)
    [] d.op = "fle_s" -> fle_s(s, d)
    [] d.op = "fle_d" -> fle_d(s, d)
    [] d.op = "fle_q" -> fle_q(s, d)
    [] d.op = "fclass_h" -> fclass_h(s, d)
    [] d.op = "fclass_s" -> fclass_s(s, d)
    [] d.op = "fclass_d" -> fclass_d(s, d)
    [] d.op = "fclass_q" -> fclass_q(s, d)
    [] d.op = "fmin_s" -> fmin_s(s, d)
    [] d.op = "fmin_d" -> fmin_d(s, d)
    [] d.op = "fmin_q" -> fmin_q(s, d)
    [] d.op = "fmin_h" -> fmin_h(s, d)
    [] d.op = "fmax_s" -> fmax_s(s, d)
    [] d.op = "fmax_d" -> fmax_d(s, d)
    [] d.op = "fmax_q" -> fmax_q(s, d)
    [] d.op = "fmax_h" -> fmax_h(s, d)
    [] d.op = "fsgnj_h" -> fsgnj_h(s, d)
    [] d.op = "fsgnj_s" -> fsgnj_s(s, d)
    [] d.op = "fsgnj_d" -> fsgnj_d(s, d)
    [] d.op = "fsgnj_q" -> fsgnj_q(s, d)
    [] d.op = "fsgnjn_h" -> fsgnjn_h(s, d)
    [] d.op = "fsgnjn_s" -> fsgnjn_s(s, d)
    [] d.op = "fsgnjn_d" -> fsgnjn_d(s, d)
    [] d.op = "fsgnjn_q" -> fsgnjn_q(s, d)
    [] d.op = "fsgnjx_h" -> fsgnjx_h(s, d)
    [] d.op = "fsgnjx_s" -> fsgnjx_s(s, d)
    [] d.op = "fsgnjx_d" -> fsgnjx_d(s, d)
    [] d.op = "fsgnjx_q" -> fsgnjx_q(s, d)
    [] d.op = "fcvt_d_h" -> fcvt_d_h(s, d)
    [] d.op = "fcvt_d_s" -> fcvt_d_s(s, d)
    [] d.op = "fcvt_d_q" -> fcvt_d_q(s, d)
    [] d.op = "fcvt_h_d" -> fcvt_h_d(s, d)
    [] d.op = "fcvt_h_q" -> fcvt_h_q(s, d)
    [] d.op = "fcvt_h_s" -> fcvt_h_s(s, d)
    [] d.op = "fcvt_q_d" -> fcvt_q_d(s, d)
    [] d.op = "fcvt_q_h" -> fcvt_q_h(s, d)
    [] d.op = "fcvt_q_s" -> fcvt_q_s(s, d)
    [] d.op = "fcvt_s_d" -> fcvt_s_d(s, d)
    [] d.op = "fcvt_s_h" -> fcvt_s_h(s, d)
    [] d.op = "fcvt_s_q" -> fcvt_s_q(s, d)
    [] d.op = "fcvt_h_w" -> fcvt_h_w(s, d)
    [] d.op = "fcvt_h_wu" -> fcvt_h_wu(s, d)
    [] d.op = "fcvt_h_l" -> fcvt_h_l(s, d)
    [] d.op = "fcvt_h_lu" -> fcvt_h_lu(s, d)
    [] d.op = "fcvt_s_w" -> fcvt_s_w(s, d)
    [] d.op = "fcvt_s_wu" -> fcvt_s_wu(s, d)
    [] d.op = "fcvt_s_l" -> fcvt_s_l(s, d)
    [] d.op = "fcvt_s_lu" -> fcvt_s_lu(s, d)
    [] d.op = "fcvt_d_w" -> fcvt_d_w(s, d)
    [] d.op = "fcvt_d_wu" -> fcvt_d_wu(s, d)
    [] d.op = "fcvt_d_l" -> fcvt_d_l(s, d)
    [] d.op = "fcvt_d_lu" -> fcvt_d_lu(s, d)
    [] d.op = "fcvt_q_w" -> fcvt_q_w(s, d)
    [] d.op = "fcvt_q_wu" -> fcvt_q_wu(s, d)
    [] d.op = "fcvt_q_l" -> fcvt_q_l(s, d)
    [] d.op = "fcvt_q_lu" -> fcvt_q_lu(s, d)
    [] d.op = "fcvt_w_h" -> fcvt_w_h(s, d)
    [] d.op = "fcvt_wu_h" -> fcvt_wu_h(s, d)
    [] d.op = "fcvt_l_h" -> fcvt_l_h(s, d)
    [] d.op = "fcvt_lu_h" -> fcvt_lu_h(s, d)
    [] d.op = "fcvt_w_s" -> fcvt_w_s(s, d)
    [] d.op = "fcvt_wu_s" -> fcvt_wu_s(s, d)
    [] d.op = "fcvt_l_s" -> fcvt_l_s(s, d)
    [] d.op = "fcvt_lu_s" -> fcvt_lu_s(s, d)
    [] d.op = "fcvt_w_d" -> fcvt_w_d(s, d)
    [] d.op = "fcvt_wu_d" -> fcvt_wu_d(s, d)
    [] d.op = "fcvt_l_d" -> fcvt_l_d(s, d)
    [] d.op = "fcvt_lu_d" -> fcvt_lu_d(s, d)
    [] d.op = "fcvt_w_q" -> fcvt_w_q(s, d)
    [] d.op = "fcvt_wu_q" -> fcvt_wu_q(s, d)
    [] d.op = "fcvt_l_q" -> fcvt_l_q(s, d)
    [] d.op = "fcvt_lu_q" -> fcvt_lu_q(s, d)
    [] d.op = "fmv_h_x" -> fmv_h_x(s, d)
    [] d.op = "fmv_w_x" -> fmv_w_x(s, d)
    [] d.op = "fmv_d_x" -> fmv_d_x(s, d)
    [] d.op = "fmv_x_h" -> fmv_x_h(s, d)
    [] d.op = "fmv_x_w" -> fmv_x_w(s, d)
    [] d.op = "fmv_x_d" -> fmv_x_d(s, d)
    [] d.op = "flh" -> flh(s, d)
    [] d.op = "flw" -> flw(s, d)
    [] d.op = "fld" -> fld(s, d)
    [] d.op = "flq" -> flq(s, d)
    [] d.op = "fsh" -> fsh(s, d)
    [] d.op = "fsw" -> fsw(s, d)
    [] d.op = "fsd" -> fsd(s, d)
    [] d.op = "fsq" -> fsq(s, d)
    [] d.op = "c_fld" -> c_fld(s, d)
    [] d.op = "c_fldsp" -> c_fldsp(s, d)
    [] d.op = "c_fsd" -> c_fsd(s, d)
    [] d.op = "c_fsdsp" -> c_fsdsp(s, d)
    [] d.op = "c_flw" -> c_flw(s, d)
    [] d.op = "c_flwsp" -> c_flwsp(s, d)
    [] d.op = "c_fsw" -> c_fsw(s, d)
    [] d.op = "c_fswsp" -> c_fswsp(s, d)
===============================================================================
