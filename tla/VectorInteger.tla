---------------------------- MODULE VectorInteger ----------------------------
(****************************************************************************)
(* The integer instructions of the vector unit (riscv/insns/v*.h): one       *)
(* operator per instruction, named as its file, a loop of VectorUnit over    *)
(* the instruction's body.  In a body `vd' is the old destination element,   *)
(* `a' the first source (vs1, rs1 or the immediate) and `b' is vs2.          *)
(****************************************************************************)
EXTENDS VectorUnit, Bitwise

(*------------------------------- arithmetic -------------------------------*)

U(u, x) == Unsigned(x, u.vsew)

Plus(vd, a, b) == b + a
Minus(vd, a, b) == b - a
FromFirst(vd, a, b) == a - b
Times(vd, a, b) == b * a
Larger(vd, a, b) == IF a >= b THEN a ELSE b
Smaller(vd, a, b) == IF a <= b THEN a ELSE b

Magnitude(x) == IF x < 0 THEN -x ELSE x
Quotient(x, y) ==
  (IF (x < 0) # (y < 0) THEN -1 ELSE 1) * (Magnitude(x) \div Magnitude(y))
Remainder(x, y) == x - Quotient(x, y) * y
Lowest(u) == -(2 ^ (Bits(u.vsew) - 1))

Divided(u, a, b) ==
  IF a = 0 THEN -1 ELSE IF b = Lowest(u) /\ a = -1 THEN b ELSE Quotient(b, a)
Remaining(u, a, b) ==
  IF a = 0 THEN b ELSE IF b = Lowest(u) /\ a = -1 THEN 0 ELSE Remainder(b, a)
DividedU(a, b) == IF a = 0 THEN -1 ELSE b \div a
RemainingU(a, b) == IF a = 0 THEN b ELSE b % a

BitAnd(u, a, b) == U(u, a) & U(u, b)
BitOr(u, a, b) == U(u, a) | U(u, b)
BitXor(u, a, b) == U(u, a) ^^ U(u, b)

(* A shift by the low bits of the amount, as many as the width needs; an    *)
(* immediate amount has the bits of the field only.                         *)
Amount(u, a) == a % Bits(u.vsew)
ImmAmount(u, a) == (a % Bits(u.vsew)) % NVPR
ShiftRight(x, n) == x \div 2 ^ n
ShiftLeft(x, n) == x * 2 ^ n

High(u, p) == ShiftRight(p, Bits(u.vsew))

vadd_vv(u, d) == VI_VV_LOOP(u, d, Plus)
vadd_vx(u, d) == VI_VX_LOOP(u, d, Plus)
vadd_vi(u, d) == VI_VI_LOOP(u, d, Plus)
vsub_vv(u, d) == VI_VV_LOOP(u, d, Minus)
vsub_vx(u, d) == VI_VX_LOOP(u, d, Minus)
vrsub_vx(u, d) == VI_VX_LOOP(u, d, FromFirst)
vrsub_vi(u, d) == VI_VI_LOOP(u, d, FromFirst)
vmul_vv(u, d) == VI_VV_LOOP(u, d, Times)
vmul_vx(u, d) == VI_VX_LOOP(u, d, Times)
vmax_vv(u, d) == VI_VV_LOOP(u, d, Larger)
vmax_vx(u, d) == VI_VX_LOOP(u, d, Larger)
vmaxu_vv(u, d) == VI_VV_ULOOP(u, d, Larger)
vmaxu_vx(u, d) == VI_VX_ULOOP(u, d, Larger)
vmin_vv(u, d) == VI_VV_LOOP(u, d, Smaller)
vmin_vx(u, d) == VI_VX_LOOP(u, d, Smaller)
vminu_vv(u, d) == VI_VV_ULOOP(u, d, Smaller)
vminu_vx(u, d) == VI_VX_ULOOP(u, d, Smaller)

vdiv_vv(u, d) == VI_VV_LOOP(u, d, LAMBDA vd, a, b : Divided(u, a, b))
vdiv_vx(u, d) == VI_VX_LOOP(u, d, LAMBDA vd, a, b : Divided(u, a, b))
vdivu_vv(u, d) == VI_VV_ULOOP(u, d, LAMBDA vd, a, b : DividedU(a, b))
vdivu_vx(u, d) == VI_VX_ULOOP(u, d, LAMBDA vd, a, b : DividedU(a, b))
vrem_vv(u, d) == VI_VV_LOOP(u, d, LAMBDA vd, a, b : Remaining(u, a, b))
vrem_vx(u, d) == VI_VX_LOOP(u, d, LAMBDA vd, a, b : Remaining(u, a, b))
vremu_vv(u, d) == VI_VV_ULOOP(u, d, LAMBDA vd, a, b : RemainingU(a, b))
vremu_vx(u, d) == VI_VX_ULOOP(u, d, LAMBDA vd, a, b : RemainingU(a, b))
vmulh_vv(u, d) == VI_VV_LOOP(u, d, LAMBDA vd, a, b : High(u, b * a))
vmulh_vx(u, d) == VI_VX_LOOP(u, d, LAMBDA vd, a, b : High(u, b * a))
vmulhu_vv(u, d) == VI_VV_ULOOP(u, d, LAMBDA vd, a, b : High(u, b * a))
vmulhu_vx(u, d) == VI_VX_ULOOP(u, d, LAMBDA vd, a, b : High(u, b * a))

(* The operands of vmulhsu: the first source is unsigned, vs2 signed.       *)
VV_SU_PARAMS(u, d, i) == <<0, elt(u, d.rs1, i, u.vsew), selt(u, d.rs2, i, u.vsew)>>
VX_SU_PARAMS(u, d, i) == <<0, U(u, d.RS1), selt(u, d.rs2, i, u.vsew)>>

vmulhsu_vv(u, d) ==
  Writing(u, d, VI_CHECK_SSS(u, d, TRUE), VV_SU_PARAMS, LAMBDA vd, a, b : High(u, b * a))
vmulhsu_vx(u, d) ==
  Writing(u, d, VI_CHECK_SSS(u, d, FALSE), VX_SU_PARAMS, LAMBDA vd, a, b : High(u, b * a))

(* Multiply and add: into the accumulator vd (vmacc, vnmsac, the dot        *)
(* products) or with vd as a factor (vmadd, vnmsub).                        *)
vmacc_vv(u, d) == VI_VV_LOOP(u, d, LAMBDA vd, a, b : a * b + vd)
vmacc_vx(u, d) == VI_VX_LOOP(u, d, LAMBDA vd, a, b : a * b + vd)
vmadd_vv(u, d) == VI_VV_LOOP(u, d, LAMBDA vd, a, b : vd * a + b)
vmadd_vx(u, d) == VI_VX_LOOP(u, d, LAMBDA vd, a, b : vd * a + b)
vnmsac_vv(u, d) == VI_VV_LOOP(u, d, LAMBDA vd, a, b : -(a * b) + vd)
vnmsac_vx(u, d) == VI_VX_LOOP(u, d, LAMBDA vd, a, b : -(a * b) + vd)
vnmsub_vv(u, d) == VI_VV_LOOP(u, d, LAMBDA vd, a, b : -(vd * a) + b)
vnmsub_vx(u, d) == VI_VX_LOOP(u, d, LAMBDA vd, a, b : -(vd * a) + b)
vdot_vv(u, d) == VI_VV_LOOP(u, d, LAMBDA vd, a, b : vd + b * a)
vdotu_vv(u, d) == VI_VV_ULOOP(u, d, LAMBDA vd, a, b : vd + b * a)

(*---------------------------- logic and shifts ----------------------------*)

vand_vv(u, d) == VI_VV_LOOP(u, d, LAMBDA vd, a, b : BitAnd(u, a, b))
vand_vx(u, d) == VI_VX_LOOP(u, d, LAMBDA vd, a, b : BitAnd(u, a, b))
vand_vi(u, d) == VI_VI_LOOP(u, d, LAMBDA vd, a, b : BitAnd(u, a, b))
vor_vv(u, d) == VI_VV_LOOP(u, d, LAMBDA vd, a, b : BitOr(u, a, b))
vor_vx(u, d) == VI_VX_LOOP(u, d, LAMBDA vd, a, b : BitOr(u, a, b))
vor_vi(u, d) == VI_VI_LOOP(u, d, LAMBDA vd, a, b : BitOr(u, a, b))
vxor_vv(u, d) == VI_VV_LOOP(u, d, LAMBDA vd, a, b : BitXor(u, a, b))
vxor_vx(u, d) == VI_VX_LOOP(u, d, LAMBDA vd, a, b : BitXor(u, a, b))
vxor_vi(u, d) == VI_VI_LOOP(u, d, LAMBDA vd, a, b : BitXor(u, a, b))

vsll_vv(u, d) == VI_VV_LOOP(u, d, LAMBDA vd, a, b : ShiftLeft(b, Amount(u, a)))
vsll_vx(u, d) == VI_VX_LOOP(u, d, LAMBDA vd, a, b : ShiftLeft(b, Amount(u, a)))
vsll_vi(u, d) == VI_VI_LOOP(u, d, LAMBDA vd, a, b : ShiftLeft(b, ImmAmount(u, a)))
vsra_vv(u, d) == VI_VV_LOOP(u, d, LAMBDA vd, a, b : ShiftRight(b, Amount(u, a)))
vsra_vx(u, d) == VI_VX_LOOP(u, d, LAMBDA vd, a, b : ShiftRight(b, Amount(u, a)))
vsra_vi(u, d) == VI_VI_LOOP(u, d, LAMBDA vd, a, b : ShiftRight(b, ImmAmount(u, a)))
vsrl_vv(u, d) == VI_VV_ULOOP(u, d, LAMBDA vd, a, b : ShiftRight(b, Amount(u, a)))
vsrl_vx(u, d) == VI_VX_ULOOP(u, d, LAMBDA vd, a, b : ShiftRight(b, Amount(u, a)))
vsrl_vi(u, d) == VI_VI_ULOOP(u, d, LAMBDA vd, a, b : ShiftRight(b, ImmAmount(u, a)))

(* Narrowing shifts: vs2 has elements of twice the width.  A masked one     *)
(* may not write a group that starts at the mask.                           *)
NSHIFT_BASE(u, d) ==
  d.vm = 0 /\ Elements(u) # <<>> => ~ (d.rd = 0 /\ u.vflmul > 8)

NSHIFT(u, d, is_vs1, Read(_, _), Source(_, _, _)) ==
  VI_LOOP(u, d, VI_CHECK_SDS(u, d, is_vs1) /\ NSHIFT_BASE(u, d), LAMBDA s, i :
    SetElt(s, d.rd, i, s.vsew,
           ShiftRight(Read(elt(s, d.rs2, i, 2 * s.vsew), 2 * s.vsew),
                      Source(s, d, i) % (2 * Bits(s.vsew)))))

VV_NSHIFT_PARAMS(u, d, i) == elt(u, d.rs1, i, u.vsew)
VX_NSHIFT_PARAMS(u, d, i) == d.RS1
VI_NSHIFT_PARAMS(u, d, i) == zimm5(d)

VI_VV_LOOP_NSHIFT(u, d, Read(_, _)) == NSHIFT(u, d, TRUE, Read, VV_NSHIFT_PARAMS)
VI_VX_LOOP_NSHIFT(u, d, Read(_, _)) == NSHIFT(u, d, FALSE, Read, VX_NSHIFT_PARAMS)
VI_VI_LOOP_NSHIFT(u, d, Read(_, _)) == NSHIFT(u, d, FALSE, Read, VI_NSHIFT_PARAMS)

vnsra_wv(u, d) == VI_VV_LOOP_NSHIFT(u, d, Signed)
vnsra_wx(u, d) == VI_VX_LOOP_NSHIFT(u, d, Signed)
vnsra_wi(u, d) == VI_VI_LOOP_NSHIFT(u, d, Signed)
vnsrl_wv(u, d) == VI_VV_LOOP_NSHIFT(u, d, Unsigned)
vnsrl_wx(u, d) == VI_VX_LOOP_NSHIFT(u, d, Unsigned)
vnsrl_wi(u, d) == VI_VI_LOOP_NSHIFT(u, d, Unsigned)

(*-------------------------------- widening --------------------------------*)

(* VI_WIDE_OP_AND_ASSIGN, VI_WIDE_OP_AND_ASSIGN_MIX: the sources are cast to *)
(* the width of an element each with its own signedness; the result and vd_w *)
(* have twice that width.                                                    *)
VI_WIDE_OP_AND_ASSIGN_MIX(s, d, i, p, Op(_, _), Acc, Read1(_, _), Read2(_, _)) ==
  SetElt(s, d.rd, i, 2 * s.vsew,
         Op(Read1(p[3], s.vsew), Read2(p[2], s.vsew))
         + (IF Acc THEN elt(s, d.rd, i, 2 * s.vsew) ELSE 0))

VI_WIDE_OP_AND_ASSIGN(s, d, i, p, Op(_, _), Acc, Read(_, _)) ==
  VI_WIDE_OP_AND_ASSIGN_MIX(s, d, i, p, Op, Acc, Read, Read)

VI_WIDE_WVX_OP(s, d, i, p, Op(_, _), Read(_, _)) ==
  SetElt(s, d.rd, i, 2 * s.vsew,
         Op(elt(s, d.rs2, i, 2 * s.vsew), Read(p[2], s.vsew)))

VI_VV_LOOP_WIDEN(u, d, ok, Body(_, _, _)) ==
  VI_LOOP(u, d, ok, LAMBDA s, i : Body(s, i, VV_PARAMS(s, d, i)))
VI_VX_LOOP_WIDEN(u, d, ok, Body(_, _, _)) ==
  VI_LOOP(u, d, ok, LAMBDA s, i : Body(s, i, VX_PARAMS(s, d, i)))

Sum2(x, y) == x + y
Difference(x, y) == x - y
Product(x, y) == x * y

vwadd_vv(u, d) == VI_VV_LOOP_WIDEN(u, d, VI_CHECK_DSS(u, d, TRUE), LAMBDA s, i, p :
  VI_WIDE_OP_AND_ASSIGN(s, d, i, p, Sum2, FALSE, Signed))
vwadd_vx(u, d) == VI_VX_LOOP_WIDEN(u, d, VI_CHECK_DSS(u, d, FALSE), LAMBDA s, i, p :
  VI_WIDE_OP_AND_ASSIGN(s, d, i, p, Sum2, FALSE, Signed))
vwadd_wv(u, d) == VI_VV_LOOP_WIDEN(u, d, VI_CHECK_DDS(u, d, TRUE), LAMBDA s, i, p :
  VI_WIDE_WVX_OP(s, d, i, p, Sum2, Signed))
vwadd_wx(u, d) == VI_VX_LOOP_WIDEN(u, d, VI_CHECK_DDS(u, d, FALSE), LAMBDA s, i, p :
  VI_WIDE_WVX_OP(s, d, i, p, Sum2, Signed))
vwaddu_vv(u, d) == VI_VV_LOOP_WIDEN(u, d, VI_CHECK_DSS(u, d, TRUE), LAMBDA s, i, p :
  VI_WIDE_OP_AND_ASSIGN(s, d, i, p, Sum2, FALSE, Unsigned))
vwaddu_vx(u, d) == VI_VX_LOOP_WIDEN(u, d, VI_CHECK_DSS(u, d, FALSE), LAMBDA s, i, p :
  VI_WIDE_OP_AND_ASSIGN(s, d, i, p, Sum2, FALSE, Unsigned))
vwaddu_wv(u, d) == VI_VV_LOOP_WIDEN(u, d, VI_CHECK_DDS(u, d, TRUE), LAMBDA s, i, p :
  VI_WIDE_WVX_OP(s, d, i, p, Sum2, Unsigned))
vwaddu_wx(u, d) == VI_VX_LOOP_WIDEN(u, d, VI_CHECK_DDS(u, d, FALSE), LAMBDA s, i, p :
  VI_WIDE_WVX_OP(s, d, i, p, Sum2, Unsigned))
vwsub_vv(u, d) == VI_VV_LOOP_WIDEN(u, d, VI_CHECK_DSS(u, d, TRUE), LAMBDA s, i, p :
  VI_WIDE_OP_AND_ASSIGN(s, d, i, p, Difference, FALSE, Signed))
vwsub_vx(u, d) == VI_VX_LOOP_WIDEN(u, d, VI_CHECK_DSS(u, d, FALSE), LAMBDA s, i, p :
  VI_WIDE_OP_AND_ASSIGN(s, d, i, p, Difference, FALSE, Signed))
vwsub_wv(u, d) == VI_VV_LOOP_WIDEN(u, d, VI_CHECK_DDS(u, d, TRUE), LAMBDA s, i, p :
  VI_WIDE_WVX_OP(s, d, i, p, Difference, Signed))
vwsub_wx(u, d) == VI_VX_LOOP_WIDEN(u, d, VI_CHECK_DDS(u, d, FALSE), LAMBDA s, i, p :
  VI_WIDE_WVX_OP(s, d, i, p, Difference, Signed))
vwsubu_vv(u, d) == VI_VV_LOOP_WIDEN(u, d, VI_CHECK_DSS(u, d, TRUE), LAMBDA s, i, p :
  VI_WIDE_OP_AND_ASSIGN(s, d, i, p, Difference, FALSE, Unsigned))
vwsubu_vx(u, d) == VI_VX_LOOP_WIDEN(u, d, VI_CHECK_DSS(u, d, FALSE), LAMBDA s, i, p :
  VI_WIDE_OP_AND_ASSIGN(s, d, i, p, Difference, FALSE, Unsigned))
vwsubu_wv(u, d) == VI_VV_LOOP_WIDEN(u, d, VI_CHECK_DDS(u, d, TRUE), LAMBDA s, i, p :
  VI_WIDE_WVX_OP(s, d, i, p, Difference, Unsigned))
vwsubu_wx(u, d) == VI_VX_LOOP_WIDEN(u, d, VI_CHECK_DDS(u, d, FALSE), LAMBDA s, i, p :
  VI_WIDE_WVX_OP(s, d, i, p, Difference, Unsigned))
vwmul_vv(u, d) == VI_VV_LOOP_WIDEN(u, d, VI_CHECK_DSS(u, d, TRUE), LAMBDA s, i, p :
  VI_WIDE_OP_AND_ASSIGN(s, d, i, p, Product, FALSE, Signed))
vwmul_vx(u, d) == VI_VX_LOOP_WIDEN(u, d, VI_CHECK_DSS(u, d, FALSE), LAMBDA s, i, p :
  VI_WIDE_OP_AND_ASSIGN(s, d, i, p, Product, FALSE, Signed))
vwmulu_vv(u, d) == VI_VV_LOOP_WIDEN(u, d, VI_CHECK_DSS(u, d, TRUE), LAMBDA s, i, p :
  VI_WIDE_OP_AND_ASSIGN(s, d, i, p, Product, FALSE, Unsigned))
vwmulu_vx(u, d) == VI_VX_LOOP_WIDEN(u, d, VI_CHECK_DSS(u, d, FALSE), LAMBDA s, i, p :
  VI_WIDE_OP_AND_ASSIGN(s, d, i, p, Product, FALSE, Unsigned))
vwmulsu_vv(u, d) == VI_VV_LOOP_WIDEN(u, d, VI_CHECK_DSS(u, d, TRUE), LAMBDA s, i, p :
  VI_WIDE_OP_AND_ASSIGN_MIX(s, d, i, p, Product, FALSE, Signed, Unsigned))
vwmulsu_vx(u, d) == VI_VX_LOOP_WIDEN(u, d, VI_CHECK_DSS(u, d, FALSE), LAMBDA s, i, p :
  VI_WIDE_OP_AND_ASSIGN_MIX(s, d, i, p, Product, FALSE, Signed, Unsigned))
vwmacc_vv(u, d) == VI_VV_LOOP_WIDEN(u, d, VI_CHECK_DSS(u, d, TRUE), LAMBDA s, i, p :
  VI_WIDE_OP_AND_ASSIGN(s, d, i, p, Product, TRUE, Signed))
vwmacc_vx(u, d) == VI_VX_LOOP_WIDEN(u, d, VI_CHECK_DSS(u, d, FALSE), LAMBDA s, i, p :
  VI_WIDE_OP_AND_ASSIGN(s, d, i, p, Product, TRUE, Signed))
vwmaccu_vv(u, d) == VI_VV_LOOP_WIDEN(u, d, VI_CHECK_DSS(u, d, TRUE), LAMBDA s, i, p :
  VI_WIDE_OP_AND_ASSIGN(s, d, i, p, Product, TRUE, Unsigned))
vwmaccu_vx(u, d) == VI_VX_LOOP_WIDEN(u, d, VI_CHECK_DSS(u, d, FALSE), LAMBDA s, i, p :
  VI_WIDE_OP_AND_ASSIGN(s, d, i, p, Product, TRUE, Unsigned))
vwmaccsu_vv(u, d) == VI_VV_LOOP_WIDEN(u, d, VI_CHECK_DSS(u, d, TRUE), LAMBDA s, i, p :
  VI_WIDE_OP_AND_ASSIGN_MIX(s, d, i, p, Product, TRUE, Unsigned, Signed))
vwmaccsu_vx(u, d) == VI_VX_LOOP_WIDEN(u, d, VI_CHECK_DSS(u, d, FALSE), LAMBDA s, i, p :
  VI_WIDE_OP_AND_ASSIGN_MIX(s, d, i, p, Product, TRUE, Unsigned, Signed))
vwmaccus_vx(u, d) == VI_VX_LOOP_WIDEN(u, d, VI_CHECK_DSS(u, d, FALSE), LAMBDA s, i, p :
  VI_WIDE_OP_AND_ASSIGN_MIX(s, d, i, p, Product, TRUE, Signed, Unsigned))

(* Extension of the elements of a group `div' times smaller.                *)
ExtendedFrom(u, d, from, part, Read(_, _)) ==
  VI_LOOP(u, d, /\ d.rd # d.rs2 /\ require_vm(d)
                /\ from >= e8
                /\ is_aligned(d.rd, u.vflmul) /\ is_aligned(d.rs2, part)
                /\ Disjoint(u, d.rd, u.vflmul, d.rs2, part),
          LAMBDA s, i : SetElt(s, d.rd, i, s.vsew, Read(elt(s, d.rs2, i, from), from)))

VI_VV_EXT(u, d, div, Read(_, _)) ==
  ExtendedFrom(u, d, u.vsew \div div, u.vflmul \div div, Read)

vsext_vf2(u, d) == VI_VV_EXT(u, d, 2, Signed)
vsext_vf4(u, d) == VI_VV_EXT(u, d, 4, Signed)
vsext_vf8(u, d) == VI_VV_EXT(u, d, 8, Signed)
vzext_vf2(u, d) == VI_VV_EXT(u, d, 2, Unsigned)
vzext_vf4(u, d) == VI_VV_EXT(u, d, 4, Unsigned)
vzext_vf8(u, d) == VI_VV_EXT(u, d, 8, Unsigned)

(*---------------------------- carry and borrow ----------------------------*)

VV_CARRY_PARAMS(u, d, i) == <<elt(u, d.rs1, i, u.vsew), elt(u, d.rs2, i, u.vsew)>>
XI_CARRY_PARAMS(u, d, i) == <<U(u, d.RS1), elt(u, d.rs2, i, u.vsew)>>
IM_CARRY_PARAMS(u, d, i) == <<U(u, simm5(d)), elt(u, d.rs2, i, u.vsew)>>

(* The carry out goes to a mask; the carry in is v0, for the form that has  *)
(* one.                                                                     *)
WithCarry(Out(_, _, _), p, carry) == Out(p[1], p[2], carry)

VI_VV_LOOP_CARRY(u, d, Out(_, _, _)) ==
  VI_GENERAL_LOOP(u, d, VI_CHECK_MSS(u, d, TRUE), LAMBDA s, i :
    SetMaskBit(s, d.rd, i,
      High(s, WithCarry(Out, VV_CARRY_PARAMS(s, d, i), IF d.vm = 0 THEN MaskBit(s, 0, i) ELSE 0)) % 2))
VI_XI_LOOP_CARRY(u, d, Params(_, _, _), Out(_, _, _)) ==
  VI_GENERAL_LOOP(u, d, VI_CHECK_MSS(u, d, FALSE), LAMBDA s, i :
    SetMaskBit(s, d.rd, i,
      High(s, WithCarry(Out, Params(s, d, i), IF d.vm = 0 THEN MaskBit(s, 0, i) ELSE 0)) % 2))

(* The sum itself, the carry in always v0's.                                *)
VI_VV_LOOP_WITH_CARRY(u, d, Out(_, _, _)) ==
  VI_GENERAL_LOOP(u, d, d.rd # 0 /\ VI_CHECK_SSS(u, d, TRUE), LAMBDA s, i :
    SetElt(s, d.rd, i, s.vsew, WithCarry(Out, VV_CARRY_PARAMS(s, d, i), MaskBit(s, 0, i))))
VI_XI_LOOP_WITH_CARRY(u, d, Params(_, _, _), Out(_, _, _)) ==
  VI_GENERAL_LOOP(u, d, d.rd # 0 /\ VI_CHECK_SSS(u, d, FALSE), LAMBDA s, i :
    SetElt(s, d.rd, i, s.vsew, WithCarry(Out, Params(s, d, i), MaskBit(s, 0, i))))

Adding(a, b, carry) == b + a + carry
Borrowing(a, b, carry) == b - a - carry

vadc_vvm(u, d) == VI_VV_LOOP_WITH_CARRY(u, d, Adding)
vadc_vxm(u, d) == VI_XI_LOOP_WITH_CARRY(u, d, XI_CARRY_PARAMS, Adding)
vadc_vim(u, d) == VI_XI_LOOP_WITH_CARRY(u, d, IM_CARRY_PARAMS, Adding)
vsbc_vvm(u, d) == VI_VV_LOOP_WITH_CARRY(u, d, Borrowing)
vsbc_vxm(u, d) == VI_XI_LOOP_WITH_CARRY(u, d, XI_CARRY_PARAMS, Borrowing)
vmadc_vvm(u, d) == VI_VV_LOOP_CARRY(u, d, Adding)
vmadc_vxm(u, d) == VI_XI_LOOP_CARRY(u, d, XI_CARRY_PARAMS, Adding)
vmadc_vim(u, d) == VI_XI_LOOP_CARRY(u, d, IM_CARRY_PARAMS, Adding)
vmsbc_vvm(u, d) == VI_VV_LOOP_CARRY(u, d, Borrowing)
vmsbc_vxm(u, d) == VI_XI_LOOP_CARRY(u, d, XI_CARRY_PARAMS, Borrowing)

(*------------------------------- comparisons ------------------------------*)

Equal(a, b) == b = a
Differs(a, b) == b # a
Less(a, b) == b < a
AtMost(a, b) == b <= a
Greater(a, b) == b > a

vmseq_vv(u, d) == VI_VV_LOOP_CMP(u, d, Equal)
vmseq_vx(u, d) == VI_VX_LOOP_CMP(u, d, Equal)
vmseq_vi(u, d) == VI_VI_LOOP_CMP(u, d, Equal)
vmsne_vv(u, d) == VI_VV_LOOP_CMP(u, d, Differs)
vmsne_vx(u, d) == VI_VX_LOOP_CMP(u, d, Differs)
vmsne_vi(u, d) == VI_VI_LOOP_CMP(u, d, Differs)
vmslt_vv(u, d) == VI_VV_LOOP_CMP(u, d, Less)
vmslt_vx(u, d) == VI_VX_LOOP_CMP(u, d, Less)
vmsltu_vv(u, d) == VI_VV_ULOOP_CMP(u, d, Less)
vmsltu_vx(u, d) == VI_VX_ULOOP_CMP(u, d, Less)
vmsle_vv(u, d) == VI_VV_LOOP_CMP(u, d, AtMost)
vmsle_vx(u, d) == VI_VX_LOOP_CMP(u, d, AtMost)
vmsle_vi(u, d) == VI_VI_LOOP_CMP(u, d, AtMost)
vmsleu_vv(u, d) == VI_VV_ULOOP_CMP(u, d, AtMost)
vmsleu_vx(u, d) == VI_VX_ULOOP_CMP(u, d, AtMost)
vmsleu_vi(u, d) == VI_VI_ULOOP_CMP(u, d, AtMost)
vmsgt_vx(u, d) == VI_VX_LOOP_CMP(u, d, Greater)
vmsgt_vi(u, d) == VI_VI_LOOP_CMP(u, d, Greater)
vmsgtu_vx(u, d) == VI_VX_ULOOP_CMP(u, d, Greater)
vmsgtu_vi(u, d) == VI_VI_ULOOP_CMP(u, d, Greater)
===============================================================================
