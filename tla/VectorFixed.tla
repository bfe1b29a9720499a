----------------------------- MODULE VectorFixed -----------------------------
(****************************************************************************)
(* The fixed-point instructions of the vector unit, its reductions, the      *)
(* instructions that move elements between positions and those on masks      *)
(* (riscv/insns/v*.h, riscv/arith.h).                                        *)
(****************************************************************************)
EXTENDS VectorInteger

(*------------------------- saturating addition ----------------------------*)

Highest(u) == 2 ^ (Bits(u.vsew) - 1) - 1

(* sat_add, sat_sub: on overflow, the bound on x's side.  The sum overflows *)
(* when its sign, after wrapping, differs from the sign both x and y have.  *)
Cut(u, x, res, sat) ==
  <<IF sat THEN (IF x < 0 THEN Lowest(u) ELSE Highest(u)) ELSE res, sat>>
CutSum(u, x, y, res) == Cut(u, x, res, (x < 0) = (y < 0) /\ (res < 0) # (x < 0))

sat_add(u, x, y) == CutSum(u, x, y, Signed(x + y, u.vsew))

CutDifference(u, x, y, res) == Cut(u, x, res, (x < 0) # (y < 0) /\ (res < 0) # (x < 0))

sat_sub(u, x, y) == CutDifference(u, x, y, Signed(x - y, u.vsew))

CutBelow(x, res) == <<IF res <= x THEN res ELSE 0, ~(res <= x)>>
sat_subu(u, x, y) == CutBelow(x, U(u, x - y))

(* vsaddu: a wrapped sum is below vs2, and becomes all ones.                *)
CutAbove(x, res) == <<IF res < x THEN -1 ELSE res, res < x>>
WrappedSum(u, x, y) == CutAbove(x, U(u, x + y))

vsadd_vv(u, d) == Saturating(u, d, VI_CHECK_SSS(u, d, TRUE), VV_PARAMS, LAMBDA vd, a, b : sat_add(u, b, a))
vsadd_vx(u, d) == Saturating(u, d, VI_CHECK_SSS(u, d, FALSE), VX_PARAMS, LAMBDA vd, a, b : sat_add(u, b, a))
vsadd_vi(u, d) == Saturating(u, d, VI_CHECK_SSS(u, d, FALSE), VI_PARAMS, LAMBDA vd, a, b : sat_add(u, b, a))
vssub_vv(u, d) == Saturating(u, d, VI_CHECK_SSS(u, d, TRUE), VV_PARAMS, LAMBDA vd, a, b : sat_sub(u, b, a))
vssub_vx(u, d) == Saturating(u, d, VI_CHECK_SSS(u, d, FALSE), VX_PARAMS, LAMBDA vd, a, b : sat_sub(u, b, a))
vssubu_vv(u, d) == Saturating(u, d, VI_CHECK_SSS(u, d, TRUE), VV_U_PARAMS, LAMBDA vd, a, b : sat_subu(u, b, a))
vssubu_vx(u, d) == Saturating(u, d, VI_CHECK_SSS(u, d, FALSE), VX_U_PARAMS, LAMBDA vd, a, b : sat_subu(u, b, a))
vsaddu_vv(u, d) == Saturating(u, d, VI_CHECK_SSS(u, d, TRUE), VV_U_PARAMS, LAMBDA vd, a, b : WrappedSum(u, b, a))
vsaddu_vx(u, d) == Saturating(u, d, VI_CHECK_SSS(u, d, FALSE), VX_U_PARAMS, LAMBDA vd, a, b : WrappedSum(u, b, a))
vsaddu_vi(u, d) ==
  Saturating(u, d, VI_CHECK_SSS(u, d, FALSE), VI_U_PARAMS,
             LAMBDA vd, a, b : WrappedSum(u, b, U(u, simm5(d))))

(*------------------------- averages and scaled shifts ---------------------*)

vaadd_vv(u, d) == VI_VVX_LOOP_AVG(u, d, VV_PARAMS, Sum2, TRUE)
vaadd_vx(u, d) == VI_VVX_LOOP_AVG(u, d, VX_PARAMS, Sum2, FALSE)
vasub_vv(u, d) == VI_VVX_LOOP_AVG(u, d, VV_PARAMS, Difference, TRUE)
vasub_vx(u, d) == VI_VVX_LOOP_AVG(u, d, VX_PARAMS, Difference, FALSE)
vaaddu_vv(u, d) == VI_VVX_ULOOP_AVG(u, d, VV_U_PARAMS, Sum2, TRUE)
vaaddu_vx(u, d) == VI_VVX_ULOOP_AVG(u, d, VX_U_PARAMS, Sum2, FALSE)
vasubu_vv(u, d) == VI_VVX_ULOOP_AVG(u, d, VV_U_PARAMS, Difference, TRUE)
vasubu_vx(u, d) == VI_VVX_ULOOP_AVG(u, d, VX_U_PARAMS, Difference, FALSE)

Rounded(u, x, sh) == ShiftRight(INT_ROUNDING(x, u.vxrm, sh), sh)

vssra_vv(u, d) == VI_VV_LOOP(u, d, LAMBDA vd, a, b : Rounded(u, b, Amount(u, a)))
vssra_vx(u, d) == VI_VX_LOOP(u, d, LAMBDA vd, a, b : Rounded(u, b, Amount(u, a)))
vssra_vi(u, d) == VI_VI_LOOP(u, d, LAMBDA vd, a, b : Rounded(u, b, ImmAmount(u, a)))
vssrl_vv(u, d) == VI_VV_ULOOP(u, d, LAMBDA vd, a, b : Rounded(u, b, Amount(u, a)))
vssrl_vx(u, d) == VI_VX_ULOOP(u, d, LAMBDA vd, a, b : Rounded(u, b, Amount(u, a)))
vssrl_vi(u, d) == VI_VI_ULOOP(u, d, LAMBDA vd, a, b : Rounded(u, b, ImmAmount(u, a)))

(* The product of two fractions; only (-1) * (-1) has no representation.    *)
Fraction(u, a, b) ==
  IF a = b /\ a = Lowest(u) THEN <<Highest(u), TRUE>>
                           ELSE <<Rounded(u, a * b, Bits(u.vsew) - 1), FALSE>>

vsmul_vv(u, d) == Saturating(u, d, VI_CHECK_SSS(u, d, TRUE), VV_PARAMS, LAMBDA vd, a, b : Fraction(u, a, b))
vsmul_vx(u, d) == Saturating(u, d, VI_CHECK_SSS(u, d, FALSE), VX_PARAMS, LAMBDA vd, a, b : Fraction(u, a, b))

(*--------------------------------- clipping -------------------------------*)

(* vs2 has elements of twice the width; the shifted, rounded value is cut   *)
(* to the width of an element.                                              *)
CutTo(r, lowest, highest) ==
  IF r < lowest THEN <<lowest, TRUE>> ELSE IF r > highest THEN <<highest, TRUE>> ELSE <<r, FALSE>>
Clipped(u, x, sh) == CutTo(Rounded(u, x, sh), Lowest(u), Highest(u))

CutToU(r, n) == IF r >= 2 ^ n THEN <<-1, TRUE>> ELSE <<r, FALSE>>
ClippedU(u, x, sh) == CutToU(Rounded(u, x, sh), Bits(u.vsew))

(* VI_NARROW_SHIFT: the wide source and the amount.                         *)
WideAnd(s, d, i, Read(_, _), amount) ==
  <<0, amount % (2 * Bits(s.vsew)), Read(elt(s, d.rs2, i, 2 * s.vsew), 2 * s.vsew)>>

VI_VVXI_LOOP_NARROW(u, d, is_vs1, Read(_, _), Source(_, _, _), Narrow(_, _)) ==
  Saturating(u, d, VI_CHECK_SDS(u, d, is_vs1),
             LAMBDA s, e, i : WideAnd(s, e, i, Read, Source(s, e, i)),
             LAMBDA vd, a, b : Narrow(b, a))

vnclip_wv(u, d) == VI_VVXI_LOOP_NARROW(u, d, TRUE, Signed, VV_NSHIFT_PARAMS, LAMBDA x, sh : Clipped(u, x, sh))
vnclip_wx(u, d) == VI_VVXI_LOOP_NARROW(u, d, FALSE, Signed, VX_NSHIFT_PARAMS, LAMBDA x, sh : Clipped(u, x, sh))
vnclip_wi(u, d) == VI_VVXI_LOOP_NARROW(u, d, FALSE, Signed, VI_NSHIFT_PARAMS, LAMBDA x, sh : Clipped(u, x, sh))
vnclipu_wv(u, d) == VI_VVXI_LOOP_NARROW(u, d, TRUE, Unsigned, VV_NSHIFT_PARAMS, LAMBDA x, sh : ClippedU(u, x, sh))
vnclipu_wx(u, d) == VI_VVXI_LOOP_NARROW(u, d, FALSE, Unsigned, VX_NSHIFT_PARAMS, LAMBDA x, sh : ClippedU(u, x, sh))
vnclipu_wi(u, d) == VI_VVXI_LOOP_NARROW(u, d, FALSE, Unsigned, VI_NSHIFT_PARAMS, LAMBDA x, sh : ClippedU(u, x, sh))

(*-------------------------------- reductions ------------------------------*)

vredsum_vs(u, d) == VI_VV_LOOP_REDUCTION(u, d, Sum2)
vredand_vs(u, d) == VI_VV_LOOP_REDUCTION(u, d, LAMBDA acc, x : BitAnd(u, acc, x))
vredor_vs(u, d) == VI_VV_LOOP_REDUCTION(u, d, LAMBDA acc, x : BitOr(u, acc, x))
vredxor_vs(u, d) == VI_VV_LOOP_REDUCTION(u, d, LAMBDA acc, x : BitXor(u, acc, x))
vredmax_vs(u, d) == VI_VV_LOOP_REDUCTION(u, d, Largest)
vredmaxu_vs(u, d) == VI_VV_ULOOP_REDUCTION(u, d, Largest)
vredmin_vs(u, d) == VI_VV_LOOP_REDUCTION(u, d, Least)
vredminu_vs(u, d) == VI_VV_ULOOP_REDUCTION(u, d, Least)
vwredsum_vs(u, d) == VI_VV_LOOP_WIDE_REDUCTION(u, d, Sum2)
vwredsumu_vs(u, d) == VI_VV_ULOOP_WIDE_REDUCTION(u, d, Sum2)

(*-------------------------- slides and gathers ----------------------------*)

VI_XI_SLIDEDOWN_PARAMS(s, d, i, off) == elt(s, d.rs2, i + off, s.vsew)
VI_XI_SLIDEUP_PARAMS(s, d, i, offset) == elt(s, d.rs2, i - offset, s.vsew)

Slideup(u, d, offset) ==
  VI_LOOP(u, d, VI_CHECK_SLIDE(u, d, TRUE), LAMBDA s, i :
    IF u.vstart < offset /\ i < offset THEN s
    ELSE SetElt(s, d.rd, i, s.vsew, VI_XI_SLIDEUP_PARAMS(s, d, i, offset)))

vslideup_vx(u, d) == Slideup(u, d, d.RS1)
vslideup_vi(u, d) == Slideup(u, d, zimm5(d))

Slidedown(u, d, sh) ==
  VI_LOOP(u, d, VI_CHECK_SLIDE(u, d, FALSE), LAMBDA s, i :
    SetElt(s, d.rd, i, s.vsew,
           IF i + sh < u.vlmax THEN VI_XI_SLIDEDOWN_PARAMS(s, d, i, sh) ELSE 0))

vslidedown_vx(u, d) == Slidedown(u, d, d.RS1)
vslidedown_vi(u, d) == Slidedown(u, d, zimm5(d))

vslide1up_vx(u, d) ==
  VI_LOOP(u, d, VI_CHECK_SLIDE(u, d, TRUE), LAMBDA s, i :
    SetElt(s, d.rd, i, s.vsew,
           IF i # 0 THEN VI_XI_SLIDEUP_PARAMS(s, d, i, 1) ELSE d.RS1))

vslide1down_vx(u, d) ==
  VI_LOOP(u, d, VI_CHECK_SLIDE(u, d, FALSE), LAMBDA s, i :
    SetElt(s, d.rd, i, s.vsew,
           IF i # u.vl - 1 THEN VI_XI_SLIDEDOWN_PARAMS(s, d, i, 1) ELSE d.RS1))

(* An index past the group reads zero, whatever vl is.                      *)
Gathered(s, d, k) == IF k >= s.vlmax THEN 0 ELSE elt(s, d.rs2, k, s.vsew)

Gather(u, d, ok, Index(_, _)) ==
  VI_LOOP(u, d, /\ is_aligned(d.rd, u.vflmul) /\ is_aligned(d.rs2, u.vflmul)
                /\ d.rd # d.rs2 /\ require_vm(d) /\ ok,
          LAMBDA s, i : SetElt(s, d.rd, i, s.vsew, Gathered(s, d, Index(s, i))))

vrgather_vv(u, d) ==
  Gather(u, d, is_aligned(d.rs1, u.vflmul) /\ d.rd # d.rs1,
         LAMBDA s, i : elt(s, d.rs1, i, s.vsew))
vrgather_vx(u, d) == Gather(u, d, TRUE, LAMBDA s, i : d.RS1)
(* The file repeats the loop inside the loop: every active element is       *)
(* gathered once for each of them.                                          *)
vrgather_vi(u, d) == Gather(u, d, TRUE, LAMBDA s, i : zimm5(d))

IndexesFit(u, d, vemul) ==
  /\ vemul >= 1 /\ vemul <= 64
  /\ is_aligned(d.rs1, vemul) /\ ~is_overlapped(d.rd, u.vflmul, d.rs1, vemul)

vrgatherei16_vv(u, d) ==
  Gather(u, d, IndexesFit(u, d, (e16 * u.vflmul) \div u.vsew), LAMBDA s, i : elt(s, d.rs1, i, e16))

(* The elements of vs2 that the mask vs1 selects, packed.                   *)
vcompress_vm(u, d) ==
  Checked(u, /\ require_vector(u, TRUE) /\ u.vstart = 0
             /\ is_aligned(d.rd, u.vflmul) /\ is_aligned(d.rs2, u.vflmul)
             /\ d.rd # d.rs2 /\ ~is_overlapped(d.rd, u.vflmul, d.rs1, 8),
    LET Go(acc, i) ==
          IF MaskBit(acc.u, d.rs1, i) = 0 THEN acc
          ELSE [u   |-> SetElt(acc.u, d.rd, acc.pos, u.vsew, elt(acc.u, d.rs2, i, u.vsew)),
                pos |-> acc.pos + 1]
    IN  Ended(FoldLeft(Go, [u |-> u, pos |-> 0], Elements(u)).u))

(*----------------------------- merge and moves ----------------------------*)

VXI_PARAMS(u, d, i) ==
  [vs1 |-> elt(u, d.rs1, i, u.vsew), vs2 |-> elt(u, d.rs2, i, u.vsew),
   rs1 |-> d.RS1, simm5 |-> simm5(d), vd |-> elt(u, d.rd, i, u.vsew)]

VI_VVXI_MERGE_LOOP(u, d, is_vs1, Body(_, _)) ==
  VI_GENERAL_LOOP(u, d, VI_CHECK_SSS(u, d, is_vs1), LAMBDA s, i :
    SetElt(s, d.rd, i, s.vsew, Body(VXI_PARAMS(s, d, i), MaskBit(s, 0, i) = 1)))

vmerge_vvm(u, d) == VI_VVXI_MERGE_LOOP(u, d, TRUE, LAMBDA p, first : IF first THEN p.vs1 ELSE p.vs2)
vmerge_vxm(u, d) == VI_VVXI_MERGE_LOOP(u, d, FALSE, LAMBDA p, first : IF first THEN p.rs1 ELSE p.vs2)
vmerge_vim(u, d) == VI_VVXI_MERGE_LOOP(u, d, FALSE, LAMBDA p, first : IF first THEN p.simm5 ELSE p.vs2)
vmv_v_v(u, d) == VI_VVXI_MERGE_LOOP(u, d, TRUE, LAMBDA p, first : p.vs1)
vmv_v_x(u, d) == VI_VVXI_MERGE_LOOP(u, d, FALSE, LAMBDA p, first : p.rs1)
vmv_v_i(u, d) == VI_VVXI_MERGE_LOOP(u, d, FALSE, LAMBDA p, first : p.simm5)

vmv_s_x(u, d) ==
  Checked(u, require_vector(u, TRUE) /\ d.vm = 1,
    Ended(IF u.vl > 0 /\ u.vstart < u.vl THEN SetElt(u, d.rd, 0, u.vsew, d.RS1) ELSE u))
vmv_x_s(u, d) ==
  Checked(u, require_vector(u, TRUE) /\ d.vm = 1,
    Ended([u EXCEPT !.x = IF d.RS1 < VLENB \div u.vsew THEN selt(u, d.rs2, d.RS1, u.vsew) ELSE 0]))

(* The whole registers of a group of rs1 + 1, from byte vstart on.          *)
vmvnfr_v(u, d) ==
  LET len   == d.rs1 + 1
      Moved == u.vstart .. len * VLENB - 1
  IN  Checked(u, /\ require_vector_novtype(u, TRUE)
                 /\ is_aligned(d.rd, 8 * len) /\ is_aligned(d.rs2, 8 * len),
        Ended([u EXCEPT !.reg = [b \in DOMAIN @ |->
          IF b - d.rd * VLENB \in Moved THEN @[b + (d.rs2 - d.rd) * VLENB] ELSE @[b]]]))

(*---------------------------------- masks ---------------------------------*)

vmand_mm(u, d) == VI_LOOP_MASK(u, d, LAMBDA x, y : x * y)
vmandnot_mm(u, d) == VI_LOOP_MASK(u, d, LAMBDA x, y : x * (1 - y))
vmnand_mm(u, d) == VI_LOOP_MASK(u, d, LAMBDA x, y : 1 - x * y)
vmor_mm(u, d) == VI_LOOP_MASK(u, d, LAMBDA x, y : Largest(x, y))
vmornot_mm(u, d) == VI_LOOP_MASK(u, d, LAMBDA x, y : Largest(x, 1 - y))
vmnor_mm(u, d) == VI_LOOP_MASK(u, d, LAMBDA x, y : 1 - Largest(x, y))
vmxor_mm(u, d) == VI_LOOP_MASK(u, d, LAMBDA x, y : x + y)
vmxnor_mm(u, d) == VI_LOOP_MASK(u, d, LAMBDA x, y : 1 + x + y)

(* The ones of vs2 among the active elements, in order.                     *)
OnesBefore(u, d, i) == {k \in 0 .. i - 1 : Active(u, d, k) /\ MaskBit(u, d.rs2, k) = 1}

(* vmsbf, vmsif, vmsof: the bit of an element depends on whether a one was  *)
(* met before it (has_one) and on its own.                                  *)
FirstOne(u, d, Bit(_, _)) ==
  Checked(u, require_vector(u, TRUE) /\ u.vstart = 0 /\ require_vm(d) /\ d.rd # d.rs2,
    LET Go(acc, i) ==
          IF ~Active(acc.u, d, i) THEN acc
          ELSE LET lsb == MaskBit(acc.u, d.rs2, i)
               IN  [u   |-> SetMaskBit(acc.u, d.rd, i, ToInt(Bit(acc.one, lsb = 1))),
                    one |-> acc.one \/ lsb = 1]
    IN  FoldLeft(Go, [u |-> u, one |-> FALSE], Elements(u)).u)

vmsbf_m(u, d) == FirstOne(u, d, LAMBDA has_one, lsb : ~has_one /\ ~lsb)
vmsif_m(u, d) == FirstOne(u, d, LAMBDA has_one, lsb : ~has_one)
vmsof_m(u, d) == FirstOne(u, d, LAMBDA has_one, lsb : ~has_one /\ lsb)

vpopc_m(u, d) ==
  Checked(u, require_vector(u, TRUE) /\ u.vstart = 0,
    Ended([u EXCEPT !.x = Cardinality(OnesBefore(u, d, u.vl))]))

FirstOf(ones) == IF ones = {} THEN -1 ELSE CHOOSE i \in ones : \A k \in ones : i <= k

vfirst_m(u, d) ==
  Checked(u, require_vector(u, TRUE) /\ u.vstart = 0,
    Ended([u EXCEPT !.x = FirstOf(OnesBefore(u, d, u.vl))]))

viota_m(u, d) ==
  Checked(u, /\ require_vector(u, TRUE) /\ u.vstart = 0 /\ require_vm(d)
             /\ is_aligned(d.rd, u.vflmul)
             /\ ~is_overlapped(d.rd, u.vflmul, d.rs2, 8),
    LET Go(acc, i) ==
          IF ~Active(acc.u, d, i) THEN acc
          ELSE [u   |-> SetElt(acc.u, d.rd, i, u.vsew, acc.cnt),
                cnt |-> acc.cnt + MaskBit(acc.u, d.rs2, i)]
    IN  FoldLeft(Go, [u |-> u, cnt |-> 0], Elements(u)).u)

vid_v(u, d) ==
  VI_LOOP(u, d, is_aligned(d.rd, u.vflmul) /\ require_vm(d),
          LAMBDA s, i : SetElt(s, d.rd, i, s.vsew, i))
===============================================================================
