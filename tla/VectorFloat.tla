----------------------------- MODULE VectorFloat -----------------------------
(****************************************************************************)
(* The floating-point instructions of the vector unit (riscv/insns/vf*.h,    *)
(* vmf*.h and the VI_VFP_ macros of decode.h).                               *)
(*                                                                          *)
(* What an operation of SoftFloat returns is the subject of the modules of   *)
(* that library; here FloatOp(op, w, args) is any function from the bits of  *)
(* the operands to [v |-> bits, flags |-> a set of exceptions], where w is   *)
(* the width, in bytes, of the operands.                                     *)
(****************************************************************************)
EXTENDS VectorFixed

CONSTANTS FloatOp(_, _, _),
          FloatWidths    \* the widths the extensions of the hart support

(*--------------------------------- helpers --------------------------------*)

(* The sign bit flipped: x ^ F_SIGN.                                        *)
Neg(x, w) == (x + 2 ^ (Bits(w) - 1)) % 2 ^ Bits(w)

Exact(x) == [v |-> x, flags |-> {}]

(* One operation on the result of another, the flags of both.               *)
After(r, q) == [v |-> q.v, flags |-> r.flags \cup q.flags]
Then(r, F(_)) == After(r, F(r.v))

(* set_fp_exceptions                                                        *)
set_fp_exceptions(u, flags) == [u EXCEPT !.fflags = @ \cup flags]

SetFloat(s, d, i, w, r) == set_fp_exceptions(SetElt(s, d.rd, i, w, r.v), r.flags)

Common(u, widths) ==
  u.fs /\ u.vsew \in widths /\ require_vector(u, TRUE) /\ u.frm < 5

VI_VFP_COMMON(u) == Common(u, FloatWidths)
(* VI_VFP_LOOP_SCALE_BASE: the wider of the two formats is supported.       *)
VI_VFP_LOOP_SCALE_BASE(u) == Common(u, {w \in {e8, e16, e32} : 2 * w \in FloatWidths})

VI_VFP_LOOP_BASE(u, d, ok, Body(_, _)) == VI_LOOP(u, d, VI_VFP_COMMON(u) /\ ok, Body)

(*---------------------------------- loops ---------------------------------*)

(* In a body: the old vd, the first source and vs2.                         *)
VI_VFP_VV_LOOP(u, d, Body(_, _, _)) ==
  VI_VFP_LOOP_BASE(u, d, VI_CHECK_SSS(u, d, TRUE), LAMBDA s, i :
    SetFloat(s, d, i, s.vsew, Applied(Body, VV_U_PARAMS(s, d, i))))

VI_VFP_VF_LOOP(u, d, Body(_, _, _)) ==
  VI_VFP_LOOP_BASE(u, d, VI_CHECK_SSS(u, d, FALSE), LAMBDA s, i :
    SetFloat(s, d, i, s.vsew,
             Body(elt(s, d.rd, i, s.vsew), U(s, d.FRS1), elt(s, d.rs2, i, s.vsew))))

VI_VFP_V_LOOP(u, d, Body(_)) ==
  VI_VFP_LOOP_BASE(u, d, VI_CHECK_SSS(u, d, FALSE), LAMBDA s, i :
    SetFloat(s, d, i, s.vsew, Body(elt(s, d.rs2, i, s.vsew))))

SetFlag(s, d, i, r) == set_fp_exceptions(SetMaskBit(s, d.rd, i, r.v), r.flags)

VI_VFP_LOOP_CMP(u, d, Body(_, _, _), is_vs1) ==
  VI_VFP_LOOP_BASE(u, d, VI_CHECK_MSS(u, d, is_vs1), LAMBDA s, i :
    SetFlag(s, d, i, Body(elt(s, d.rs2, i, s.vsew), elt(s, d.rs1, i, s.vsew), U(s, d.FRS1))))

(* Widening: the narrow sources are converted first.                        *)
Widened(s, x) == FloatOp("widen", s.vsew, <<x>>)

WideFloat(u, d, ok, First(_, _), Second(_, _), Body(_, _, _)) ==
  VI_VFP_LOOP_BASE(u, d, ok /\ u.vsew \in {e16, e32}, LAMBDA s, i :
    SetFloat(s, d, i, 2 * s.vsew,
      Then(Second(s, i), LAMBDA vs2 :
        Then(First(s, i), LAMBDA vs1 : Body(elt(s, d.rd, i, 2 * s.vsew), vs1, vs2)))))

VI_VFP_VV_LOOP_WIDE(u, d, Body(_, _, _)) ==
  WideFloat(u, d, VI_CHECK_DSS(u, d, TRUE),
            LAMBDA s, i : Widened(s, elt(s, d.rs1, i, s.vsew)),
            LAMBDA s, i : Widened(s, elt(s, d.rs2, i, s.vsew)), Body)
VI_VFP_VF_LOOP_WIDE(u, d, Body(_, _, _)) ==
  WideFloat(u, d, VI_CHECK_DSS(u, d, FALSE),
            LAMBDA s, i : Widened(s, U(s, d.FRS1)),
            LAMBDA s, i : Widened(s, elt(s, d.rs2, i, s.vsew)), Body)
VI_VFP_WV_LOOP_WIDE(u, d, Body(_, _, _)) ==
  WideFloat(u, d, VI_CHECK_DDS(u, d, TRUE),
            LAMBDA s, i : Widened(s, elt(s, d.rs1, i, s.vsew)),
            LAMBDA s, i : Exact(elt(s, d.rs2, i, 2 * s.vsew)), Body)
VI_VFP_WF_LOOP_WIDE(u, d, Body(_, _, _)) ==
  WideFloat(u, d, VI_CHECK_DDS(u, d, FALSE),
            LAMBDA s, i : Widened(s, U(s, d.FRS1)),
            LAMBDA s, i : Exact(elt(s, d.rs2, i, 2 * s.vsew)), Body)

(* A conversion between a width and its double; the body exists for some    *)
(* widths only (eew_check).                                                 *)
VI_VFP_CVT_SCALE(u, d, is_widen, eew, op) ==
  VI_LOOP(u, d, /\ VI_VFP_LOOP_SCALE_BASE(u) /\ u.vsew >= eew
                /\ IF is_widen THEN VI_CHECK_DSS(u, d, FALSE) ELSE VI_CHECK_SDS(u, d, FALSE),
    LAMBDA s, i :
      IF is_widen
        THEN SetFloat(s, d, i, 2 * s.vsew, FloatOp(op, s.vsew, <<elt(s, d.rs2, i, s.vsew)>>))
        ELSE SetFloat(s, d, i, s.vsew, FloatOp(op, 2 * s.vsew, <<elt(s, d.rs2, i, 2 * s.vsew)>>)))

(*------------------------------- reductions -------------------------------*)

(* The accumulator starts as element 0 of vs1.  With is_propagate and no    *)
(* active element it is canonicalised on its way to rd.                     *)
ReducedOver(active, first, w, is_propagate, Source(_), Body(_, _)) ==
  IF is_propagate /\ active = <<>>
    THEN Then(first, LAMBDA vd_0 : FloatOp("canonical", w, <<vd_0>>))
  ELSE FoldLeft(LAMBDA acc, i :
         Then(acc, LAMBDA vd_0 : Then(Source(i), LAMBDA vs2 : Body(vd_0, vs2))),
         first, active)

FloatReduced(u, d, w, is_propagate, Source(_), Body(_, _)) ==
  Ended(IF u.vl = 0 THEN u
        ELSE SetFloat(u, d, 0, w,
               ReducedOver(SelectSeq(Elements(u), LAMBDA i : Active(u, d, i)),
                           Exact(elt(u, d.rs1, 0, w)), w, is_propagate, Source, Body)))

VI_VFP_VV_LOOP_REDUCTION(u, d, is_propagate, Body(_, _)) ==
  Checked(u, VI_CHECK_REDUCTION(u, d, FALSE) /\ VI_VFP_COMMON(u),
    FloatReduced(u, d, u.vsew, is_propagate, LAMBDA i : Exact(elt(u, d.rs2, i, u.vsew)), Body))

VI_VFP_VV_LOOP_WIDE_REDUCTION(u, d, is_propagate, Body(_, _)) ==
  Checked(u, /\ VI_CHECK_REDUCTION(u, d, TRUE) /\ VI_VFP_COMMON(u)
             /\ 2 * u.vsew \in FloatWidths,
    FloatReduced(u, d, 2 * u.vsew, is_propagate,
                 LAMBDA i : Widened(u, elt(u, d.rs2, i, u.vsew)), Body))

(*------------------------------- instructions -----------------------------*)

F(u, op, args) == FloatOp(op, u.vsew, args)
W(u, op, args) == FloatOp(op, 2 * u.vsew, args)
N(u, x) == Neg(x, u.vsew)
NW(u, x) == Neg(x, 2 * u.vsew)

vfadd_vv(u, d) == VI_VFP_VV_LOOP(u, d, LAMBDA vd, a, b : F(u, "add", <<a, b>>))
vfadd_vf(u, d) == VI_VFP_VF_LOOP(u, d, LAMBDA vd, a, b : F(u, "add", <<a, b>>))
vfsub_vv(u, d) == VI_VFP_VV_LOOP(u, d, LAMBDA vd, a, b : F(u, "sub", <<b, a>>))
vfsub_vf(u, d) == VI_VFP_VF_LOOP(u, d, LAMBDA vd, a, b : F(u, "sub", <<b, a>>))
vfrsub_vf(u, d) == VI_VFP_VF_LOOP(u, d, LAMBDA vd, a, b : F(u, "sub", <<a, b>>))
vfmul_vv(u, d) == VI_VFP_VV_LOOP(u, d, LAMBDA vd, a, b : F(u, "mul", <<a, b>>))
vfmul_vf(u, d) == VI_VFP_VF_LOOP(u, d, LAMBDA vd, a, b : F(u, "mul", <<b, a>>))
vfdiv_vv(u, d) == VI_VFP_VV_LOOP(u, d, LAMBDA vd, a, b : F(u, "div", <<b, a>>))
vfdiv_vf(u, d) == VI_VFP_VF_LOOP(u, d, LAMBDA vd, a, b : F(u, "div", <<b, a>>))
vfrdiv_vf(u, d) == VI_VFP_VF_LOOP(u, d, LAMBDA vd, a, b : F(u, "div", <<a, b>>))
vfmin_vv(u, d) == VI_VFP_VV_LOOP(u, d, LAMBDA vd, a, b : F(u, "min", <<b, a>>))
vfmin_vf(u, d) == VI_VFP_VF_LOOP(u, d, LAMBDA vd, a, b : F(u, "min", <<b, a>>))
vfmax_vv(u, d) == VI_VFP_VV_LOOP(u, d, LAMBDA vd, a, b : F(u, "max", <<b, a>>))
vfmax_vf(u, d) == VI_VFP_VF_LOOP(u, d, LAMBDA vd, a, b : F(u, "max", <<b, a>>))
vfsgnj_vv(u, d) == VI_VFP_VV_LOOP(u, d, LAMBDA vd, a, b : F(u, "sgnj", <<b, a>>))
vfsgnj_vf(u, d) == VI_VFP_VF_LOOP(u, d, LAMBDA vd, a, b : F(u, "sgnj", <<b, a>>))
vfsgnjn_vv(u, d) == VI_VFP_VV_LOOP(u, d, LAMBDA vd, a, b : F(u, "sgnjn", <<b, a>>))
vfsgnjn_vf(u, d) == VI_VFP_VF_LOOP(u, d, LAMBDA vd, a, b : F(u, "sgnjn", <<b, a>>))
vfsgnjx_vv(u, d) == VI_VFP_VV_LOOP(u, d, LAMBDA vd, a, b : F(u, "sgnjx", <<b, a>>))
vfsgnjx_vf(u, d) == VI_VFP_VF_LOOP(u, d, LAMBDA vd, a, b : F(u, "sgnjx", <<b, a>>))
vfdot_vv(u, d) == VI_VFP_VV_LOOP(u, d, LAMBDA vd, a, b : Then(F(u, "mul", <<b, a>>), LAMBDA p : F(u, "add", <<vd, p>>)))

(* Fused multiply-add: the sign of a factor, of the addend or of both is    *)
(* flipped beforehand.                                                      *)
vfmacc_vv(u, d) == VI_VFP_VV_LOOP(u, d, LAMBDA vd, a, b : F(u, "mulAdd", <<a, b, vd>>))
vfmacc_vf(u, d) == VI_VFP_VF_LOOP(u, d, LAMBDA vd, a, b : F(u, "mulAdd", <<a, b, vd>>))
vfmsac_vv(u, d) == VI_VFP_VV_LOOP(u, d, LAMBDA vd, a, b : F(u, "mulAdd", <<a, b, N(u, vd)>>))
vfmsac_vf(u, d) == VI_VFP_VF_LOOP(u, d, LAMBDA vd, a, b : F(u, "mulAdd", <<a, b, N(u, vd)>>))
vfnmacc_vv(u, d) == VI_VFP_VV_LOOP(u, d, LAMBDA vd, a, b : F(u, "mulAdd", <<N(u, b), a, N(u, vd)>>))
vfnmacc_vf(u, d) == VI_VFP_VF_LOOP(u, d, LAMBDA vd, a, b : F(u, "mulAdd", <<a, N(u, b), N(u, vd)>>))
vfnmsac_vv(u, d) == VI_VFP_VV_LOOP(u, d, LAMBDA vd, a, b : F(u, "mulAdd", <<N(u, a), b, vd>>))
vfnmsac_vf(u, d) == VI_VFP_VF_LOOP(u, d, LAMBDA vd, a, b : F(u, "mulAdd", <<a, N(u, b), vd>>))
vfmadd_vv(u, d) == VI_VFP_VV_LOOP(u, d, LAMBDA vd, a, b : F(u, "mulAdd", <<vd, a, b>>))
vfmadd_vf(u, d) == VI_VFP_VF_LOOP(u, d, LAMBDA vd, a, b : F(u, "mulAdd", <<vd, a, b>>))
vfmsub_vv(u, d) == VI_VFP_VV_LOOP(u, d, LAMBDA vd, a, b : F(u, "mulAdd", <<vd, a, N(u, b)>>))
vfmsub_vf(u, d) == VI_VFP_VF_LOOP(u, d, LAMBDA vd, a, b : F(u, "mulAdd", <<vd, a, N(u, b)>>))
vfnmadd_vv(u, d) == VI_VFP_VV_LOOP(u, d, LAMBDA vd, a, b : F(u, "mulAdd", <<N(u, vd), a, N(u, b)>>))
vfnmadd_vf(u, d) == VI_VFP_VF_LOOP(u, d, LAMBDA vd, a, b : F(u, "mulAdd", <<N(u, vd), a, N(u, b)>>))
vfnmsub_vv(u, d) == VI_VFP_VV_LOOP(u, d, LAMBDA vd, a, b : F(u, "mulAdd", <<N(u, vd), a, b>>))
vfnmsub_vf(u, d) == VI_VFP_VF_LOOP(u, d, LAMBDA vd, a, b : F(u, "mulAdd", <<N(u, vd), a, b>>))

vfsqrt_v(u, d) == VI_VFP_V_LOOP(u, d, LAMBDA b : F(u, "sqrt", <<b>>))
vfclass_v(u, d) == VI_VFP_V_LOOP(u, d, LAMBDA b : F(u, "classify", <<b>>))
vfrece7_v(u, d) == VI_VFP_V_LOOP(u, d, LAMBDA b : F(u, "recip7", <<b>>))
vfrsqrte7_v(u, d) == VI_VFP_V_LOOP(u, d, LAMBDA b : F(u, "rsqrte7", <<b>>))

(* Conversions at one width.                                                *)
vfcvt_f_x_v(u, d) == VI_VFP_VF_LOOP(u, d, LAMBDA vd, a, b : F(u, "i_to_f", <<b>>))
vfcvt_f_xu_v(u, d) == VI_VFP_VF_LOOP(u, d, LAMBDA vd, a, b : F(u, "ui_to_f", <<b>>))
vfcvt_rtz_x_f_v(u, d) == VI_VFP_VF_LOOP(u, d, LAMBDA vd, a, b : F(u, "f_to_i_rtz", <<b>>))
vfcvt_rtz_xu_f_v(u, d) == VI_VFP_VF_LOOP(u, d, LAMBDA vd, a, b : F(u, "f_to_ui_rtz", <<b>>))
vfcvt_x_f_v(u, d) == VI_VFP_VF_LOOP(u, d, LAMBDA vd, a, b : F(u, "f_to_i", <<b>>))
vfcvt_xu_f_v(u, d) == VI_VFP_VV_LOOP(u, d, LAMBDA vd, a, b : F(u, "f_to_ui", <<b>>))

(* Conversions to the double width and to the half of it.                   *)
vfwcvt_f_f_v(u, d) == VI_VFP_CVT_SCALE(u, d, TRUE, e16, "widen")
vfwcvt_f_x_v(u, d) == VI_VFP_CVT_SCALE(u, d, TRUE, e8, "i_to_f_wide")
vfwcvt_f_xu_v(u, d) == VI_VFP_CVT_SCALE(u, d, TRUE, e8, "ui_to_f_wide")
vfwcvt_rtz_x_f_v(u, d) == VI_VFP_CVT_SCALE(u, d, TRUE, e16, "f_to_i_wide_rtz")
vfwcvt_rtz_xu_f_v(u, d) == VI_VFP_CVT_SCALE(u, d, TRUE, e16, "f_to_ui_wide_rtz")
vfwcvt_x_f_v(u, d) == VI_VFP_CVT_SCALE(u, d, TRUE, e16, "f_to_i_wide")
vfwcvt_xu_f_v(u, d) == VI_VFP_CVT_SCALE(u, d, TRUE, e16, "f_to_ui_wide")
vfncvt_f_f_w(u, d) == VI_VFP_CVT_SCALE(u, d, FALSE, e16, "narrow")
vfncvt_f_x_w(u, d) == VI_VFP_CVT_SCALE(u, d, FALSE, e16, "i_to_f_narrow")
vfncvt_f_xu_w(u, d) == VI_VFP_CVT_SCALE(u, d, FALSE, e16, "ui_to_f_narrow")
vfncvt_rod_f_f_w(u, d) == VI_VFP_CVT_SCALE(u, d, FALSE, e16, "narrow_odd")
vfncvt_rtz_x_f_w(u, d) == VI_VFP_CVT_SCALE(u, d, FALSE, e8, "f_to_i_narrow_rtz")
vfncvt_rtz_xu_f_w(u, d) == VI_VFP_CVT_SCALE(u, d, FALSE, e8, "f_to_ui_narrow_rtz")
vfncvt_x_f_w(u, d) == VI_VFP_CVT_SCALE(u, d, FALSE, e8, "f_to_i_narrow")
vfncvt_xu_f_w(u, d) == VI_VFP_CVT_SCALE(u, d, FALSE, e8, "f_to_ui_narrow")

(* Operations at the double width.                                          *)
vfwadd_vv(u, d) == VI_VFP_VV_LOOP_WIDE(u, d, LAMBDA vd, a, b : W(u, "add", <<b, a>>))
vfwadd_vf(u, d) == VI_VFP_VF_LOOP_WIDE(u, d, LAMBDA vd, a, b : W(u, "add", <<b, a>>))
vfwadd_wv(u, d) == VI_VFP_WV_LOOP_WIDE(u, d, LAMBDA vd, a, b : W(u, "add", <<b, a>>))
vfwadd_wf(u, d) == VI_VFP_WF_LOOP_WIDE(u, d, LAMBDA vd, a, b : W(u, "add", <<b, a>>))
vfwsub_vv(u, d) == VI_VFP_VV_LOOP_WIDE(u, d, LAMBDA vd, a, b : W(u, "sub", <<b, a>>))
vfwsub_vf(u, d) == VI_VFP_VF_LOOP_WIDE(u, d, LAMBDA vd, a, b : W(u, "sub", <<b, a>>))
vfwsub_wv(u, d) == VI_VFP_WV_LOOP_WIDE(u, d, LAMBDA vd, a, b : W(u, "sub", <<b, a>>))
vfwsub_wf(u, d) == VI_VFP_WF_LOOP_WIDE(u, d, LAMBDA vd, a, b : W(u, "sub", <<b, a>>))
vfwmul_vv(u, d) == VI_VFP_VV_LOOP_WIDE(u, d, LAMBDA vd, a, b : W(u, "mul", <<b, a>>))
vfwmul_vf(u, d) == VI_VFP_VF_LOOP_WIDE(u, d, LAMBDA vd, a, b : W(u, "mul", <<b, a>>))
vfwmacc_vv(u, d) == VI_VFP_VV_LOOP_WIDE(u, d, LAMBDA vd, a, b : W(u, "mulAdd", <<a, b, vd>>))
vfwmacc_vf(u, d) == VI_VFP_VF_LOOP_WIDE(u, d, LAMBDA vd, a, b : W(u, "mulAdd", <<a, b, vd>>))
vfwmsac_vv(u, d) == VI_VFP_VV_LOOP_WIDE(u, d, LAMBDA vd, a, b : W(u, "mulAdd", <<a, b, NW(u, vd)>>))
vfwmsac_vf(u, d) == VI_VFP_VF_LOOP_WIDE(u, d, LAMBDA vd, a, b : W(u, "mulAdd", <<a, b, NW(u, vd)>>))
vfwnmacc_vv(u, d) == VI_VFP_VV_LOOP_WIDE(u, d, LAMBDA vd, a, b : W(u, "mulAdd", <<NW(u, a), b, NW(u, vd)>>))
vfwnmacc_vf(u, d) == VI_VFP_VF_LOOP_WIDE(u, d, LAMBDA vd, a, b : W(u, "mulAdd", <<NW(u, a), b, NW(u, vd)>>))
vfwnmsac_vv(u, d) == VI_VFP_VV_LOOP_WIDE(u, d, LAMBDA vd, a, b : W(u, "mulAdd", <<NW(u, a), b, vd>>))
vfwnmsac_vf(u, d) == VI_VFP_VF_LOOP_WIDE(u, d, LAMBDA vd, a, b : W(u, "mulAdd", <<NW(u, a), b, vd>>))

vfredsum_vs(u, d) == VI_VFP_VV_LOOP_REDUCTION(u, d, TRUE, LAMBDA acc, x : F(u, "add", <<acc, x>>))
vfredosum_vs(u, d) == VI_VFP_VV_LOOP_REDUCTION(u, d, FALSE, LAMBDA acc, x : F(u, "add", <<acc, x>>))
vfredmax_vs(u, d) == VI_VFP_VV_LOOP_REDUCTION(u, d, FALSE, LAMBDA acc, x : F(u, "max", <<acc, x>>))
vfredmin_vs(u, d) == VI_VFP_VV_LOOP_REDUCTION(u, d, FALSE, LAMBDA acc, x : F(u, "min", <<acc, x>>))
vfwredsum_vs(u, d) == VI_VFP_VV_LOOP_WIDE_REDUCTION(u, d, TRUE, LAMBDA acc, x : W(u, "add", <<acc, x>>))
vfwredosum_vs(u, d) == VI_VFP_VV_LOOP_WIDE_REDUCTION(u, d, FALSE, LAMBDA acc, x : W(u, "add", <<acc, x>>))

(* Comparisons: `a' is vs1 and `f' the scalar.                              *)
Negated(r) == [r EXCEPT !.v = 1 - @]

vmfeq_vv(u, d) == VI_VFP_LOOP_CMP(u, d, LAMBDA b, a, f : F(u, "eq", <<b, a>>), TRUE)
vmfeq_vf(u, d) == VI_VFP_LOOP_CMP(u, d, LAMBDA b, a, f : F(u, "eq", <<b, f>>), FALSE)
vmfne_vv(u, d) == VI_VFP_LOOP_CMP(u, d, LAMBDA b, a, f : Negated(F(u, "eq", <<b, a>>)), TRUE)
vmfne_vf(u, d) == VI_VFP_LOOP_CMP(u, d, LAMBDA b, a, f : Negated(F(u, "eq", <<b, f>>)), FALSE)
vmflt_vv(u, d) == VI_VFP_LOOP_CMP(u, d, LAMBDA b, a, f : F(u, "lt", <<b, a>>), TRUE)
vmflt_vf(u, d) == VI_VFP_LOOP_CMP(u, d, LAMBDA b, a, f : F(u, "lt", <<b, f>>), FALSE)
vmfle_vv(u, d) == VI_VFP_LOOP_CMP(u, d, LAMBDA b, a, f : F(u, "le", <<b, a>>), TRUE)
vmfle_vf(u, d) == VI_VFP_LOOP_CMP(u, d, LAMBDA b, a, f : F(u, "le", <<b, f>>), FALSE)
vmfgt_vf(u, d) == VI_VFP_LOOP_CMP(u, d, LAMBDA b, a, f : F(u, "lt", <<f, b>>), FALSE)
vmfge_vf(u, d) == VI_VFP_LOOP_CMP(u, d, LAMBDA b, a, f : F(u, "le", <<f, b>>), FALSE)

(* Moves: no operation of SoftFloat, no flags.                              *)
vfmerge_vfm(u, d) ==
  VI_GENERAL_LOOP(u, d, VI_CHECK_SSS(u, d, FALSE) /\ VI_VFP_COMMON(u), LAMBDA s, i :
    SetElt(s, d.rd, i, s.vsew,
           IF MaskBit(s, 0, i) = 1 THEN d.FRS1 ELSE elt(s, d.rs2, i, s.vsew)))
vfmv_v_f(u, d) ==
  VI_GENERAL_LOOP(u, d, is_aligned(d.rd, u.vflmul) /\ VI_VFP_COMMON(u), LAMBDA s, i :
    SetElt(s, d.rd, i, s.vsew, d.FRS1))
vfmv_s_f(u, d) ==
  Checked(u, VI_VFP_COMMON(u),
    Ended(IF u.vl > 0 /\ u.vstart < u.vl THEN SetElt(u, d.rd, 0, u.vsew, d.FRS1) ELSE u))
(* A value narrower than a register of the hart is boxed: its upper bits    *)
(* are ones.                                                                *)
vfmv_f_s(u, d) ==
  Checked(u, VI_VFP_COMMON(u),
    Ended([u EXCEPT !.x = elt(u, d.rs2, 0, u.vsew) + 2 ^ Bits(ELEN) - 2 ^ Bits(u.vsew)]))
vfslide1up_vf(u, d) ==
  VI_VFP_LOOP_BASE(u, d, VI_CHECK_SLIDE(u, d, TRUE), LAMBDA s, i :
    SetElt(s, d.rd, i, s.vsew,
           IF i # 0 THEN VI_XI_SLIDEUP_PARAMS(s, d, i, 1) ELSE d.FRS1))
vfslide1down_vf(u, d) ==
  VI_VFP_LOOP_BASE(u, d, VI_CHECK_SLIDE(u, d, FALSE), LAMBDA s, i :
    SetElt(s, d.rd, i, s.vsew,
           IF i # u.vl - 1 THEN VI_XI_SLIDEDOWN_PARAMS(s, d, i, 1) ELSE d.FRS1))
===============================================================================
