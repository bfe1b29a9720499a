------------------------------- MODULE Vector -------------------------------
(****************************************************************************)
(* The harts at work: the loads, stores and atomics of the vector unit (the  *)
(* VI_LD.. macros of decode.h), the choice of an instruction, and the machine *)
(* that configures a hart, executes one instruction, scalar or vector, and   *)
(* restarts it after each page fault the software repairs; or that lets two  *)
(* harts take turns on one memory, as sim_t::step does.                      *)
(****************************************************************************)
EXTENDS ScalarFloat

CONSTANTS MaxSetVl,           \* bound: vsetvl instructions before the one looked at
          Settings,           \* vsetvl instructions tried
          Loaded(_),          \* the state, with the instruction, tried after them
          Pairs,              \* the two harts that share a memory, the first to run first
          SharedInsns,        \* what they execute, scalar instructions
          INTERLEAVE,         \* instructions of a turn
          MaxShared           \* bound: instructions of both

VARIABLES u,      \* the hart
          insn,   \* the instruction under way
          start,  \* the hart when it was first executed
          phase,  \* "config", "run", "fault", "done", "shared"
          peer,   \* the other hart, where two share a memory
          turn,   \* instructions of this turn, and of both harts so far
          lost    \* history: the bytes that were stored to since the last lr of a
                  \* hart by the other one, all once that lr was used up

vars == <<u, insn, start, phase, peer, turn, lost>>
shared == <<peer, turn, lost>>

(*--------------------------------- memory ---------------------------------*)

(* The fields of one element, in order.                                     *)
Fields(s, d, Body(_, _)) ==
  FoldLeft(LAMBDA t, fn : Unless(t, Body(t, fn)), s, [k \in 1 .. d.nf + 1 |-> k - 1])

(* VI_ELEMENT_SKIP and P.VU.vstart = i: where a trap will restart.          *)
At(s, i) == [s EXCEPT !.vstart = i]

Walk(s, d, Body(_, _)) ==
  LET e == FoldLeft(LAMBDA t, i :
             Unless(t, VI_LOOP_ELEMENT_SKIP(t, d, i, Fields(At(t, i), d, LAMBDA q, fn : Body(q, <<i, fn>>)))),
             s, Elements(s))
  IN  Unless(e, Ended(e))

(* The width of a group in eighths when its elements have another width.    *)
vemul(s, ew) == (ew * s.vflmul) \div s.vsew

GroupsFit(d, n) == (d.nf + 1) * n <= NVPR \div 4 /\ d.rd + (d.nf + 1) * n <= NVPR

VI_CHECK_STORE(s, d, ew) ==
  /\ require_vector(s, FALSE)
  /\ vemul(s, ew) >= 1 /\ vemul(s, ew) <= 64
  /\ is_aligned(d.rd, vemul(s, ew))
  /\ GroupsFit(d, AtLeastOne(vemul(s, ew)))

VI_CHECK_LOAD(s, d, ew) == VI_CHECK_STORE(s, d, ew) /\ require_vm(d)

VI_CHECK_ST_INDEX(s, d, ew) ==
  /\ require_vector(s, FALSE)
  /\ vemul(s, ew) >= 1 /\ vemul(s, ew) <= 64
  /\ is_aligned(d.rd, s.vflmul) /\ is_aligned(d.rs2, vemul(s, ew))
  /\ GroupsFit(d, AtLeastOne(s.vflmul))

(* An index may share registers with the data only where an element is      *)
(* written after the indexes it lies over were used.                        *)
IndexKept(s, d, ew) ==
  /\ ew > s.vsew /\ d.rd # d.rs2 => ~is_overlapped(d.rd, s.vflmul, d.rs2, vemul(s, ew))
  /\ ew < s.vsew => Disjoint(s, d.rd, s.vflmul, d.rs2, vemul(s, ew))

(* Mutant: the fields of a segment may cover the index.                     *)
VI_CHECK_LD_INDEX_Segment(s, d, ew) ==
  VI_CHECK_ST_INDEX(s, d, ew) /\ IndexKept(s, d, ew) /\ require_vm(d)

VI_CHECK_LD_INDEX(s, d, ew) ==
  /\ VI_CHECK_ST_INDEX(s, d, ew) /\ IndexKept(s, d, ew)
  /\ d.nf > 0 => /\ ~is_overlapped(d.rd, s.vflmul, d.rs2, vemul(s, ew))
                 /\ ~is_overlapped(d.rd, 8 * (d.nf + 1), d.rs2, 8)
  /\ require_vm(d)

(* The copy of the indexes made before the loop.                            *)
VI_DUPLICATE_VREG(s, reg, ew) == [i \in 0 .. s.vlmax - 1 |-> elt(s, reg, i, ew)]

(* Offset(i, fn): bytes from the base to field fn of element i.             *)
VI_LD(s, d, ew, Offset(_, _)) ==
  Checked(s, VI_CHECK_LOAD(s, d, ew),
    Walk(s, d, LAMBDA t, k :
      Load(t, d.RS1 + Offset(k[1], k[2]), ew, LAMBDA q, x :
        SetElt(q, d.rd + k[2] * AtLeastOne(vemul(s, ew)), k[1], ew, x))))

VI_ST(s, d, ew, Offset(_, _)) ==
  Checked(s, VI_CHECK_STORE(s, d, ew),
    Walk(s, d, LAMBDA t, k :
      Store(t, d.RS1 + Offset(k[1], k[2]), ew,
            elt(t, d.rd + k[2] * AtLeastOne(vemul(s, ew)), k[1], ew))))

VI_LD_INDEX(s, d, ew, is_seg) ==
  Checked(s, (is_seg \/ d.nf = 0) /\ VI_CHECK_LD_INDEX(s, d, ew),
    LET index == VI_DUPLICATE_VREG(s, d.rs2, ew)
    IN  Walk(s, d, LAMBDA t, k :
          Load(t, d.RS1 + index[k[1]] + k[2] * s.vsew, s.vsew, LAMBDA q, x :
            SetElt(q, d.rd + k[2] * AtLeastOne(s.vflmul), k[1], s.vsew, x))))

VI_ST_INDEX(s, d, ew, is_seg) ==
  Checked(s, (is_seg \/ d.nf = 0) /\ VI_CHECK_ST_INDEX(s, d, ew),
    LET index == VI_DUPLICATE_VREG(s, d.rs2, ew)
    IN  Walk(s, d, LAMBDA t, k :
          Store(t, d.RS1 + index[k[1]] + k[2] * s.vsew, s.vsew,
                elt(t, d.rd + k[2] * AtLeastOne(s.vflmul), k[1], s.vsew))))

(* Only element 0 traps; a trap of a later one ends the loop with vl cut to *)
(* the elements before it.                                                  *)
VI_LDST_FF(s, d, ew) ==
  Checked(s, VI_CHECK_LOAD(s, d, ew),
    LET emul == AtLeastOne(vemul(s, ew))
        One(t, i) == Fields(t, d, LAMBDA q, fn :
          Load(q, d.RS1 + (i * (d.nf + 1) + fn) * ew, ew, LAMBDA r, x :
            SetElt(r, d.rd + fn * emul, i, ew, x)))
        Stop(t, i) == IF t.trap # "none" /\ i # 0
                        THEN [t EXCEPT !.trap = "none", !.vl = i] ELSE t
        e == FoldLeft(LAMBDA t, i :
               IF t.trap # "none" \/ i >= t.vl THEN t
               ELSE VI_LOOP_ELEMENT_SKIP(t, d, i, Stop(One(t, i), i)),
               s, Elements(s))
    IN  Unless(e, Ended(e)))

(* Whole registers, whatever the type: element after element from vstart,   *)
(* which counts them.                                                       *)
Whole(s, d, w, Body(_, _)) ==
  LET len == d.nf + 1
      e   == FoldLeft(LAMBDA t, k : Unless(t, Body(At(t, k), k)), s,
               [k \in 1 .. Largest(len * (VLENB \div w) - s.vstart, 0) |-> s.vstart + k - 1])
  IN  Checked(s, require_vector_novtype(s, FALSE) /\ is_aligned(d.rd, 8 * len),
              Unless(e, Ended(e)))

VI_LD_WHOLE(s, d, w) ==
  Whole(s, d, w, LAMBDA t, k :
    Load(t, d.RS1 + k * w, w, LAMBDA q, x : SetElt(q, d.rd, k, w, x)))
VI_ST_WHOLE(s, d) ==
  Whole(s, d, e8, LAMBDA t, k : Store(t, d.RS1 + k, e8, elt(t, d.rd, k, e8)))

(* Atomics do not move vstart: a fault restarts the whole instruction.      *)
VI_AMO(s, d, ew, Op(_, _), Read(_, _)) ==
  Checked(s, /\ require_vector(s, FALSE)
             /\ is_aligned(d.rd, s.vflmul) /\ s.vsew >= e32
             /\ vemul(s, ew) >= 1 /\ vemul(s, ew) <= 64
             /\ is_aligned(d.rs2, vemul(s, ew))
             /\ d.wd = 1 => require_vm(d) /\ IndexKept(s, d, ew),
    LET index == VI_DUPLICATE_VREG(s, d.rs2, ew)
        One(t, i) ==
          LET w   == t.vsew
              vs3 == Read(elt(t, d.rd, i, w), w)
          IN  Amo(t, d.RS1 + index[i], w, LAMBDA old : Op(Read(old, w), vs3),
                  LAMBDA q, old : IF d.wd = 1 THEN SetElt(q, d.rd, i, w, old) ELSE q)
        e == FoldLeft(LAMBDA t, i : Unless(t, VI_LOOP_ELEMENT_SKIP(t, d, i, One(t, i))),
                      s, Elements(s))
    IN  Unless(e, Ended(e)))

(*------------------------ the memory instructions -------------------------*)

Unit(d, ew, i, fn) == (i * (d.nf + 1) + fn) * ew
Strided(d, ew, i, fn) == i * d.RS2 + fn * ew

(* d.ew is the width in the instruction: of the data, or of the index.      *)
vle_v(s, d) == VI_LD(s, d, d.ew, LAMBDA i, fn : Unit(d, d.ew, i, fn))
vlse_v(s, d) == VI_LD(s, d, d.ew, LAMBDA i, fn : Strided(d, d.ew, i, fn))
vlxei_v(s, d) == VI_LD_INDEX(s, d, d.ew, TRUE)
vleff_v(s, d) == VI_LDST_FF(s, d, d.ew)
vlre_v(s, d) == VI_LD_WHOLE(s, d, d.ew)
vse_v(s, d) == VI_ST(s, d, d.ew, LAMBDA i, fn : Unit(d, d.ew, i, fn))
vsse_v(s, d) == VI_ST(s, d, d.ew, LAMBDA i, fn : Strided(d, d.ew, i, fn))
vsxei_v(s, d) == VI_ST_INDEX(s, d, d.ew, TRUE)
vsuxei_v(s, d) == VI_ST_INDEX(s, d, d.ew, FALSE)
vsr_v(s, d) == VI_ST_WHOLE(s, d)
vamoaddei_v(s, d) == VI_AMO(s, d, d.ew, Sum2, Unsigned)
vamoswapei_v(s, d) == VI_AMO(s, d, d.ew, LAMBDA lhs, vs3 : vs3, Unsigned)
vamoandei_v(s, d) == VI_AMO(s, d, d.ew, LAMBDA lhs, vs3 : lhs & vs3, Unsigned)
vamoorei_v(s, d) == VI_AMO(s, d, d.ew, LAMBDA lhs, vs3 : lhs | vs3, Unsigned)
vamoxorei_v(s, d) == VI_AMO(s, d, d.ew, LAMBDA lhs, vs3 : lhs ^^ vs3, Unsigned)
vamomaxei_v(s, d) == VI_AMO(s, d, d.ew, Largest, Signed)
vamomaxuei_v(s, d) == VI_AMO(s, d, d.ew, Largest, Unsigned)
vamominei_v(s, d) == VI_AMO(s, d, d.ew, Least, Signed)
vamominuei_v(s, d) == VI_AMO(s, d, d.ew, Least, Unsigned)

(*------------------------- the choice of the body -------------------------*)

IntegerOps ==
  <<"vadd_vv", "vadd_vx", "vadd_vi", "vsub_vv", "vsub_vx", "vrsub_vx", 
    "vrsub_vi", "vmul_vv", "vmul_vx", "vmax_vv", "vmax_vx", "vmaxu_vv", 
    "vmaxu_vx", "vmin_vv", "vmin_vx", "vminu_vv", "vminu_vx", "vdiv_vv", 
    "vdiv_vx", "vdivu_vv", "vdivu_vx", "vrem_vv", "vrem_vx", "vremu_vv", 
    "vremu_vx", "vmulh_vv", "vmulh_vx", "vmulhu_vv", "vmulhu_vx", 
    "vmulhsu_vv", "vmulhsu_vx", "vmacc_vv", "vmacc_vx", "vmadd_vv", 
    "vmadd_vx", "vnmsac_vv", "vnmsac_vx", "vnmsub_vv", "vnmsub_vx", 
    "vdot_vv", "vdotu_vv", "vand_vv", "vand_vx", "vand_vi", "vor_vv", 
    "vor_vx", "vor_vi", "vxor_vv", "vxor_vx", "vxor_vi", "vsll_vv", 
    "vsll_vx", "vsll_vi", "vsra_vv", "vsra_vx", "vsra_vi", "vsrl_vv", 
    "vsrl_vx", "vsrl_vi", "vnsra_wv", "vnsra_wx", "vnsra_wi", "vnsrl_wv", 
    "vnsrl_wx", "vnsrl_wi", "vwadd_vv", "vwadd_vx", "vwadd_wv", "vwadd_wx", 
    "vwaddu_vv", "vwaddu_vx", "vwaddu_wv", "vwaddu_wx", "vwsub_vv", 
    "vwsub_vx", "vwsub_wv", "vwsub_wx", "vwsubu_vv", "vwsubu_vx", 
    "vwsubu_wv", "vwsubu_wx", "vwmul_vv", "vwmul_vx", "vwmulu_vv", 
    "vwmulu_vx", "vwmulsu_vv", "vwmulsu_vx", "vwmacc_vv", "vwmacc_vx", 
    "vwmaccu_vv", "vwmaccu_vx", "vwmaccsu_vv", "vwmaccsu_vx", "vwmaccus_vx", 
    "vsext_vf2", "vsext_vf4", "vsext_vf8", "vzext_vf2", "vzext_vf4", 
    "vzext_vf8", "vadc_vvm", "vadc_vxm", "vadc_vim", "vsbc_vvm", "vsbc_vxm", 
    "vmadc_vvm", "vmadc_vxm", "vmadc_vim", "vmsbc_vvm", "vmsbc_vxm", 
    "vmseq_vv", "vmseq_vx", "vmseq_vi", "vmsne_vv", "vmsne_vx", "vmsne_vi", 
    "vmslt_vv", "vmslt_vx", "vmsltu_vv", "vmsltu_vx", "vmsle_vv", "vmsle_vx", 
    "vmsle_vi", "vmsleu_vv", "vmsleu_vx", "vmsleu_vi", "vmsgt_vx", 
    "vmsgt_vi", "vmsgtu_vx", "vmsgtu_vi">>

FixedOps ==
  <<"vsadd_vv", "vsadd_vx", "vsadd_vi", "vssub_vv", "vssub_vx", "vssubu_vv", 
    "vssubu_vx", "vsaddu_vv", "vsaddu_vx", "vsaddu_vi", "vaadd_vv", 
    "vaadd_vx", "vasub_vv", "vasub_vx", "vaaddu_vv", "vaaddu_vx", 
    "vasubu_vv", "vasubu_vx", "vssra_vv", "vssra_vx", "vssra_vi", "vssrl_vv", 
    "vssrl_vx", "vssrl_vi", "vsmul_vv", "vsmul_vx", "vnclip_wv", "vnclip_wx", 
    "vnclip_wi", "vnclipu_wv", "vnclipu_wx", "vnclipu_wi", "vredsum_vs", 
    "vredand_vs", "vredor_vs", "vredxor_vs", "vredmax_vs", "vredmaxu_vs", 
    "vredmin_vs", "vredminu_vs", "vwredsum_vs", "vwredsumu_vs", 
    "vslideup_vx", "vslideup_vi", "vslidedown_vx", "vslidedown_vi", 
    "vslide1up_vx", "vslide1down_vx", "vrgather_vv", "vrgather_vx", 
    "vrgather_vi", "vrgatherei16_vv", "vcompress_vm", "vmerge_vvm", 
    "vmerge_vxm", "vmerge_vim", "vmv_v_v", "vmv_v_x", "vmv_v_i", "vmv_s_x", 
    "vmv_x_s", "vmvnfr_v", "vmand_mm", "vmandnot_mm", "vmnand_mm", "vmor_mm", 
    "vmornot_mm", "vmnor_mm", "vmxor_mm", "vmxnor_mm", "vmsbf_m", "vmsif_m", 
    "vmsof_m", "vpopc_m", "vfirst_m", "viota_m", "vid_v">>

FloatOps ==
  <<"vfadd_vv", "vfadd_vf", "vfsub_vv", "vfsub_vf", "vfrsub_vf", "vfmul_vv", 
    "vfmul_vf", "vfdiv_vv", "vfdiv_vf", "vfrdiv_vf", "vfmin_vv", "vfmin_vf", 
    "vfmax_vv", "vfmax_vf", "vfsgnj_vv", "vfsgnj_vf", "vfsgnjn_vv", 
    "vfsgnjn_vf", "vfsgnjx_vv", "vfsgnjx_vf", "vfdot_vv", "vfmacc_vv", 
    "vfmacc_vf", "vfmsac_vv", "vfmsac_vf", "vfnmacc_vv", "vfnmacc_vf", 
    "vfnmsac_vv", "vfnmsac_vf", "vfmadd_vv", "vfmadd_vf", "vfmsub_vv", 
    "vfmsub_vf", "vfnmadd_vv", "vfnmadd_vf", "vfnmsub_vv", "vfnmsub_vf", 
    "vfsqrt_v", "vfclass_v", "vfrece7_v", "vfrsqrte7_v", "vfcvt_f_x_v", 
    "vfcvt_f_xu_v", "vfcvt_rtz_x_f_v", "vfcvt_rtz_xu_f_v", "vfcvt_x_f_v", 
    "vfcvt_xu_f_v", "vfwcvt_f_f_v", "vfwcvt_f_x_v", "vfwcvt_f_xu_v", 
    "vfwcvt_rtz_x_f_v", "vfwcvt_rtz_xu_f_v", "vfwcvt_x_f_v", "vfwcvt_xu_f_v", 
    "vfncvt_f_f_w", "vfncvt_f_x_w", "vfncvt_f_xu_w", "vfncvt_rod_f_f_w", 
    "vfncvt_rtz_x_f_w", "vfncvt_rtz_xu_f_w", "vfncvt_x_f_w", "vfncvt_xu_f_w", 
    "vfwadd_vv", "vfwadd_vf", "vfwadd_wv", "vfwadd_wf", "vfwsub_vv", 
    "vfwsub_vf", "vfwsub_wv", "vfwsub_wf", "vfwmul_vv", "vfwmul_vf", 
    "vfwmacc_vv", "vfwmacc_vf", "vfwmsac_vv", "vfwmsac_vf", "vfwnmacc_vv", 
    "vfwnmacc_vf", "vfwnmsac_vv", "vfwnmsac_vf", "vfredsum_vs", 
    "vfredosum_vs", "vfredmax_vs", "vfredmin_vs", "vfwredsum_vs", 
    "vfwredosum_vs", "vmfeq_vv", "vmfeq_vf", "vmfne_vv", "vmfne_vf", 
    "vmflt_vv", "vmflt_vf", "vmfle_vv", "vmfle_vf", "vmfgt_vf", "vmfge_vf", 
    "vfmerge_vfm", "vfmv_v_f", "vfmv_s_f", "vfmv_f_s", "vfslide1up_vf", 
    "vfslide1down_vf">>

MemoryOps ==
  <<"vle_v", "vlse_v", "vlxei_v", "vleff_v", "vlre_v", "vse_v", "vsse_v", 
    "vsxei_v", "vsuxei_v", "vsr_v", "vamoaddei_v", "vamoswapei_v", 
    "vamoandei_v", "vamoorei_v", "vamoxorei_v", "vamomaxei_v", 
    "vamomaxuei_v", "vamominei_v", "vamominuei_v">>

IntegerBody(s, d) ==
  CASE d.op = "vadd_vv" -> vadd_vv(s, d)
    [] d.op = "vadd_vx" -> vadd_vx(s, d)
    [] d.op = "vadd_vi" -> vadd_vi(s, d)
    [] d.op = "vsub_vv" -> vsub_vv(s, d)
    [] d.op = "vsub_vx" -> vsub_vx(s, d)
    [] d.op = "vrsub_vx" -> vrsub_vx(s, d)
    [] d.op = "vrsub_vi" -> vrsub_vi(s, d)
    [] d.op = "vmul_vv" -> vmul_vv(s, d)
    [] d.op = "vmul_vx" -> vmul_vx(s, d)
    [] d.op = "vmax_vv" -> vmax_vv(s, d)
    [] d.op = "vmax_vx" -> vmax_vx(s, d)
    [] d.op = "vmaxu_vv" -> vmaxu_vv(s, d)
    [] d.op = "vmaxu_vx" -> vmaxu_vx(s, d)
    [] d.op = "vmin_vv" -> vmin_vv(s, d)
    [] d.op = "vmin_vx" -> vmin_vx(s, d)
    [] d.op = "vminu_vv" -> vminu_vv(s, d)
    [] d.op = "vminu_vx" -> vminu_vx(s, d)
    [] d.op = "vdiv_vv" -> vdiv_vv(s, d)
    [] d.op = "vdiv_vx" -> vdiv_vx(s, d)
    [] d.op = "vdivu_vv" -> vdivu_vv(s, d)
    [] d.op = "vdivu_vx" -> vdivu_vx(s, d)
    [] d.op = "vrem_vv" -> vrem_vv(s, d)
    [] d.op = "vrem_vx" -> vrem_vx(s, d)
    [] d.op = "vremu_vv" -> vremu_vv(s, d)
    [] d.op = "vremu_vx" -> vremu_vx(s, d)
    [] d.op = "vmulh_vv" -> vmulh_vv(s, d)
    [] d.op = "vmulh_vx" -> vmulh_vx(s, d)
    [] d.op = "vmulhu_vv" -> vmulhu_vv(s, d)
    [] d.op = "vmulhu_vx" -> vmulhu_vx(s, d)
    [] d.op = "vmulhsu_vv" -> vmulhsu_vv(s, d)
    [] d.op = "vmulhsu_vx" -> vmulhsu_vx(s, d)
    [] d.op = "vmacc_vv" -> vmacc_vv(s, d)
    [] d.op = "vmacc_vx" -> vmacc_vx(s, d)
    [] d.op = "vmadd_vv" -> vmadd_vv(s, d)
    [] d.op = "vmadd_vx" -> vmadd_vx(s, d)
    [] d.op = "vnmsac_vv" -> vnmsac_vv(s, d)
    [] d.op = "vnmsac_vx" -> vnmsac_vx(s, d)
    [] d.op = "vnmsub_vv" -> vnmsub_vv(s, d)
    [] d.op = "vnmsub_vx" -> vnmsub_vx(s, d)
    [] d.op = "vdot_vv" -> vdot_vv(s, d)
    [] d.op = "vdotu_vv" -> vdotu_vv(s, d)
    [] d.op = "vand_vv" -> vand_vv(s, d)
    [] d.op = "vand_vx" -> vand_vx(s, d)
    [] d.op = "vand_vi" -> vand_vi(s, d)
    [] d.op = "vor_vv" -> vor_vv(s, d)
    [] d.op = "vor_vx" -> vor_vx(s, d)
    [] d.op = "vor_vi" -> vor_vi(s, d)
    [] d.op = "vxor_vv" -> vxor_vv(s, d)
    [] d.op = "vxor_vx" -> vxor_vx(s, d)
    [] d.op = "vxor_vi" -> vxor_vi(s, d)
    [] d.op = "vsll_vv" -> vsll_vv(s, d)
    [] d.op = "vsll_vx" -> vsll_vx(s, d)
    [] d.op = "vsll_vi" -> vsll_vi(s, d)
    [] d.op = "vsra_vv" -> vsra_vv(s, d)
    [] d.op = "vsra_vx" -> vsra_vx(s, d)
    [] d.op = "vsra_vi" -> vsra_vi(s, d)
    [] d.op = "vsrl_vv" -> vsrl_vv(s, d)
    [] d.op = "vsrl_vx" -> vsrl_vx(s, d)
    [] d.op = "vsrl_vi" -> vsrl_vi(s, d)
    [] d.op = "vnsra_wv" -> vnsra_wv(s, d)
    [] d.op = "vnsra_wx" -> vnsra_wx(s, d)
    [] d.op = "vnsra_wi" -> vnsra_wi(s, d)
    [] d.op = "vnsrl_wv" -> vnsrl_wv(s, d)
    [] d.op = "vnsrl_wx" -> vnsrl_wx(s, d)
    [] d.op = "vnsrl_wi" -> vnsrl_wi(s, d)
    [] d.op = "vwadd_vv" -> vwadd_vv(s, d)
    [] d.op = "vwadd_vx" -> vwadd_vx(s, d)
    [] d.op = "vwadd_wv" -> vwadd_wv(s, d)
    [] d.op = "vwadd_wx" -> vwadd_wx(s, d)
    [] d.op = "vwaddu_vv" -> vwaddu_vv(s, d)
    [] d.op = "vwaddu_vx" -> vwaddu_vx(s, d)
    [] d.op = "vwaddu_wv" -> vwaddu_wv(s, d)
    [] d.op = "vwaddu_wx" -> vwaddu_wx(s, d)
    [] d.op = "vwsub_vv" -> vwsub_vv(s, d)
    [] d.op = "vwsub_vx" -> vwsub_vx(s, d)
    [] d.op = "vwsub_wv" -> vwsub_wv(s, d)
    [] d.op = "vwsub_wx" -> vwsub_wx(s, d)
    [] d.op = "vwsubu_vv" -> vwsubu_vv(s, d)
    [] d.op = "vwsubu_vx" -> vwsubu_vx(s, d)
    [] d.op = "vwsubu_wv" -> vwsubu_wv(s, d)
    [] d.op = "vwsubu_wx" -> vwsubu_wx(s, d)
    [] d.op = "vwmul_vv" -> vwmul_vv(s, d)
    [] d.op = "vwmul_vx" -> vwmul_vx(s, d)
    [] d.op = "vwmulu_vv" -> vwmulu_vv(s, d)
    [] d.op = "vwmulu_vx" -> vwmulu_vx(s, d)
    [] d.op = "vwmulsu_vv" -> vwmulsu_vv(s, d)
    [] d.op = "vwmulsu_vx" -> vwmulsu_vx(s, d)
    [] d.op = "vwmacc_vv" -> vwmacc_vv(s, d)
    [] d.op = "vwmacc_vx" -> vwmacc_vx(s, d)
    [] d.op = "vwmaccu_vv" -> vwmaccu_vv(s, d)
    [] d.op = "vwmaccu_vx" -> vwmaccu_vx(s, d)
    [] d.op = "vwmaccsu_vv" -> vwmaccsu_vv(s, d)
    [] d.op = "vwmaccsu_vx" -> vwmaccsu_vx(s, d)
    [] d.op = "vwmaccus_vx" -> vwmaccus_vx(s, d)
    [] d.op = "vsext_vf2" -> vsext_vf2(s, d)
    [] d.op = "vsext_vf4" -> vsext_vf4(s, d)
    [] d.op = "vsext_vf8" -> vsext_vf8(s, d)
    [] d.op = "vzext_vf2" -> vzext_vf2(s, d)
    [] d.op = "vzext_vf4" -> vzext_vf4(s, d)
    [] d.op = "vzext_vf8" -> vzext_vf8(s, d)
    [] d.op = "vadc_vvm" -> vadc_vvm(s, d)
    [] d.op = "vadc_vxm" -> vadc_vxm(s, d)
    [] d.op = "vadc_vim" -> vadc_vim(s, d)
    [] d.op = "vsbc_vvm" -> vsbc_vvm(s, d)
    [] d.op = "vsbc_vxm" -> vsbc_vxm(s, d)
    [] d.op = "vmadc_vvm" -> vmadc_vvm(s, d)
    [] d.op = "vmadc_vxm" -> vmadc_vxm(s, d)
    [] d.op = "vmadc_vim" -> vmadc_vim(s, d)
    [] d.op = "vmsbc_vvm" -> vmsbc_vvm(s, d)
    [] d.op = "vmsbc_vxm" -> vmsbc_vxm(s, d)
    [] d.op = "vmseq_vv" -> vmseq_vv(s, d)
    [] d.op = "vmseq_vx" -> vmseq_vx(s, d)
    [] d.op = "vmseq_vi" -> vmseq_vi(s, d)
    [] d.op = "vmsne_vv" -> vmsne_vv(s, d)
    [] d.op = "vmsne_vx" -> vmsne_vx(s, d)
    [] d.op = "vmsne_vi" -> vmsne_vi(s, d)
    [] d.op = "vmslt_vv" -> vmslt_vv(s, d)
    [] d.op = "vmslt_vx" -> vmslt_vx(s, d)
    [] d.op = "vmsltu_vv" -> vmsltu_vv(s, d)
    [] d.op = "vmsltu_vx" -> vmsltu_vx(s, d)
    [] d.op = "vmsle_vv" -> vmsle_vv(s, d)
    [] d.op = "vmsle_vx" -> vmsle_vx(s, d)
    [] d.op = "vmsle_vi" -> vmsle_vi(s, d)
    [] d.op = "vmsleu_vv" -> vmsleu_vv(s, d)
    [] d.op = "vmsleu_vx" -> vmsleu_vx(s, d)
    [] d.op = "vmsleu_vi" -> vmsleu_vi(s, d)
    [] d.op = "vmsgt_vx" -> vmsgt_vx(s, d)
    [] d.op = "vmsgt_vi" -> vmsgt_vi(s, d)
    [] d.op = "vmsgtu_vx" -> vmsgtu_vx(s, d)
    [] d.op = "vmsgtu_vi" -> vmsgtu_vi(s, d)

FixedBody(s, d) ==
  CASE d.op = "vsadd_vv" -> vsadd_vv(s, d)
    [] d.op = "vsadd_vx" -> vsadd_vx(s, d)
    [] d.op = "vsadd_vi" -> vsadd_vi(s, d)
    [] d.op = "vssub_vv" -> vssub_vv(s, d)
    [] d.op = "vssub_vx" -> vssub_vx(s, d)
    [] d.op = "vssubu_vv" -> vssubu_vv(s, d)
    [] d.op = "vssubu_vx" -> vssubu_vx(s, d)
    [] d.op = "vsaddu_vv" -> vsaddu_vv(s, d)
    [] d.op = "vsaddu_vx" -> vsaddu_vx(s, d)
    [] d.op = "vsaddu_vi" -> vsaddu_vi(s, d)
    [] d.op = "vaadd_vv" -> vaadd_vv(s, d)
    [] d.op = "vaadd_vx" -> vaadd_vx(s, d)
    [] d.op = "vasub_vv" -> vasub_vv(s, d)
    [] d.op = "vasub_vx" -> vasub_vx(s, d)
    [] d.op = "vaaddu_vv" -> vaaddu_vv(s, d)
    [] d.op = "vaaddu_vx" -> vaaddu_vx(s, d)
    [] d.op = "vasubu_vv" -> vasubu_vv(s, d)
    [] d.op = "vasubu_vx" -> vasubu_vx(s, d)
    [] d.op = "vssra_vv" -> vssra_vv(s, d)
    [] d.op = "vssra_vx" -> vssra_vx(s, d)
    [] d.op = "vssra_vi" -> vssra_vi(s, d)
    [] d.op = "vssrl_vv" -> vssrl_vv(s, d)
    [] d.op = "vssrl_vx" -> vssrl_vx(s, d)
    [] d.op = "vssrl_vi" -> vssrl_vi(s, d)
    [] d.op = "vsmul_vv" -> vsmul_vv(s, d)
    [] d.op = "vsmul_vx" -> vsmul_vx(s, d)
    [] d.op = "vnclip_wv" -> vnclip_wv(s, d)
    [] d.op = "vnclip_wx" -> vnclip_wx(s, d)
    [] d.op = "vnclip_wi" -> vnclip_wi(s, d)
    [] d.op = "vnclipu_wv" -> vnclipu_wv(s, d)
    [] d.op = "vnclipu_wx" -> vnclipu_wx(s, d)
    [] d.op = "vnclipu_wi" -> vnclipu_wi(s, d)
    [] d.op = "vredsum_vs" -> vredsum_vs(s, d)
    [] d.op = "vredand_vs" -> vredand_vs(s, d)
    [] d.op = "vredor_vs" -> vredor_vs(s, d)
    [] d.op = "vredxor_vs" -> vredxor_vs(s, d)
    [] d.op = "vredmax_vs" -> vredmax_vs(s, d)
    [] d.op = "vredmaxu_vs" -> vredmaxu_vs(s, d)
    [] d.op = "vredmin_vs" -> vredmin_vs(s, d)
    [] d.op = "vredminu_vs" -> vredminu_vs(s, d)
    [] d.op = "vwredsum_vs" -> vwredsum_vs(s, d)
    [] d.op = "vwredsumu_vs" -> vwredsumu_vs(s, d)
    [] d.op = "vslideup_vx" -> vslideup_vx(s, d)
    [] d.op = "vslideup_vi" -> vslideup_vi(s, d)
    [] d.op = "vslidedown_vx" -> vslidedown_vx(s, d)
    [] d.op = "vslidedown_vi" -> vslidedown_vi(s, d)
    [] d.op = "vslide1up_vx" -> vslide1up_vx(s, d)
    [] d.op = "vslide1down_vx" -> vslide1down_vx(s, d)
    [] d.op = "vrgather_vv" -> vrgather_vv(s, d)
    [] d.op = "vrgather_vx" -> vrgather_vx(s, d)
    [] d.op = "vrgather_vi" -> vrgather_vi(s, d)
    [] d.op = "vrgatherei16_vv" -> vrgatherei16_vv(s, d)
    [] d.op = "vcompress_vm" -> vcompress_vm(s, d)
    [] d.op = "vmerge_vvm" -> vmerge_vvm(s, d)
    [] d.op = "vmerge_vxm" -> vmerge_vxm(s, d)
    [] d.op = "vmerge_vim" -> vmerge_vim(s, d)
    [] d.op = "vmv_v_v" -> vmv_v_v(s, d)
    [] d.op = "vmv_v_x" -> vmv_v_x(s, d)
    [] d.op = "vmv_v_i" -> vmv_v_i(s, d)
    [] d.op = "vmv_s_x" -> vmv_s_x(s, d)
    [] d.op = "vmv_x_s" -> vmv_x_s(s, d)
    [] d.op = "vmvnfr_v" -> vmvnfr_v(s, d)
    [] d.op = "vmand_mm" -> vmand_mm(s, d)
    [] d.op = "vmandnot_mm" -> vmandnot_mm(s, d)
    [] d.op = "vmnand_mm" -> vmnand_mm(s, d)
    [] d.op = "vmor_mm" -> vmor_mm(s, d)
    [] d.op = "vmornot_mm" -> vmornot_mm(s, d)
    [] d.op = "vmnor_mm" -> vmnor_mm(s, d)
    [] d.op = "vmxor_mm" -> vmxor_mm(s, d)
    [] d.op = "vmxnor_mm" -> vmxnor_mm(s, d)
    [] d.op = "vmsbf_m" -> vmsbf_m(s, d)
    [] d.op = "vmsif_m" -> vmsif_m(s, d)
    [] d.op = "vmsof_m" -> vmsof_m(s, d)
    [] d.op = "vpopc_m" -> vpopc_m(s, d)
    [] d.op = "vfirst_m" -> vfirst_m(s, d)
    [] d.op = "viota_m" -> viota_m(s, d)
    [] d.op = "vid_v" -> vid_v(s, d)

FloatBody(s, d) ==
  CASE d.op = "vfadd_vv" -> vfadd_vv(s, d)
    [] d.op = "vfadd_vf" -> vfadd_vf(s, d)
    [] d.op = "vfsub_vv" -> vfsub_vv(s, d)
    [] d.op = "vfsub_vf" -> vfsub_vf(s, d)
    [] d.op = "vfrsub_vf" -> vfrsub_vf(s, d)
    [] d.op = "vfmul_vv" -> vfmul_vv(s, d)
    [] d.op = "vfmul_vf" -> vfmul_vf(s, d)
    [] d.op = "vfdiv_vv" -> vfdiv_vv(s, d)
    [] d.op = "vfdiv_vf" -> vfdiv_vf(s, d)
    [] d.op = "vfrdiv_vf" -> vfrdiv_vf(s, d)
    [] d.op = "vfmin_vv" -> vfmin_vv(s, d)
    [] d.op = "vfmin_vf" -> vfmin_vf(s, d)
    [] d.op = "vfmax_vv" -> vfmax_vv(s, d)
    [] d.op = "vfmax_vf" -> vfmax_vf(s, d)
    [] d.op = "vfsgnj_vv" -> vfsgnj_vv(s, d)
    [] d.op = "vfsgnj_vf" -> vfsgnj_vf(s, d)
    [] d.op = "vfsgnjn_vv" -> vfsgnjn_vv(s, d)
    [] d.op = "vfsgnjn_vf" -> vfsgnjn_vf(s, d)
    [] d.op = "vfsgnjx_vv" -> vfsgnjx_vv(s, d)
    [] d.op = "vfsgnjx_vf" -> vfsgnjx_vf(s, d)
    [] d.op = "vfdot_vv" -> vfdot_vv(s, d)
    [] d.op = "vfmacc_vv" -> vfmacc_vv(s, d)
    [] d.op = "vfmacc_vf" -> vfmacc_vf(s, d)
    [] d.op = "vfmsac_vv" -> vfmsac_vv(s, d)
    [] d.op = "vfmsac_vf" -> vfmsac_vf(s, d)
    [] d.op = "vfnmacc_vv" -> vfnmacc_vv(s, d)
    [] d.op = "vfnmacc_vf" -> vfnmacc_vf(s, d)
    [] d.op = "vfnmsac_vv" -> vfnmsac_vv(s, d)
    [] d.op = "vfnmsac_vf" -> vfnmsac_vf(s, d)
    [] d.op = "vfmadd_vv" -> vfmadd_vv(s, d)
    [] d.op = "vfmadd_vf" -> vfmadd_vf(s, d)
    [] d.op = "vfmsub_vv" -> vfmsub_vv(s, d)
    [] d.op = "vfmsub_vf" -> vfmsub_vf(s, d)
    [] d.op = "vfnmadd_vv" -> vfnmadd_vv(s, d)
    [] d.op = "vfnmadd_vf" -> vfnmadd_vf(s, d)
    [] d.op = "vfnmsub_vv" -> vfnmsub_vv(s, d)
    [] d.op = "vfnmsub_vf" -> vfnmsub_vf(s, d)
    [] d.op = "vfsqrt_v" -> vfsqrt_v(s, d)
    [] d.op = "vfclass_v" -> vfclass_v(s, d)
    [] d.op = "vfrece7_v" -> vfrece7_v(s, d)
    [] d.op = "vfrsqrte7_v" -> vfrsqrte7_v(s, d)
    [] d.op = "vfcvt_f_x_v" -> vfcvt_f_x_v(s, d)
    [] d.op = "vfcvt_f_xu_v" -> vfcvt_f_xu_v(s, d)
    [] d.op = "vfcvt_rtz_x_f_v" -> vfcvt_rtz_x_f_v(s, d)
    [] d.op = "vfcvt_rtz_xu_f_v" -> vfcvt_rtz_xu_f_v(s, d)
    [] d.op = "vfcvt_x_f_v" -> vfcvt_x_f_v(s, d)
    [] d.op = "vfcvt_xu_f_v" -> vfcvt_xu_f_v(s, d)
    [] d.op = "vfwcvt_f_f_v" -> vfwcvt_f_f_v(s, d)
    [] d.op = "vfwcvt_f_x_v" -> vfwcvt_f_x_v(s, d)
    [] d.op = "vfwcvt_f_xu_v" -> vfwcvt_f_xu_v(s, d)
    [] d.op = "vfwcvt_rtz_x_f_v" -> vfwcvt_rtz_x_f_v(s, d)
    [] d.op = "vfwcvt_rtz_xu_f_v" -> vfwcvt_rtz_xu_f_v(s, d)
    [] d.op = "vfwcvt_x_f_v" -> vfwcvt_x_f_v(s, d)
    [] d.op = "vfwcvt_xu_f_v" -> vfwcvt_xu_f_v(s, d)
    [] d.op = "vfncvt_f_f_w" -> vfncvt_f_f_w(s, d)
    [] d.op = "vfncvt_f_x_w" -> vfncvt_f_x_w(s, d)
    [] d.op = "vfncvt_f_xu_w" -> vfncvt_f_xu_w(s, d)
    [] d.op = "vfncvt_rod_f_f_w" -> vfncvt_rod_f_f_w(s, d)
    [] d.op = "vfncvt_rtz_x_f_w" -> vfncvt_rtz_x_f_w(s, d)
    [] d.op = "vfncvt_rtz_xu_f_w" -> vfncvt_rtz_xu_f_w(s, d)
    [] d.op = "vfncvt_x_f_w" -> vfncvt_x_f_w(s, d)
    [] d.op = "vfncvt_xu_f_w" -> vfncvt_xu_f_w(s, d)
    [] d.op = "vfwadd_vv" -> vfwadd_vv(s, d)
    [] d.op = "vfwadd_vf" -> vfwadd_vf(s, d)
    [] d.op = "vfwadd_wv" -> vfwadd_wv(s, d)
    [] d.op = "vfwadd_wf" -> vfwadd_wf(s, d)
    [] d.op = "vfwsub_vv" -> vfwsub_vv(s, d)
    [] d.op = "vfwsub_vf" -> vfwsub_vf(s, d)
    [] d.op = "vfwsub_wv" -> vfwsub_wv(s, d)
    [] d.op = "vfwsub_wf" -> vfwsub_wf(s, d)
    [] d.op = "vfwmul_vv" -> vfwmul_vv(s, d)
    [] d.op = "vfwmul_vf" -> vfwmul_vf(s, d)
    [] d.op = "vfwmacc_vv" -> vfwmacc_vv(s, d)
    [] d.op = "vfwmacc_vf" -> vfwmacc_vf(s, d)
    [] d.op = "vfwmsac_vv" -> vfwmsac_vv(s, d)
    [] d.op = "vfwmsac_vf" -> vfwmsac_vf(s, d)
    [] d.op = "vfwnmacc_vv" -> vfwnmacc_vv(s, d)
    [] d.op = "vfwnmacc_vf" -> vfwnmacc_vf(s, d)
    [] d.op = "vfwnmsac_vv" -> vfwnmsac_vv(s, d)
    [] d.op = "vfwnmsac_vf" -> vfwnmsac_vf(s, d)
    [] d.op = "vfredsum_vs" -> vfredsum_vs(s, d)
    [] d.op = "vfredosum_vs" -> vfredosum_vs(s, d)
    [] d.op = "vfredmax_vs" -> vfredmax_vs(s, d)
    [] d.op = "vfredmin_vs" -> vfredmin_vs(s, d)
    [] d.op = "vfwredsum_vs" -> vfwredsum_vs(s, d)
    [] d.op = "vfwredosum_vs" -> vfwredosum_vs(s, d)
    [] d.op = "vmfeq_vv" -> vmfeq_vv(s, d)
    [] d.op = "vmfeq_vf" -> vmfeq_vf(s, d)
    [] d.op = "vmfne_vv" -> vmfne_vv(s, d)
    [] d.op = "vmfne_vf" -> vmfne_vf(s, d)
    [] d.op = "vmflt_vv" -> vmflt_vv(s, d)
    [] d.op = "vmflt_vf" -> vmflt_vf(s, d)
    [] d.op = "vmfle_vv" -> vmfle_vv(s, d)
    [] d.op = "vmfle_vf" -> vmfle_vf(s, d)
    [] d.op = "vmfgt_vf" -> vmfgt_vf(s, d)
    [] d.op = "vmfge_vf" -> vmfge_vf(s, d)
    [] d.op = "vfmerge_vfm" -> vfmerge_vfm(s, d)
    [] d.op = "vfmv_v_f" -> vfmv_v_f(s, d)
    [] d.op = "vfmv_s_f" -> vfmv_s_f(s, d)
    [] d.op = "vfmv_f_s" -> vfmv_f_s(s, d)
    [] d.op = "vfslide1up_vf" -> vfslide1up_vf(s, d)
    [] d.op = "vfslide1down_vf" -> vfslide1down_vf(s, d)

MemoryBody(s, d) ==
  CASE d.op = "vle_v" -> vle_v(s, d)
    [] d.op = "vlse_v" -> vlse_v(s, d)
    [] d.op = "vlxei_v" -> vlxei_v(s, d)
    [] d.op = "vleff_v" -> vleff_v(s, d)
    [] d.op = "vlre_v" -> vlre_v(s, d)
    [] d.op = "vse_v" -> vse_v(s, d)
    [] d.op = "vsse_v" -> vsse_v(s, d)
    [] d.op = "vsxei_v" -> vsxei_v(s, d)
    [] d.op = "vsuxei_v" -> vsuxei_v(s, d)
    [] d.op = "vsr_v" -> vsr_v(s, d)
    [] d.op = "vamoaddei_v" -> vamoaddei_v(s, d)
    [] d.op = "vamoswapei_v" -> vamoswapei_v(s, d)
    [] d.op = "vamoandei_v" -> vamoandei_v(s, d)
    [] d.op = "vamoorei_v" -> vamoorei_v(s, d)
    [] d.op = "vamoxorei_v" -> vamoxorei_v(s, d)
    [] d.op = "vamomaxei_v" -> vamomaxei_v(s, d)
    [] d.op = "vamomaxuei_v" -> vamomaxuei_v(s, d)
    [] d.op = "vamominei_v" -> vamominei_v(s, d)
    [] d.op = "vamominuei_v" -> vamominuei_v(s, d)

Holds(seq, x) == \E i \in DOMAIN seq : seq[i] = x

(* The pc after the instruction, unless it sets another.                    *)
Fetched(s, d) == [s EXCEPT !.npc = reg_t(sext_xlen(s, s.pc + d.len))]

Scalar(op) == Holds(ScalarOps, op) \/ Holds(ScalarFloatOps, op)
Accessing(op) == Holds(MemoryOps, op)

ScalarExec(s, d) ==
  IF Holds(ScalarOps, d.op) THEN ScalarBody(Fetched(s, d), d) ELSE ScalarFloatBody(Fetched(s, d), d)

RegisterExec(s, d) ==
  CASE Holds(IntegerOps, d.op) -> IntegerBody(s, d)
    [] Holds(FixedOps, d.op)   -> FixedBody(s, d)
    [] Holds(FloatOps, d.op)   -> FloatBody(s, d)

(* execute_insn: the instruction's own file.                                *)
Exec(s, d) ==
  CASE Scalar(d.op)    -> ScalarExec(s, d)
    [] Accessing(d.op) -> MemoryBody(s, d)
    [] OTHER           -> RegisterExec(s, d)

(*------------------------------- the machine ------------------------------*)

NoInsn == [op |-> "none"]

(* The state of the unit before its reset.                                  *)
PowerOn ==
  [reg |-> [b \in 0 .. NVPR * VLENB - 1 |-> 0], vtype |-> IllType, vsew |-> e8,
   vflmul |-> 8, vlmax |-> 0, vl |-> 0, vstart |-> 0, vill |-> TRUE,
   vstart_alu |-> FALSE, vxrm |-> "RNU", vxsat |-> 0, fflags |-> {}, frm |-> 0,
   fs |-> TRUE, xlen |-> e64, ext |-> {}, prv |-> PRV_U, virt |-> FALSE, hu |-> FALSE,
   XPR |-> <<>>, FPR |-> <<>>, pc |-> 0, npc |-> 0, res |-> NoReservation, x |-> 0, mem |-> <<>>, bad |-> {}, faddr |-> 0, setvl |-> 0,
   trap |-> "none"]

Init ==
  /\ u = reset(PowerOn) /\ insn = NoInsn /\ start = reset(PowerOn) /\ phase = "config"
  /\ peer = PowerOn /\ turn = [here |-> 0, all |-> 0] /\ lost = [own |-> {}, other |-> {}]

SetVl ==
  /\ phase = "config" /\ u.setvl < MaxSetVl
  /\ \E d \in Settings :
       u' = [(IF d.op = "vsetvl" THEN vsetvl(u, d) ELSE vsetvli(u, d)) EXCEPT !.setvl = @ + 1]
  /\ UNCHANGED <<insn, start, phase, shared>>

(* Earlier instructions left the registers, the memory, vstart and the      *)
(* control registers in some state.                                         *)
Issue ==
  /\ phase = "config"
  /\ \E l \in Loaded(u) :
       /\ u' = [f \in DOMAIN u |-> IF f \in DOMAIN l.state THEN l.state[f] ELSE u[f]]
       /\ insn' = l.insn
  /\ start' = u' /\ phase' = "run"
  /\ UNCHANGED shared

Execute ==
  /\ phase = "run"
  /\ u' = Exec(u, insn)
  /\ phase' = IF u'.trap = "fault" THEN "fault" ELSE "done"
  /\ UNCHANGED <<insn, start, shared>>

(* The trap handler maps the page and returns to the instruction.           *)
MapPage ==
  /\ phase = "fault"
  /\ u' = [u EXCEPT !.bad = @ \ {Page(u.faddr)}, !.trap = "none"]
  /\ phase' = "run"
  /\ UNCHANGED <<insn, start, shared>>

(* Two harts on one memory, from their reset on.                            *)
Boot ==
  /\ phase = "config" /\ u.setvl = 0
  /\ \E p \in Pairs :
       /\ u' = [f \in DOMAIN u |-> IF f \in DOMAIN p[1] THEN p[1][f] ELSE u[f]]
       /\ peer' = [f \in DOMAIN u |-> IF f \in DOMAIN p[2] THEN p[2][f] ELSE u[f]]
  /\ phase' = "shared"
  /\ UNCHANGED <<insn, start, turn, lost>>

Succeeds(d, before, after) == before.XPR[d.rs1] = before.res /\ after.XPR[d.rd] = 0
Stored(d, before, after) ==
  IF \/ d.op \in {"sw", "amoswap_w", "amoadd_w"}
     \/ d.op \in {"sc_w", "sc_d"} /\ Succeeds(d, before, after)
    THEN Wrapped(before.mem, Address(before, d)) .. Wrapped(before.mem, Address(before, d)) + e32 - 1
    ELSE {}

(* processor_t::step: one instruction of the hart whose turn it is.         *)
Step ==
  /\ phase = "shared" /\ turn.here < INTERLEAVE /\ turn.all < MaxShared
  /\ \E d \in SharedInsns :
       /\ u' = ScalarExec(u, d) /\ insn' = d
       /\ lost' = [own   |-> IF d.op \in {"lr_w", "lr_d"} THEN {}
                             ELSE IF d.op \in {"sc_w", "sc_d"} THEN DOMAIN u.mem ELSE lost.own,
                   other |-> lost.other \cup Stored(d, u, u')]
  /\ turn' = [here |-> turn.here + 1, all |-> turn.all + 1]
  /\ UNCHANGED <<start, phase, peer>>

(* sim_t::step: the hart whose turn ends gives up its reservation; the      *)
(* memory goes on to the other.                                             *)
Switch ==
  /\ phase = "shared" /\ turn.here = INTERLEAVE
  /\ u' = [peer EXCEPT !.mem = u.mem]
  /\ peer' = yield_load_reservation(u)
  /\ turn' = [turn EXCEPT !.here = 0]
  /\ lost' = [own |-> lost.other, other |-> lost.own]
  /\ insn' = NoInsn
  /\ UNCHANGED <<start, phase>>

Next == SetVl \/ Issue \/ Execute \/ MapPage \/ Boot \/ Step \/ Switch

Spec == Init /\ [][Next]_vars

(*------------------------------- properties -------------------------------*)

Completed(s) == phase = "done" /\ s.trap = "none"

(* Cached vector type (processor.cc, set_vl): after any sequence of vsetvl  *)
(* instructions the fields derived from vtype are those of the vtype that   *)
(* is there, an unsupported one leaves no element, and vl fits.  set_vl     *)
(* only recomputes on a change and may keep the old vl.                     *)
TypeCurrent ==
  /\ u.vill <=> u.vtype.above
  /\ u.vill => u.vtype = IllType /\ u.vlmax = 0
  /\ ~u.vill => /\ u.vsew = 2 ^ u.vtype.code /\ u.vflmul = Eighths(u.vtype.vlmul)
                /\ u.vlmax * u.vsew * 8 = VLENB * u.vflmul
                /\ u.vsew * 8 <= ELEN * u.vflmul
  /\ u.vl \in 0 .. u.vlmax

(* The instructions whose elements depend on one another, or that write     *)
(* something other than one element for each.                               *)
Together ==
  {"vmv_s_x", "vmv_x_s", "vmvnfr_v", "vmsbf_m", "vmsif_m", "vmsof_m", "vpopc_m",
   "vfirst_m", "viota_m", "vredsum_vs", "vredand_vs", "vredor_vs", "vredxor_vs",
   "vredmax_vs", "vredmaxu_vs", "vredmin_vs", "vredminu_vs", "vwredsum_vs",
   "vwredsumu_vs", "vslide1down_vx", "vcompress_vm", "vfredsum_vs", "vfredosum_vs",
   "vfredmax_vs", "vfredmin_vs", "vfwredsum_vs", "vfwredosum_vs", "vfmv_s_f",
   "vfmv_f_s", "vfslide1down_vf"}

(* Element i computed with no other element around it.                      *)
Alone(s, d, i) == RegisterExec([s EXCEPT !.vstart = i, !.vl = i + 1, !.vstart_alu = TRUE], d)

(* `after' is `before' with what each element did alone.                    *)
Combines(after, before, done) ==
  /\ \A b \in DOMAIN before.reg :
       after.reg[b] = FoldLeft(LAMBDA acc, i : acc + done[i].reg[b] - before.reg[b],
                               before.reg[b], Elements(before))
  /\ after.fflags = before.fflags \cup UNION {done[i].fflags : i \in DOMAIN done}
  /\ after.vxsat = (IF \E i \in DOMAIN done : done[i].vxsat = 1 THEN 1 ELSE before.vxsat)
  /\ after.vstart = 0

(* Overlapping registers (decode.h, VI_CHECK_..; every loop): an            *)
(* instruction that was not refused computes each element as if it were the *)
(* only one, from the registers as they were before it: no element's        *)
(* source, and not the mask, is overwritten by an element before it.  The   *)
(* exceptions of all the elements accumulate, and what is before vstart,    *)
(* after vl or masked off is kept.                                          *)
ElementsExact ==
  Completed(u) /\ ~Scalar(insn.op) /\ ~Accessing(insn.op) /\ insn.op \notin Together =>
    Combines(u, start, [i \in start.vstart .. start.vl - 1 |-> Alone(start, insn, i)])

(* Atomics restart from their first element; fault-only-first loads are     *)
(* allowed to stop early.                                                   *)
Restartable == {"vle_v", "vlse_v", "vlxei_v", "vlre_v", "vse_v", "vsse_v", "vsxei_v",
                "vsuxei_v", "vsr_v"}

SameLoad(whole, emul) ==
  \A i \in start.vstart .. u.vl - 1 : \A fn \in 0 .. insn.nf :
    elt(u, insn.rd + fn * emul, i, insn.ew) = elt(whole, insn.rd + fn * emul, i, insn.ew)

SameVector(whole) ==
  /\ insn.op \in Restartable =>
       u.reg = whole.reg /\ u.mem = whole.mem /\ u.vl = whole.vl /\ u.vstart = whole.vstart
  /\ insn.op = "vleff_v" =>
       /\ u.vl <= start.vl /\ (start.vl > start.vstart => u.vl > 0)
       /\ SameLoad(whole, AtLeastOne(vemul(start, insn.ew)))

(* The instruction on a hart that has every page mapped.                    *)
Unfaulted == [start EXCEPT !.bad = {}]

(* A load or store that faulted at any of its elements, was restarted each  *)
(* time at vstart and completed has the effect of one that met no fault,    *)
(* although the restarted execution reads its indexes and its mask again.   *)
(* A fault-only-first load leaves a vl for which every element was loaded,  *)
(* at least one when there was one to load.                                 *)
Restarts ==
  Completed(u) =>
    /\ Accessing(insn.op) => SameVector(MemoryBody(Unfaulted, insn))
    /\ Scalar(insn.op) => [u EXCEPT !.bad = {}, !.faddr = 0]
                           = [ScalarExec(Unfaulted, insn) EXCEPT !.faddr = 0]

Architectural(s) == <<s.XPR, s.FPR, s.fflags, s.res>>

(* A scalar instruction that traps has changed no register, flag or         *)
(* reservation, and no memory but where a store was not aligned or the      *)
(* second half of 128 bits faulted.                                         *)
TrapsPrecise ==
  Scalar(insn.op) /\ phase \in {"done", "fault"} /\ u.trap # "none" =>
    /\ Architectural(u) = Architectural(start)
    /\ u.trap # "misaligned" /\ insn.op # "fsq" => u.mem = start.mem

(* Restart after a page fault (decode.h, P.VU.vstart = i; the copies of     *)
(* VI_DUPLICATE_VREG; execute.cc, step): an instruction that met page       *)
(* faults, was restarted after each and completed ends as if it had met     *)
(* none, and a trap is precise: what it leaves is what a restart needs.     *)
RestartExact == Restarts /\ TrapsPrecise

(*------------------------ fixed-point arithmetic --------------------------*)

(* v is n / 2^p rounded as rm says, stated without computing it.            *)
IsRounded(v, n, p, rm) ==
  LET err == v * 2 ^ p - n     \* how far v is above, in units of 2^-p
  IN  CASE rm = "RNU" -> -(2 ^ p) < 2 * err /\ 2 * err <= 2 ^ p
        [] rm = "RNE" -> /\ -(2 ^ p) <= 2 * err /\ 2 * err <= 2 ^ p
                         /\ Magnitude(2 * err) = 2 ^ p => v % 2 = 0
        [] rm = "RDN" -> -(2 ^ p) < err /\ err <= 0
        [] rm = "ROD" -> -(2 ^ p) < err /\ err < 2 ^ p /\ (err # 0 => v % 2 = 1)

(* The representable value nearest to x, in a range.                        *)
Clamp(x, lo, hi) == IF x < lo THEN lo ELSE IF x > hi THEN hi ELSE x

(* v and the remainder are the quotient and remainder of b by a.            *)
IsDivided(q, r, a, b) ==
  /\ b = a * q + r /\ Magnitude(r) < Magnitude(a)
  /\ r # 0 => (r < 0) = (b < 0)

(* What the result v of an element must satisfy: a is the first source, b   *)
(* is vs2, x is whether the element saturated, w the width.                 *)
Fits(op, a, b, v, w, rm) ==
  LET n  == Bits(w)
      xa == Signed(a, w)  xb == Signed(b, w)  xv == Signed(v, w)
      lo == -(2 ^ (n - 1))  hi == 2 ^ (n - 1) - 1  all == 2 ^ n - 1
      Exists(P(_)) == \E z \in -(2 ^ n) .. 2 ^ n : P(z)
      k == a % n
  IN  CASE op \in {"vdiv_vv", "vdiv_vx"} ->
             IF a = 0 THEN v = all
             ELSE IF xb = lo /\ xa = -1 THEN xv = lo
             ELSE Exists(LAMBDA r : IsDivided(xv, r, xa, xb))
        [] op \in {"vrem_vv", "vrem_vx"} ->
             IF a = 0 THEN v = b
             ELSE IF xb = lo /\ xa = -1 THEN v = 0
             ELSE Exists(LAMBDA q : IsDivided(q, xv, xa, xb))
        [] op \in {"vmulh_vv", "vmulh_vx"} -> IsRounded(xv, xa * xb, n, "RDN")
        [] op \in {"vmulhu_vv", "vmulhu_vx"} -> IsRounded(v, a * b, n, "RDN")
        [] op \in {"vmulhsu_vv", "vmulhsu_vx"} -> IsRounded(xv, a * xb, n, "RDN")
        [] op \in {"vsadd_vv", "vsadd_vx"} -> xv = Clamp(xb + xa, lo, hi)
        [] op \in {"vssub_vv", "vssub_vx"} -> xv = Clamp(xb - xa, lo, hi)
        [] op \in {"vsaddu_vv", "vsaddu_vx"} -> v = Clamp(b + a, 0, all)
        [] op \in {"vssubu_vv", "vssubu_vx"} -> v = Clamp(b - a, 0, all)
        [] op \in {"vaadd_vv", "vaadd_vx"} -> IsRounded(xv, xb + xa, 1, rm)
        [] op \in {"vaaddu_vv", "vaaddu_vx"} -> IsRounded(v, b + a, 1, rm)
        [] op \in {"vssra_vv", "vssra_vx"} -> IsRounded(xv, xb, k, rm)
        [] op \in {"vssrl_vv", "vssrl_vx"} -> IsRounded(v, b, k, rm)
        [] op \in {"vsmul_vv", "vsmul_vx"} ->
             IF xa = lo /\ xb = lo THEN xv = hi ELSE IsRounded(xv, xb * xa, n - 1, rm)
        [] OTHER -> TRUE

ScalarForms == {"vdiv_vx", "vrem_vx", "vmulh_vx", "vmulhu_vx", "vmulhsu_vx", "vsadd_vx",
                "vssub_vx", "vsaddu_vx", "vssubu_vx", "vaadd_vx", "vaaddu_vx", "vssra_vx",
                "vssrl_vx", "vsmul_vx"}
VectorForms == {"vdiv_vv", "vrem_vv", "vmulh_vv", "vmulhu_vv", "vmulhsu_vv", "vsadd_vv",
                "vssub_vv", "vsaddu_vv", "vssubu_vv", "vaadd_vv", "vaaddu_vv", "vssra_vv",
                "vssrl_vv", "vsmul_vv"}

(* The wide source of vnclip(u), the amount and the narrow result.          *)
IsClipped(op, s, d, i, v, rm) ==
  LET w  == s.vsew
      n  == Bits(w)
      k == (IF op \in {"vnclip_wv", "vnclipu_wv"} THEN elt(s, d.rs1, i, w) ELSE d.RS1) % (2 * n)
      signed == op \in {"vnclip_wv", "vnclip_wx"}
      x  == IF signed THEN selt(s, d.rs2, i, 2 * w) ELSE elt(s, d.rs2, i, 2 * w)
      lo == IF signed THEN -(2 ^ (n - 1)) ELSE 0
      hi == IF signed THEN 2 ^ (n - 1) - 1 ELSE 2 ^ n - 1
      z  == IF signed THEN Signed(v, w) ELSE v
  IN  \E q \in -(2 ^ (2 * n - 1)) .. 2 ^ (2 * n) : IsRounded(q, x, k, rm) /\ z = Clamp(q, lo, hi)

(* Every active element of a division, high product, saturating, averaging, *)
(* scaling or clipping instruction.                                         *)
FixedPointExact ==
  \A i \in start.vstart .. start.vl - 1 :
    Active(start, insn, i) =>
      LET w == start.vsew
          v == elt(u, insn.rd, i, w)
          b == elt(start, insn.rs2, i, w)
      IN  /\ insn.op \in VectorForms => Fits(insn.op, elt(start, insn.rs1, i, w), b, v, w, start.vxrm)
          /\ insn.op \in ScalarForms => Fits(insn.op, Unsigned(insn.RS1, w), b, v, w, start.vxrm)
          /\ insn.op \in {"vnclip_wv", "vnclip_wx", "vnclipu_wv", "vnclipu_wx"} =>
               IsClipped(insn.op, start, insn, i, v, start.vxrm)

(*--------------------------- scalar arithmetic ----------------------------*)

(* hi and lo are the halves, of n bits, of a * b: an equation of numbers    *)
(* too wide for a machine integer, between residues that determine them.    *)
IsProduct(hi, lo, a, b, n) ==
  \A m \in {2027, 2029, 2039} :
    ((hi % m) * (2 ^ n % m) + lo) % m = ((a % m) * (b % m)) % m

WordForms == {"divw", "divuw", "remw", "remuw", "sraw", "srlw"}

(* What the result z of n bits, read with the sign the instruction gives it, *)
(* must satisfy for operands x and y.                                       *)
IsResult(op, x, y, z, n) ==
  LET lo == -(2 ^ (n - 1))
  IN  CASE op \in {"div", "divw"} ->
             IF y = 0 THEN z = -1
             ELSE IF x = lo /\ y = -1 THEN z = lo ELSE IsDivided(z, x - y * z, y, x)
        [] op \in {"divu", "divuw"} ->
             IF y = 0 THEN z = 2 ^ n - 1 ELSE IsDivided(z, x - y * z, y, x)
        [] op \in {"rem", "remw", "remu", "remuw"} ->
             IF y = 0 THEN z = x
             ELSE IF x = lo /\ y = -1 THEN z = 0 ELSE IsDivided((x - z) \div y, z, y, x)
        [] op \in {"mulh", "mulhsu", "mulhu"} ->
             IsProduct(z, (IF n = Bits(e64) THEN reg_t(sreg_t(x) * sreg_t(y)) ELSE (x * y) % 2 ^ n), x, y, n)
        [] op \in {"sra", "srl", "sraw", "srlw"} -> IsRounded(z, x, y % n, "RDN")
        [] OTHER -> TRUE

SignedX == {"div", "divw", "rem", "remw", "mulh", "mulhsu", "sra", "sraw"}
SignedY == {"div", "divw", "rem", "remw", "mulh"}

ScalarExact ==
  insn.rd # 0 /\ Holds(ScalarOps, insn.op) =>
    LET w == IF insn.op \in WordForms THEN e32 ELSE start.xlen
        Read(x, signed) == IF signed THEN Signed(x, w) ELSE Unsigned(x, w)
    IN  IsResult(insn.op, Read(start.XPR[insn.rs1], insn.op \in SignedX),
                 Read(start.XPR[insn.rs2], insn.op \in SignedY),
                 Read(u.XPR[insn.rd], insn.op \in SignedX), Bits(w))

(* The order of the values of a format, the two zeros apart.                *)
Rank(v, w) ==
  LET magnitude == (TopLimb(v) % 2 ^ (Bits(Top(w)) - 1)) * (IF w = e128 THEN 2 ^ Bits(e64) ELSE 1)
                   + (IF w = e128 THEN v[1] ELSE 0)
  IN  IF Sign(v, w) = 1 THEN -magnitude - 1 ELSE magnitude

Lowest2 == {"fmin_s", "fmin_d", "fmin_q"}
Highest2 == {"fmax_s", "fmax_d", "fmax_q"}
FormatOf(op) == IF op \in {"fmin_s", "fmax_s"} THEN e32 ELSE IF op \in {"fmin_d", "fmax_d"} THEN e64 ELSE e128

MinMaxExact ==
  insn.op \in Lowest2 \cup Highest2 =>
    LET w == FormatOf(insn.op)
        a == FRS1(start, insn, w)
        b == FRS2(start, insn, w)
        r == Unboxed(u.FPR[insn.rd], w)
        Beats(x, y) == IF insn.op \in Lowest2 THEN Rank(x, w) <= Rank(y, w) ELSE Rank(x, w) >= Rank(y, w)
    IN  CASE isNaN(a, w) /\ isNaN(b, w) -> r = defaultNaN(w)
          [] isNaN(a, w) /\ ~isNaN(b, w) -> r = b
          [] isNaN(b, w) /\ ~isNaN(a, w) -> r = a
          [] OTHER -> r \in {a, b} /\ Beats(r, a) /\ Beats(r, b)

(* Results at the edges (insns/*.h, arith.h, INT_ROUNDING): divisions,      *)
(* remainders, high products and right shifts of either register width, and *)
(* the fixed-point instructions of the vector unit, give the exact result,  *)
(* rounded and cut as the instruction says, and the values the architecture *)
(* names where there is none; the minimum and maximum of two floating-point *)
(* values order the zeros and pass over one NaN.                            *)
ArithmeticExact == Completed(u) => FixedPointExact /\ ScalarExact /\ MinMaxExact

(*--------------------------- compressed instructions ----------------------*)

As(d, op, rd, rs1, rs2) == [d EXCEPT !.op = op, !.rd = rd, !.rs1 = rs1, !.rs2 = rs2]

(* The instruction of full length that a compressed one stands for, with    *)
(* the length of the compressed one.                                        *)
Expansion(s, d) ==
  LET rv32 == s.xlen = e32
      Both(op) == As(d, op, d.rs1s, d.rs1s, d.rs2s)
      Full(op) == As(d, op, d.rd, d.rd, d.rs2)
      LoadsFrom(op, rd, base) == As(d, op, rd, base, 0)
      StoresTo(op, base, rs) == As(d, op, 0, base, rs)
  IN  CASE d.op = "c_add" -> Full("add")      [] d.op = "c_addi" -> Full("addi")
        [] d.op = "c_addi4spn" -> As(d, "addi", d.rs2s, X_SP, 0)
        [] d.op = "c_addw" -> Both("addw")    [] d.op = "c_subw" -> Both("subw")
        [] d.op = "c_sub" -> Both("sub")      [] d.op = "c_xor" -> Both("xor")
        [] d.op = "c_or" -> Both("or")        [] d.op = "c_and" -> Both("and")
        [] d.op = "c_andi" -> Both("andi")    [] d.op = "c_slli" -> Full("slli")
        [] d.op = "c_srli" -> Both("srli")    [] d.op = "c_srai" -> Both("srai")
        [] d.op = "c_beqz" -> As(d, "beq", 0, d.rs1s, 0)
        [] d.op = "c_bnez" -> As(d, "bne", 0, d.rs1s, 0)
        [] d.op = "c_j" -> As(d, "jal", 0, 0, 0)
        [] d.op = "c_jal" -> IF rv32 THEN As(d, "jal", X_RA, 0, 0) ELSE Full("addiw")
        [] d.op = "c_jr" -> [As(d, "jalr", 0, d.rd, 0) EXCEPT !.imm = 0]
        [] d.op = "c_jalr" -> [As(d, "jalr", X_RA, d.rd, 0) EXCEPT !.imm = 0]
        [] d.op = "c_li" -> As(d, "addi", d.rd, 0, 0)
        [] d.op = "c_mv" -> As(d, "add", d.rd, 0, d.rs2)
        [] d.op = "c_lui" -> IF d.rd = X_SP THEN As(d, "addi", X_SP, X_SP, 0)
                             ELSE [As(d, "lui", d.rd, 0, 0) EXCEPT !.imm = d.imm * 2 ^ UpperBits]
        [] d.op = "c_lw" -> LoadsFrom("lw", d.rs2s, d.rs1s)
        [] d.op = "c_lwsp" -> LoadsFrom("lw", d.rd, X_SP)
        [] d.op = "c_sw" -> StoresTo("sw", d.rs1s, d.rs2s)
        [] d.op = "c_swsp" -> StoresTo("sw", X_SP, d.rs2)
        [] d.op = "c_fld" -> LoadsFrom("fld", d.rs2s, d.rs1s)
        [] d.op = "c_fldsp" -> LoadsFrom("fld", d.rd, X_SP)
        [] d.op = "c_fsd" -> StoresTo("fsd", d.rs1s, d.rs2s)
        [] d.op = "c_fsdsp" -> StoresTo("fsd", X_SP, d.rs2)
        [] d.op = "c_flw" -> LoadsFrom(IF rv32 THEN "flw" ELSE "ld", d.rs2s, d.rs1s)
        [] d.op = "c_flwsp" -> LoadsFrom(IF rv32 THEN "flw" ELSE "ld", d.rd, X_SP)
        [] d.op = "c_fsw" -> StoresTo(IF rv32 THEN "fsw" ELSE "sd", d.rs1s, d.rs2s)
        [] d.op = "c_fswsp" -> StoresTo(IF rv32 THEN "fsw" ELSE "sd", X_SP, d.rs2)

(* The encodings that stand for nothing, or for another instruction.        *)
Reserved(s, d) ==
  CASE d.op \in {"c_add", "c_mv"} -> d.rs2 = 0
    [] d.op \in {"c_addi4spn", "c_lui"} -> d.imm = 0
    [] d.op \in {"c_jr", "c_jalr", "c_lwsp"} -> d.rd = 0
    [] d.op \in {"c_jal", "c_flwsp"} -> s.xlen = e64 /\ d.rd = 0
    [] OTHER -> FALSE

Compressed == {"c_add", "c_addi", "c_addi4spn", "c_addw", "c_subw", "c_sub", "c_xor", "c_or",
  "c_and", "c_andi", "c_slli", "c_srli", "c_srai", "c_beqz", "c_bnez", "c_j", "c_jal", "c_jr",
  "c_jalr", "c_li", "c_mv", "c_lui", "c_lw", "c_lwsp", "c_sw", "c_swsp", "c_fld", "c_fldsp",
  "c_fsd", "c_fsdsp", "c_flw", "c_flwsp", "c_fsw", "c_fswsp"}

(* Compressed instructions (insns/c_*.h): each does what the instruction of *)
(* full length it stands for does, its traps included, except that the next *)
(* instruction and the link are two bytes on; four of them are other        *)
(* instructions on RV32 than on RV64.                                       *)
CompressedExact ==
  phase = "run" /\ insn.op \in Compressed =>
    \E results \in {[d \in {insn, Expansion(u, insn)} |-> ScalarExec(u, d)]} :
      results[insn] = IF "C" \in u.ext /\ ~Reserved(u, insn)
                        THEN results[Expansion(u, insn)] ELSE Illegal(Fetched(u, insn))

(*------------------------------- the hart ---------------------------------*)

(* Instructions that write a floating-point value of so many bytes.         *)
Writes(w) ==
  CASE w = e16 -> {"fadd_h", "fmadd_h", "fsgnj_h", "fcvt_h_w", "fcvt_h_d", "fmv_h_x", "flh"}
    [] w = e32 -> {"fadd_s", "fmadd_s", "fsgnj_s", "fcvt_s_w", "fcvt_s_d", "fmin_s", "fmv_w_x", "flw"}
    [] w = e64 -> {"fadd_d", "fmadd_d", "fsgnj_d", "fcvt_d_w", "fcvt_d_s", "fmv_d_x", "fld"}

(* Registers hold more than the hart has (decode.h, sext_xlen, freg): on    *)
(* RV32 every register stays the sign extension of its 32 bits, which the   *)
(* comparisons and branches rely on, and a floating-point register that     *)
(* receives a narrow value holds ones above it, so that it is read as a NaN *)
(* in every wider format and as itself in its own.  hlvx.wu, which does not *)
(* extend the sign, is left out.                                            *)
RegistersCanonical ==
  phase = "done" /\ Scalar(insn.op) =>
    /\ u.xlen = e32 /\ insn.op # "hlvx_wu" =>
         \A r \in DOMAIN u.XPR : u.XPR[r] = reg_t(sext32(u.XPR[r]))
    /\ \A w \in {e16, e32, e64} : Completed(u) /\ insn.op \in Writes(w) =>
         /\ \A wide \in {e32, e64} : wide > w => isNaN(Unboxed(u.FPR[insn.rd], wide), wide)
         /\ freg(Unboxed(u.FPR[insn.rd], w), w) = u.FPR[insn.rd]

(* What an instruction leaves is exact whichever form it has: full or       *)
(* compressed, on registers of either width (insns/*.h).                    *)
InstructionsExact == ArithmeticExact /\ CompressedExact /\ RegistersCanonical

(* Load reserved, store conditional (insns/sc_*.h, mmu.h, sim.cc, step): a  *)
(* store conditional that succeeds follows a load reserved of its hart that *)
(* no other store conditional used, and no other hart stored to the word    *)
(* since.  The stores of other harts leave the reservation alone: only the  *)
(* end of a turn and the store conditional itself give it up.               *)
ScAtomic ==
  [][turn'.all > turn.all /\ insn'.op \in {"sc_w", "sc_d"} /\ u'.XPR[insn'.rd] = 0 =>
       (Address(u, insn') .. Address(u, insn') + e32 - 1) \cap lost.own = {}]_vars
===============================================================================
