------------------------------ MODULE VectorUnit ------------------------------
(****************************************************************************)
(* The vector unit of the instruction set simulator: its register file, the  *)
(* vector type, the checks an instruction makes before it touches anything   *)
(* and the loops every vector instruction is an instance of                  *)
(* (processor.h, processor.cc, decode.h).                                    *)
(*                                                                          *)
(* A unit `u' is a record: reg (the register file, one small number per      *)
(* byte), vtype, vsew (bytes), vflmul (eighths), vlmax, vl, vstart, vill,    *)
(* vstart_alu, vxrm, vxsat, fflags, mem, bad (addresses that fault), setvl   *)
(* and trap.  A byte has ByteBits bits and a register VLENB bytes.  An       *)
(* instruction `d' is a record of its decoded fields; RS1, RS2 and FRS1 are  *)
(* the scalar operands.  An operator of this family returns the unit after   *)
(* the instruction, with `trap' set when the instruction raised one.         *)
(****************************************************************************)
EXTENDS Integers, Sequences, SequencesExt, FiniteSets

CONSTANTS ByteBits,   \* bits of a byte
          VLENB,      \* bytes of a vector register
          ELEN,       \* bytes of the widest element
          NVPR        \* vector registers

ASSUME VectorAssumption ==
  /\ ByteBits \in Nat \ {0}
  /\ VLENB \in {4, 8, 16} /\ ELEN \in {2, 4, 8} /\ ELEN <= VLENB
  /\ NVPR \in {8, 16, 32}

e8 == 1
e16 == 2
e32 == 4
e64 == 8

(*------------------------------ the registers -----------------------------*)

Bits(w) == w * ByteBits
Unsigned(x, w) == x % (2 ^ Bits(w))
SignedBy(half, x) == (((x % (2 * half)) + half) % (2 * half)) - half
Signed(x, w) == SignedBy(2 ^ (Bits(w) - 1), x)

RECURSIVE Peek(_, _, _)
Peek(bytes, a, w) ==
  IF w = 1 THEN bytes[a]
  ELSE bytes[a] + 2 ^ ByteBits * Peek(bytes, a + 1, w - 1)

(* The w bytes from a on are those of x.                                    *)
Poke(bytes, a, w, x) ==
  [b \in DOMAIN bytes |->
     IF b \in a .. a + w - 1 THEN (x \div 2 ^ Bits(b - a)) % 2 ^ ByteBits ELSE bytes[b]]

(* Element n of the group that starts at register v.                        *)
AddressOf(v, n, w, elts_per_reg) == (v + n \div elts_per_reg) * VLENB + (n % elts_per_reg) * w
EltAt(v, n, w) == AddressOf(v, n, w, VLENB \div w)

elt(u, v, n, w) == Peek(u.reg, EltAt(v, n, w), w)
selt(u, v, n, w) == Signed(elt(u, v, n, w), w)
SetElt(u, v, n, w, x) ==
  [u EXCEPT !.reg = Poke(@, EltAt(v, n, w), w, Unsigned(x, w))]

(* Bit i of a mask register.                                                *)
MaskBit(u, v, i) == (u.reg[v * VLENB + i \div ByteBits] \div 2 ^ (i % ByteBits)) % 2
SetMaskBit(u, v, i, b) ==
  [u EXCEPT !.reg[v * VLENB + i \div ByteBits] =
       @ + (b - MaskBit(u, v, i)) * 2 ^ (i % ByteBits)]

(* The vl elements from vstart on.                                          *)
From(first, u) == [k \in 1 .. u.vl - first |-> first + k - 1]

Elements(u) == From(u.vstart, u)

Ended(u) == [u EXCEPT !.vstart = 0]
Illegal(u) == [u EXCEPT !.trap = "illegal"]
Checked(u, ok, res) == IF ok THEN res ELSE Illegal(u)

ToInt(b) == IF b THEN 1 ELSE 0

(*------------------------------ the vector type ---------------------------*)

(* vtype as its fields: vlmul, the code of the element width, the two       *)
(* agnostic bits and whether a bit above them is set (vediv, the reserved   *)
(* ones, vill).                                                             *)
IllType == [vlmul |-> 0, code |-> 0, vta |-> 0, vma |-> 0, above |-> TRUE]
AllOnes == [vlmul |-> -1, code |-> 7, vta |-> 1, vma |-> 1, above |-> TRUE]

Eighths(vlmul) == IF vlmul >= 0 THEN 8 * 2 ^ vlmul ELSE 8 \div 2 ^ (-vlmul)

(* The type that newType stands for, the part of set_vl run on a change.    *)
Unsupported(vsew, vflmul, above) ==
  ~(vflmul >= 1 /\ vflmul <= 64) \/ vsew > ELEN \/ vflmul * ELEN < 8 * vsew \/ above

WithType(u, newType, vsew, vflmul, vill) ==
  [u EXCEPT !.vsew = vsew, !.vflmul = vflmul, !.vill = vill,
            !.vlmax = IF vill THEN 0 ELSE ((VLENB \div vsew) * vflmul) \div 8,
            !.vtype = IF vill THEN IllType ELSE newType]

ChangeWidth(u, newType, vsew, vflmul) ==
  WithType(u, newType, vsew, vflmul, Unsupported(vsew, vflmul, newType.above))

ChangeType(u, newType) ==
  IF u.vtype = newType THEN u
  ELSE ChangeWidth(u, newType, 2 ^ newType.code, Eighths(newType.vlmul))

Least(x, y) == IF x < y THEN x ELSE y

(* Mutant: the old vl is kept, whatever the new vlmax.                      *)
LengthKept(t, rd, rs1, reqVL) ==
  [t EXCEPT !.vstart = 0,
            !.vl = CASE t.vlmax = 0       -> 0
                     [] rd = 0 /\ rs1 = 0 -> t.vl
                     [] rd # 0 /\ rs1 = 0 -> t.vlmax
                     [] OTHER             -> Least(reqVL, t.vlmax)]

set_vl_Keeps(u, rd, rs1, reqVL, newType) == LengthKept(ChangeType(u, newType), rd, rs1, reqVL)

(* The length under the type t.                                             *)
WithLength(t, rd, rs1, reqVL) ==
  [t EXCEPT !.vstart = 0,
            !.vl = CASE t.vlmax = 0       -> 0
                     [] rd = 0 /\ rs1 = 0 -> Least(t.vl, t.vlmax)
                     [] rd # 0 /\ rs1 = 0 -> t.vlmax
                     [] OTHER             -> Least(reqVL, t.vlmax)]

set_vl(u, rd, rs1, reqVL, newType) == WithLength(ChangeType(u, newType), rd, rs1, reqVL)

vsetvl(u, d) == set_vl(u, d.rd, d.rs1, d.RS1, d.type)
vsetvli(u, d) == set_vl(u, d.rd, d.rs1, d.RS1, d.type)

(* vectorUnit_t::reset: cleared registers and an illegal type.              *)
reset(u) ==
  set_vl([u EXCEPT !.reg = [b \in DOMAIN u.reg |-> 0],
                   !.vtype = [IllType EXCEPT !.above = FALSE]],
         0, 0, 0, AllOnes)

(*--------------------------------- checks ---------------------------------*)

(* A length in eighths, truncated by its conversion to an integer.          *)
Trunc(eighths) == eighths \div 8

require_vector(u, alu) == ~u.vill /\ (alu /\ ~u.vstart_alu => u.vstart = 0)
require_vector_novtype(u, alu) == alu /\ ~u.vstart_alu => u.vstart = 0
require_vm(d) == d.vm = 0 => d.rd # 0

Largest(x, y) == IF x > y THEN x ELSE y

(* A group is at least one register.                                        *)
AtLeastOne(eighths) == Largest(Trunc(eighths), 1)

Shared(astart, asize, bstart, bsize) ==
  Largest(astart + asize, bstart + bsize) - Least(astart, bstart) < asize + bsize

is_overlapped(astart, aeighths, bstart, beighths) ==
  Shared(astart, AtLeastOne(aeighths), bstart, AtLeastOne(beighths))

(* Mutant: any overlap above the destination's start is taken for the       *)
(* harmless one.                                                            *)
is_overlapped_widen_Any(astart, aeighths, bstart, beighths) ==
  is_overlapped(astart, aeighths, bstart, beighths) /\ ~(astart <= bstart)

is_overlapped_widen(astart, aeighths, bstart, beighths) ==
  /\ is_overlapped(astart, aeighths, bstart, beighths)
  /\ ~ ( /\ astart < bstart
         /\ ~Shared(astart, AtLeastOne(aeighths), bstart + AtLeastOne(beighths), AtLeastOne(beighths)) )

Multiple(val, n) == n # 0 => val % n = 0
is_aligned(val, eighths) == Multiple(val, Trunc(eighths))

(* An overlap of a narrow source with a wide destination is only refused    *)
(* where it is not the harmless one.                                        *)
Disjoint(u, rd, rdeighths, rs, rseighths) ==
  IF rseighths < 8 THEN ~is_overlapped(rd, rdeighths, rs, rseighths)
                   ELSE ~is_overlapped_widen(rd, rdeighths, rs, rseighths)

VI_NARROW_CHECK_COMMON(u, d) ==
  /\ require_vector(u, TRUE)
  /\ u.vflmul <= 32 /\ u.vsew * 2 <= ELEN
  /\ is_aligned(d.rs2, u.vflmul * 2) /\ is_aligned(d.rd, u.vflmul)
  /\ require_vm(d)

VI_WIDE_CHECK_COMMON(u, d) ==
  /\ require_vector(u, TRUE)
  /\ u.vflmul <= 32 /\ u.vsew * 2 <= ELEN
  /\ is_aligned(d.rd, u.vflmul * 2)
  /\ require_vm(d)

VI_CHECK_MSS(u, d, is_vs1) ==
  /\ d.rd # d.rs2 => ~is_overlapped(d.rd, 8, d.rs2, u.vflmul)
  /\ is_aligned(d.rs2, u.vflmul)
  /\ is_vs1 => /\ d.rd # d.rs1 => ~is_overlapped(d.rd, 8, d.rs1, u.vflmul)
               /\ is_aligned(d.rs1, u.vflmul)

VI_CHECK_SSS(u, d, is_vs1) ==
  /\ require_vm(d)
  /\ u.vflmul > 8 => /\ is_aligned(d.rd, u.vflmul) /\ is_aligned(d.rs2, u.vflmul)
                     /\ is_vs1 => is_aligned(d.rs1, u.vflmul)

VI_CHECK_DSS(u, d, is_vs1) ==
  /\ VI_WIDE_CHECK_COMMON(u, d)
  /\ is_aligned(d.rs2, u.vflmul)
  /\ Disjoint(u, d.rd, u.vflmul * 2, d.rs2, u.vflmul)
  /\ is_vs1 => /\ is_aligned(d.rs1, u.vflmul)
               /\ Disjoint(u, d.rd, u.vflmul * 2, d.rs1, u.vflmul)

VI_CHECK_DDS(u, d, is_rs) ==
  /\ VI_WIDE_CHECK_COMMON(u, d)
  /\ is_aligned(d.rs2, u.vflmul * 2)
  /\ is_rs => /\ is_aligned(d.rs1, u.vflmul)
              /\ Disjoint(u, d.rd, u.vflmul * 2, d.rs1, u.vflmul)

VI_CHECK_SDS(u, d, is_vs1) ==
  /\ VI_NARROW_CHECK_COMMON(u, d)
  /\ d.rd # d.rs2 => ~is_overlapped(d.rd, u.vflmul, d.rs2, u.vflmul * 2)
  /\ is_vs1 => is_aligned(d.rs1, u.vflmul)

VI_CHECK_REDUCTION(u, d, is_wide) ==
  /\ require_vector(u, TRUE)
  /\ is_wide => u.vsew * 2 <= ELEN
  /\ is_aligned(d.rs2, u.vflmul)
  /\ u.vstart = 0

VI_CHECK_SLIDE(u, d, is_over) ==
  /\ is_aligned(d.rs2, u.vflmul) /\ is_aligned(d.rd, u.vflmul)
  /\ require_vm(d)
  /\ is_over => d.rd # d.rs2

(*---------------------------------- loops ---------------------------------*)

(* The mask of an element is read when the loop reaches it.                 *)
Active(u, d, i) == d.vm = 1 \/ MaskBit(u, 0, i) = 1

(* VI_LOOP_ELEMENT_SKIP, VI_ELEMENT_SKIP                                    *)
VI_LOOP_ELEMENT_SKIP(u, d, i, next) == IF Active(u, d, i) THEN next ELSE u

(* VI_GENERAL_LOOP_BASE .. VI_LOOP_END: every element, the mask is the      *)
(* body's to read.                                                          *)
VI_GENERAL_LOOP(u, d, ok, Body(_, _)) ==
  Checked(u, ok /\ require_vector(u, TRUE), Ended(FoldLeft(Body, u, Elements(u))))

(* VI_LOOP_BASE .. VI_LOOP_END: the active elements.                        *)
VI_LOOP(u, d, ok, Body(_, _)) ==
  VI_GENERAL_LOOP(u, d, ok, LAMBDA s, i : VI_LOOP_ELEMENT_SKIP(s, d, i, Body(s, i)))

(* VI_LOOP_CMP_BASE .. VI_LOOP_CMP_END: a bit of rd per active element.     *)
VI_LOOP_CMP(u, d, ok, Res(_, _)) ==
  VI_LOOP(u, d, ok, LAMBDA s, i : SetMaskBit(s, d.rd, i, ToInt(Res(s, i))))

VI_LOOP_MASK(u, d, Op(_, _)) ==
  Checked(u, require_vector(u, TRUE),
    Ended(FoldLeft(
      LAMBDA s, i : SetMaskBit(s, d.rd, i, Op(MaskBit(s, d.rs2, i), MaskBit(s, d.rs1, i)) % 2),
      u, Elements(u))))

(* The operands of an element: vd, the first source (vs1, rs1 or the        *)
(* immediate) and vs2.  The five bits of the immediate are the rs1 field.   *)
simm5(d) == IF d.rs1 >= NVPR \div 2 THEN d.rs1 - NVPR ELSE d.rs1
zimm5(d) == d.rs1

VV_PARAMS(u, d, i) ==
  <<selt(u, d.rd, i, u.vsew), selt(u, d.rs1, i, u.vsew), selt(u, d.rs2, i, u.vsew)>>
VX_PARAMS(u, d, i) ==
  <<selt(u, d.rd, i, u.vsew), Signed(d.RS1, u.vsew), selt(u, d.rs2, i, u.vsew)>>
VI_PARAMS(u, d, i) ==
  <<selt(u, d.rd, i, u.vsew), Signed(simm5(d), u.vsew), selt(u, d.rs2, i, u.vsew)>>
VV_U_PARAMS(u, d, i) ==
  <<elt(u, d.rd, i, u.vsew), elt(u, d.rs1, i, u.vsew), elt(u, d.rs2, i, u.vsew)>>
VX_U_PARAMS(u, d, i) ==
  <<elt(u, d.rd, i, u.vsew), Unsigned(d.RS1, u.vsew), elt(u, d.rs2, i, u.vsew)>>
VI_U_PARAMS(u, d, i) ==
  <<elt(u, d.rd, i, u.vsew), Unsigned(zimm5(d), u.vsew), elt(u, d.rs2, i, u.vsew)>>

VV_CMP_PARAMS(u, d, i) == <<selt(u, d.rs1, i, u.vsew), selt(u, d.rs2, i, u.vsew)>>
VX_CMP_PARAMS(u, d, i) == <<Signed(d.RS1, u.vsew), selt(u, d.rs2, i, u.vsew)>>
VI_CMP_PARAMS(u, d, i) == <<Signed(simm5(d), u.vsew), selt(u, d.rs2, i, u.vsew)>>
VV_UCMP_PARAMS(u, d, i) == <<elt(u, d.rs1, i, u.vsew), elt(u, d.rs2, i, u.vsew)>>
VX_UCMP_PARAMS(u, d, i) == <<Unsigned(d.RS1, u.vsew), elt(u, d.rs2, i, u.vsew)>>
(* The body takes the sign-extended immediate at the element's width.       *)
VI_UCMP_PARAMS(u, d, i) == <<Unsigned(simm5(d), u.vsew), elt(u, d.rs2, i, u.vsew)>>

(* A loop over one kind of operands that writes a value of the element's    *)
(* width.                                                                   *)
Applied(Body(_, _, _), p) == Body(p[1], p[2], p[3])

Writing(u, d, ok, Params(_, _, _), Body(_, _, _)) ==
  VI_LOOP(u, d, ok, LAMBDA s, i : SetElt(s, d.rd, i, s.vsew, Applied(Body, Params(s, d, i))))

(* The same for a body that saturates: it returns the value and whether it  *)
(* was cut, which vxsat remembers.                                          *)
SetCut(s, d, i, r) ==
  [SetElt(s, d.rd, i, s.vsew, r[1]) EXCEPT !.vxsat = Largest(@, ToInt(r[2]))]

Saturating(u, d, ok, Params(_, _, _), Body(_, _, _)) ==
  VI_LOOP(u, d, ok, LAMBDA s, i : SetCut(s, d, i, Applied(Body, Params(s, d, i))))

VI_VV_LOOP(u, d, Body(_, _, _)) == Writing(u, d, VI_CHECK_SSS(u, d, TRUE), VV_PARAMS, Body)
VI_VX_LOOP(u, d, Body(_, _, _)) == Writing(u, d, VI_CHECK_SSS(u, d, FALSE), VX_PARAMS, Body)
VI_VI_LOOP(u, d, Body(_, _, _)) == Writing(u, d, VI_CHECK_SSS(u, d, FALSE), VI_PARAMS, Body)
VI_VV_ULOOP(u, d, Body(_, _, _)) == Writing(u, d, VI_CHECK_SSS(u, d, TRUE), VV_U_PARAMS, Body)
VI_VX_ULOOP(u, d, Body(_, _, _)) == Writing(u, d, VI_CHECK_SSS(u, d, FALSE), VX_U_PARAMS, Body)
VI_VI_ULOOP(u, d, Body(_, _, _)) == Writing(u, d, VI_CHECK_SSS(u, d, FALSE), VI_U_PARAMS, Body)

Applied2(Body(_, _), p) == Body(p[1], p[2])

Comparing(u, d, ok, Params(_, _, _), Body(_, _)) ==
  VI_LOOP_CMP(u, d, ok, LAMBDA s, i : Applied2(Body, Params(s, d, i)))

VI_VV_LOOP_CMP(u, d, Body(_, _)) == Comparing(u, d, VI_CHECK_MSS(u, d, TRUE), VV_CMP_PARAMS, Body)
VI_VX_LOOP_CMP(u, d, Body(_, _)) == Comparing(u, d, VI_CHECK_MSS(u, d, FALSE), VX_CMP_PARAMS, Body)
VI_VI_LOOP_CMP(u, d, Body(_, _)) == Comparing(u, d, VI_CHECK_MSS(u, d, FALSE), VI_CMP_PARAMS, Body)
VI_VV_ULOOP_CMP(u, d, Body(_, _)) == Comparing(u, d, VI_CHECK_MSS(u, d, TRUE), VV_UCMP_PARAMS, Body)
VI_VX_ULOOP_CMP(u, d, Body(_, _)) == Comparing(u, d, VI_CHECK_MSS(u, d, FALSE), VX_UCMP_PARAMS, Body)
VI_VI_ULOOP_CMP(u, d, Body(_, _)) == Comparing(u, d, VI_CHECK_MSS(u, d, FALSE), VI_UCMP_PARAMS, Body)

(*------------------------------- reductions -------------------------------*)

(* The accumulator starts as element 0 of vs1, and goes to element 0 of rd  *)
(* after the loop, when there were elements at all.  w1 is the width of the *)
(* vector's elements and w2 the accumulator's.                              *)
Reduced(u, d, w1, w2, Read(_, _), Body(_, _)) ==
  Ended(IF u.vl = 0 THEN u
        ELSE SetElt(u, d.rd, 0, w2, FoldLeft(
          LAMBDA acc, i : IF Active(u, d, i) THEN Read(Body(acc, Read(elt(u, d.rs2, i, w1), w1)), w2)
                                             ELSE acc,
          Read(elt(u, d.rs1, 0, w2), w2), Elements(u))))

VI_VV_LOOP_REDUCTION(u, d, Body(_, _)) ==
  Checked(u, VI_CHECK_REDUCTION(u, d, FALSE), Reduced(u, d, u.vsew, u.vsew, Signed, Body))
VI_VV_ULOOP_REDUCTION(u, d, Body(_, _)) ==
  Checked(u, VI_CHECK_REDUCTION(u, d, FALSE), Reduced(u, d, u.vsew, u.vsew, Unsigned, Body))
VI_VV_LOOP_WIDE_REDUCTION(u, d, Body(_, _)) ==
  Checked(u, VI_CHECK_REDUCTION(u, d, TRUE), Reduced(u, d, u.vsew, 2 * u.vsew, Signed, Body))
VI_VV_ULOOP_WIDE_REDUCTION(u, d, Body(_, _)) ==
  Checked(u, VI_CHECK_REDUCTION(u, d, TRUE), Reduced(u, d, u.vsew, 2 * u.vsew, Unsigned, Body))

(*--------------------------- rounding and averages ------------------------*)

(* INT_ROUNDING(result, xrm, gb): result is about to lose gb bits.          *)
HasBit(x, b) == b > 0 /\ (x \div b) % 2 = 1

RoundedAt(result, xrm, lsb, half) ==
  CASE xrm = "RNU" -> result + half
    [] xrm = "RNE" -> IF HasBit(result, half) /\ (result % half # 0 \/ HasBit(result, lsb))
                        THEN result + lsb ELSE result
    [] xrm = "RDN" -> result
    [] xrm = "ROD" -> IF result % lsb # 0 /\ ~HasBit(result, lsb) THEN result + lsb ELSE result

INT_ROUNDING(result, xrm, gb) == RoundedAt(result, xrm, 2 ^ gb, 2 ^ gb \div 2)

VI_VVX_LOOP_AVG(u, d, Params(_, _, _), Op(_, _), is_vs1) ==
  Writing(u, d, VI_CHECK_SSS(u, d, is_vs1), Params,
          LAMBDA vd, opd, vs2 : INT_ROUNDING(Op(vs2, opd), u.vxrm, 1) \div 2)

(* The unsigned sum is formed in an integer of twice the width, an          *)
(* underflow included.                                                      *)
VI_VVX_ULOOP_AVG(u, d, Params(_, _, _), Op(_, _), is_vs1) ==
  Writing(u, d, VI_CHECK_SSS(u, d, is_vs1), Params,
          LAMBDA vd, opd, vs2 : INT_ROUNDING(Op(vs2, opd), u.vxrm, 1) \div 2)
===============================================================================
