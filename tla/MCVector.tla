------------------------------- MODULE MCVector -------------------------------
(****************************************************************************)
(* Model checking of Vector.  Every scalar instruction on RV32 and RV64 and, *)
(* in a unit of eight registers of four bytes of two bits with elements of   *)
(* up to four bytes, every vector instruction under every type and length    *)
(* that two vsetvl instructions can reach, with registers, operands and      *)
(* unmapped pages drawn from a fixed sequence; and two harts that take turns *)
(* of three instructions on one memory.                                      *)
(****************************************************************************)
EXTENDS Vector

CONSTANT Draws     \* bound: cases of one instruction under one type and length

(*------------------------------ vector types ------------------------------*)

Type(code, vlmul) == [vlmul |-> vlmul, code |-> code, vta |-> 0, vma |-> 0, above |-> FALSE]

Types == {Type(0, -2), Type(0, -1), Type(0, 0), Type(0, 1), Type(1, -1), Type(1, 0),
          Type(1, 1), Type(2, 0), Type(2, 1), Type(2, -1), Type(3, 0),
          [Type(0, 0) EXCEPT !.above = TRUE]}

SetInsn(op, rd, rs1, avl, type) == [op |-> op, rd |-> rd, rs1 |-> rs1, RS1 |-> avl, type |-> type]

MCSettings == {SetInsn("vsetvli", 1, 1, avl, t) : avl \in {0, 2, 5}, t \in Types}
              \cup {SetInsn("vsetvl", rd, 0, 0, t) : rd \in {0, 1}, t \in Types}

(*----------------------------- drawn operands -----------------------------*)

Mix(x) == (x * 1103 + 12345) % 65521
(* The j-th choice, below m, of the case numbered x.                        *)
Draw(x, j, m) == (Mix(Mix(Mix(x) + 31 * j)) \div 7) % m
Pick(x, j, seq) == seq[Draw(x, j, Len(seq)) + 1]

(* rd, rs1 and rs2: apart, the same, beside and across one another.         *)
Registers == << <<2,4,6>>, <<2,6,4>>, <<4,2,6>>, <<4,4,2>>, <<0,2,4>>, <<2,0,4>>, <<6,4,2>>,
                <<3,2,1>>, <<2,4,3>>, <<2,3,2>>, <<4,7,5>>, <<1,1,1>>, <<4,2,4>>, <<4,0,4>>,
                <<2,3,4>>, <<4,2,5>> >>

Scalars == <<0, 1, 2, 3, 4, 6, 8, 15, 100, 127, 128, 255>>
Bases == <<0, 4, 8, 12, 16, 20, 24, 6>>
Strides == <<0, 1, 2, 4, 4, 8, 8, 28>>

(* A register is random, all ones or the lowest value of each byte.         *)
RegByte(x, b) ==
  CASE Draw(x, 100 + b \div VLENB, 5) = 0 -> 2 ^ ByteBits - 1
    [] Draw(x, 100 + b \div VLENB, 5) = 1 -> IF b % VLENB = VLENB - 1 THEN 2 ^ (ByteBits - 1) ELSE 0
    [] OTHER -> Draw(x, 200 + b, 2 ^ ByteBits)

(* Fields the encoding of an instruction fixes (encoding.h, the masks).     *)
AlwaysMasked == {"vadc_vim", "vadc_vvm", "vadc_vxm", "vfmerge_vfm", "vmerge_vim",
                 "vmerge_vvm", "vmerge_vxm", "vsbc_vvm", "vsbc_vxm"}
NeverMasked == {"vcompress_vm", "vfmv_f_s", "vfmv_s_f", "vfmv_v_f", "vmv_s_x", "vmv_v_i",
                "vmv_v_v", "vmv_v_x", "vmv_x_s", "vmvnfr_v", "vlre_v", "vsr_v"}
Encoded(d, x) ==
  [d EXCEPT !.vm  = IF d.op \in AlwaysMasked THEN 0 ELSE IF d.op \in NeverMasked THEN 1 ELSE @,
            !.rs1 = IF d.op = "vmvnfr_v" THEN Pick(x, 14, <<0, 1, 3>>)
                    ELSE IF d.op \in {"vmv_x_s", "vfcvt_xu_f_v"} THEN 0 ELSE @,
            !.RS1 = IF d.op = "vmv_x_s" THEN 0 ELSE @]

Insn(op, x) ==
  LET r == Pick(x, 1, Registers)
      memory == Holds(MemoryOps, op)
  IN  [op |-> op, rd |-> r[1], rs1 |-> r[2], rs2 |-> r[3], vm |-> Draw(x, 2, 2),
       RS1 |-> IF memory THEN Pick(x, 3, Bases) ELSE Pick(x, 3, Scalars),
       RS2 |-> Pick(x, 4, Strides), FRS1 |-> Pick(x, 5, Scalars),
       nf |-> Draw(x, 6, 2), ew |-> Pick(x, 7, <<1, 1, 2, 2, 4>>), wd |-> Draw(x, 8, 2)]

Memory(x) == [a \in 0 .. 31 + e64 |-> Draw(x, 300 + a, 2 ^ ByteBits)]
Unmapped(x) == {p \in 0 .. 31 \div PageBytes : Draw(x, 400 + p, 3) = 0}

(* Case x of instruction op in unit t: mostly from element 0; the floating- *)
(* point unit is rarely off.                                                *)
Case(t, op, x) ==
  [state |->
    [reg |-> [b \in DOMAIN t.reg |-> RegByte(x, b)],
     mem |-> Memory(x), bad |-> Unmapped(x), setvl |-> MaxSetVl,
     vstart |-> Pick(x, 9, <<0, 0, 0, 1, 2>>), vstart_alu |-> Draw(x, 10, 4) # 0,
     vxrm |-> Pick(x, 11, <<"RNU", "RNE", "RDN", "ROD">>),
     frm |-> Pick(x, 12, <<0, 1, 4, 5>>), fs |-> Draw(x, 13, 8) # 0],
   insn |-> Encoded(Insn(op, x), x)]

(*---------------------------- scalar operands -----------------------------*)

Names == {0, X_RA, X_SP, 8, 9}    \* registers, with both that compressed formats reach

(* Values at the edges of a word and of a double word, and small ones.      *)
Edges == <<0, 1, 2, 3, 7, 8, 12, 16, 20, 24, 127, 128, 255, 256, 32767, 32768, 33000,
           65280, 65408, 65534, 65535>>
Shorter(x) == reg_t(sext32(x))
XReg(x, r, xlen) ==
  LET v == IF Draw(x, 500 + r, 3) = 0 THEN Draw(x, 510 + r, 65536) ELSE Pick(x, 520 + r, Edges)
  IN  IF r = 0 THEN 0 ELSE IF xlen = e32 THEN Shorter(v) ELSE v

(* A register holds a value of one of the formats, boxed, or any bits; the  *)
(* values are often zeros, infinities or NaNs.                              *)
Patterns == <<0, 1, 2, 4, 6, 7, 8, 12, 14, 15>>
FReg(x, r) ==
  LET top(w) == IF Draw(x, 540 + r, 2) = 0 THEN Pick(x, 550 + r, Patterns) * 2 ^ (Bits(Top(w)) - 4)
                                           ELSE Draw(x, 560 + r, 2 ^ Bits(Top(w)))
  IN  CASE Draw(x, 530 + r, 6) = 0 -> <<Draw(x, 570 + r, 65536), top(e64)>>
        [] Draw(x, 530 + r, 6) = 1 -> <<0, top(e128)>>
        [] Draw(x, 530 + r, 6) = 2 -> freg(<<top(e16)>>, e16)
        [] Draw(x, 530 + r, 6) \in {3, 4} -> freg(<<top(e32)>>, e32)
        [] OTHER -> freg(<<top(e64)>>, e64)

(* The immediates of a format: of what is loaded in the upper bits, of      *)
(* compressed loads and stores, which have no sign, and of the others.      *)
Immediates(op) ==
  CASE op = "c_lui" -> <<0, 1, 3, -1, -4>>
    [] op \in {"lui", "auipc"} -> <<0, 8, 16, 120, -8, -64, -128>>
    [] op \in Compressed \ {"c_addi", "c_li", "c_andi", "c_j", "c_jal", "c_beqz", "c_bnez"} ->
         <<0, 0, 1, 4, 8, 16, 24>>
    [] OTHER -> <<0, 0, 1, 4, 8, 16, 24, -1, -4, -8, -128, 127>>
ShortShifts == {"slliw", "srliw", "sraiw"}

ScalarCase(op, x, xlen) ==
  [state |->
    [mem |-> Memory(x), bad |-> Unmapped(x), setvl |-> MaxSetVl,
     XPR |-> [r \in Names |-> XReg(x, r, xlen)], FPR |-> [r \in Names |-> FReg(x, r)],
     xlen |-> xlen, pc |-> 16, frm |-> Pick(x, 12, <<0, 1, 4, 5>>), fs |-> Draw(x, 13, 8) # 0,
     ext |-> {e \in {"A", "C", "D", "F", "H", "M", "Q", "Zfh"} :
                Draw(x, IF e = "C" THEN 20 ELSE 21, IF e = "C" THEN 3 ELSE 9) # 0},
     prv |-> Draw(x, 22, 2), virt |-> Draw(x, 23, 4) = 0, hu |-> Draw(x, 24, 2) = 0,
     res |-> IF Draw(x, 25, 2) = 0 THEN NoReservation ELSE 8 * Draw(x, 26, 3)],
   insn |->
    [op |-> op, rd |-> Pick(x, 30, <<0, 1, 2, 8, 9, 9>>), rs1 |-> Pick(x, 31, <<0, 1, 2, 8, 9>>),
     rs2 |-> Pick(x, 32, <<0, 1, 2, 8, 9>>), rs3 |-> Pick(x, 33, <<1, 8, 9>>),
     rs1s |-> Pick(x, 34, <<8, 9>>), rs2s |-> Pick(x, 35, <<8, 9>>), imm |-> Pick(x, 36, Immediates(op)),
     shamt |-> Draw(x, 37, IF op \in ShortShifts THEN Bits(e32) ELSE Bits(e64)),
     rm |-> Pick(x, 38, <<0, 1, 2, 4, 7, 7>>), len |-> IF op \in Compressed THEN 2 ELSE 4]]

(*------------------------------ what is tried -----------------------------*)

AllOps == IntegerOps \o FixedOps \o FloatOps \o MemoryOps
AllScalar == ScalarOps \o ScalarFloatOps

(* Operands are drawn for a unit that has elements, more often for the      *)
(* accesses to memory, and once for one that has none; scalar instructions  *)
(* are tried from the reset on.                                             *)
MCLoaded(t) ==
  IF t.setvl < 1
    THEN {ScalarCase(AllScalar[n], (n * 61 + k * 7 + xlen * 1009) % 65521, xlen) :
          n \in DOMAIN AllScalar, k \in 1 .. 5 * Draws, xlen \in {e32, e64}}
  ELSE {Case(t, AllOps[n], (n * 61 + k * 7 + t.vl * 1009 + t.vsew * 4001 + t.vflmul * 379) % 65521) :
        n \in DOMAIN AllOps, k \in 1 .. (IF t.vl = 0 THEN 1 ELSE Draws)}
       \cup {Case(t, MemoryOps[n], (n * 67 + k * 11 + t.vl * 1013 + t.vsew * 4003 + t.vflmul * 383) % 65521) :
             n \in DOMAIN MemoryOps, k \in 1 .. (IF t.vl = 0 THEN 1 ELSE 12 * Draws)}

(*------------------------------- two harts --------------------------------*)

Sharing(x) ==
  [mem |-> [a \in 0 .. 31 + e64 |-> 0], ext |-> {"A"}, setvl |-> MaxSetVl,
   XPR |-> [r \in Names |-> IF r = X_SP THEN 8 ELSE IF r = 9 THEN x ELSE 0],
   FPR |-> [r \in Names |-> <<0, 0>>]]
MCPairs == {<<Sharing(1), Sharing(2)>>}

Shares(op, rs1) == [op |-> op, rd |-> IF op = "sw" THEN 0 ELSE X_RA, rs1 |-> rs1, rs2 |-> 9,
                    imm |-> 0, len |-> 4]
MCSharedInsns == {Shares(op, rs1) : op \in {"lr_w", "sc_w", "sw", "amoadd_w"}, rs1 \in {0, X_SP}}

(*----------------------------- floating point -----------------------------*)

(* As in the real formats, the sign and the exponent are above a boxed      *)
(* value of the next narrower format.                                       *)
MCExpBits(w) == CASE w = e16 -> 2 [] w = e32 -> 2 [] w = e64 -> 5 [] w = e128 -> 6

(* The comparison the minimum and maximum are made of is the real one; any  *)
(* function of the operands will do for the other operations of SoftFloat.  *)
Hashed(op, w, args) ==
  LET h == FoldLeft(LAMBDA acc, x : (acc * 31 + x * 7 + 5) % 1021, w, args)
  IN  [v |-> IF op \in {"lt", "le"} THEN h % 2 ELSE IF op = "classify" THEN h % 10 ELSE h,
       flags |-> {f \in {"NV", "DZ", "OF", "UF", "NX"} :
                    (h \div (CASE f = "NV" -> 1 [] f = "DZ" -> 3 [] f = "OF" -> 9
                               [] f = "UF" -> 27 [] f = "NX" -> 81)) % 5 = 0}]

Zero(v, w) == TopLimb(v) % 2 ^ (Bits(Top(w)) - 1) = 0 /\ v[1] \in {0, TopLimb(v)}
Compared(op, w, a, b) ==
  LET ordered == ~isNaN(a, w) /\ ~isNaN(b, w)
      equal   == a = b \/ (Zero(a, w) /\ Zero(b, w))
  IN  [v |-> ToInt(ordered /\ IF op = "eq" THEN equal ELSE ~equal /\ Rank(a, w) < Rank(b, w)),
       flags |-> IF ordered THEN {} ELSE {"NV"}]

MCFloatOp(op, w, args) ==
  IF op \in {"eq", "lt_quiet"}
    THEN LET half == Len(args) \div 2
         IN  Compared(op, w, SubSeq(args, 1, half), SubSeq(args, half + 1, 2 * half))
    ELSE Hashed(op, w, args)
===============================================================================
