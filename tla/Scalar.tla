------------------------------- MODULE Scalar -------------------------------
(****************************************************************************)
(* The integer, atomic, compressed and hypervisor-access instructions of the *)
(* simulator (riscv/insns/*.h), one operator per file and named as it, over  *)
(* the accesses of the memory unit (mmu.h).                                  *)
(*                                                                          *)
(* A hart `s' is the record of VectorUnit with xlen (the bytes of a register *)
(* that count), ext, prv, virt, hu (hstatus.HU), XPR, FPR, pc, npc and res   *)
(* (the reserved address).  XPR holds 64 bits whatever xlen is.  A decoded   *)
(* instruction `d' has rd, rs1, rs2, the registers rs1s and rs2s of the      *)
(* compressed formats, imm (the immediate of its format), shamt and len.     *)
(****************************************************************************)
EXTENDS VectorInteger

CONSTANT PageBytes     \* bytes of a page

X_RA == 1
X_SP == 2
PRV_U == 0
PRV_S == 1

(*--------------------------------- memory ---------------------------------*)

Page(a) == a \div PageBytes
(* Addresses wrap; only an access that is not aligned reaches the last bytes. *)
Wrapped(m, a) == a % (Cardinality(DOMAIN m) - e64)

Trapped(s, a, trap) == [s EXCEPT !.trap = trap, !.faddr = a]

(* A load that is not aligned traps (its page is not in the TLB: HartMmu has *)
(* the case where it is), a page that is not mapped faults until it is.     *)
Load(s, addr, w, Use(_, _)) ==
  LET a == Wrapped(s.mem, addr)
  IN  IF Page(a) \in s.bad THEN Trapped(s, a, "fault")
      ELSE IF a % w # 0 THEN Trapped(s, a, "misaligned")
      ELSE Use(s, Peek(s.mem, a, w))

(* A store that is not aligned writes before it traps.                      *)
Store(s, addr, w, x) ==
  LET a == Wrapped(s.mem, addr)
      t == [s EXCEPT !.mem = Poke(@, a, w, Unsigned(x, w))]
  IN  IF Page(a) \in s.bad THEN Trapped(s, a, "fault")
      ELSE IF a % w # 0 THEN Trapped(t, a, "misaligned") ELSE t

(* amo_uint: the faults of the load are those of the store.                 *)
Amo(s, addr, w, New(_), Use(_, _)) ==
  LET a == Wrapped(s.mem, addr)
  IN  IF a % w # 0 THEN Trapped(s, a, "misaligned")
      ELSE Load(s, addr, w, LAMBDA t, old : Use(Store(t, addr, w, New(old)), old))

(* What follows is not reached by an instruction that has trapped.          *)
Unless(s, next) == IF s.trap = "none" THEN next ELSE s

NoReservation == -1
yield_load_reservation(s) == [s EXCEPT !.res = NoReservation]
acquire_load_reservation(s, addr) == [s EXCEPT !.res = Wrapped(s.mem, addr)]
check_load_reservation(s, addr, w, Use(_, _)) ==
  LET a == Wrapped(s.mem, addr)
  IN  IF a % w # 0 THEN Trapped(s, a, "misaligned")
      ELSE IF Page(a) \in s.bad THEN Trapped(s, a, "fault")
      ELSE Use(s, s.res = a)

(*-------------------------------- registers -------------------------------*)

sext32(x) == Signed(x, e32)
zext32(x) == Unsigned(x, e32)
sext_xlen(s, x) == Signed(x, s.xlen)
zext_xlen(s, x) == Unsigned(x, s.xlen)
sreg_t(x) == Signed(x, e64)
reg_t(x) == Unsigned(x, e64)

RS1(s, d) == s.XPR[d.rs1]
RS2(s, d) == s.XPR[d.rs2]
WRITE_REG(s, r, x) == IF r = 0 THEN s ELSE [s EXCEPT !.XPR[r] = reg_t(x)]
WRITE_RD(s, d, x) == WRITE_REG(s, d.rd, x)

require_rv64(s) == s.xlen = e64
Word(s, d, x) == Checked(s, require_rv64(s), WRITE_RD(s, d, sext32(x)))

set_pc(s, x) ==
  IF "C" \notin s.ext /\ (x \div 2) % 2 = 1
    THEN [s EXCEPT !.trap = "fetch_misaligned"]
    ELSE [s EXCEPT !.npc = reg_t(sext_xlen(s, x))]

(*--------------------------- integer computation --------------------------*)

add(s, d) == WRITE_RD(s, d, sext_xlen(s, RS1(s, d) + RS2(s, d)))
sub(s, d) == WRITE_RD(s, d, sext_xlen(s, RS1(s, d) - RS2(s, d)))
addi(s, d) == WRITE_RD(s, d, sext_xlen(s, RS1(s, d) + d.imm))
and(s, d) == WRITE_RD(s, d, RS1(s, d) & RS2(s, d))
andi(s, d) == WRITE_RD(s, d, reg_t(d.imm) & RS1(s, d))
or(s, d) == WRITE_RD(s, d, RS1(s, d) | RS2(s, d))
ori(s, d) == WRITE_RD(s, d, reg_t(d.imm) | RS1(s, d))
xor(s, d) == WRITE_RD(s, d, RS1(s, d) ^^ RS2(s, d))
xori(s, d) == WRITE_RD(s, d, reg_t(d.imm) ^^ RS1(s, d))
slt(s, d) == WRITE_RD(s, d, ToInt(sreg_t(RS1(s, d)) < sreg_t(RS2(s, d))))
slti(s, d) == WRITE_RD(s, d, ToInt(sreg_t(RS1(s, d)) < d.imm))
sltu(s, d) == WRITE_RD(s, d, ToInt(RS1(s, d) < RS2(s, d)))
sltiu(s, d) == WRITE_RD(s, d, ToInt(RS1(s, d) < reg_t(d.imm)))
lui(s, d) == WRITE_RD(s, d, d.imm)
auipc(s, d) == WRITE_RD(s, d, sext_xlen(s, d.imm + s.pc))

addw(s, d) == Word(s, d, RS1(s, d) + RS2(s, d))
subw(s, d) == Word(s, d, RS1(s, d) - RS2(s, d))
addiw(s, d) == Word(s, d, d.imm + RS1(s, d))

Amount5(s, d) == RS2(s, d) % Bits(e32)
AmountX(s, d) == RS2(s, d) % Bits(s.xlen)

sll(s, d) == WRITE_RD(s, d, sext_xlen(s, RS1(s, d) * 2 ^ AmountX(s, d)))
srl(s, d) == WRITE_RD(s, d, sext_xlen(s, zext_xlen(s, RS1(s, d)) \div 2 ^ AmountX(s, d)))
sra(s, d) == WRITE_RD(s, d, sext_xlen(s, sext_xlen(s, RS1(s, d)) \div 2 ^ AmountX(s, d)))
slli(s, d) == Checked(s, d.shamt < Bits(s.xlen),
                WRITE_RD(s, d, sext_xlen(s, RS1(s, d) * 2 ^ d.shamt)))
srli(s, d) == Checked(s, d.shamt < Bits(s.xlen),
                WRITE_RD(s, d, sext_xlen(s, zext_xlen(s, RS1(s, d)) \div 2 ^ d.shamt)))
srai(s, d) == Checked(s, d.shamt < Bits(s.xlen),
                WRITE_RD(s, d, sext_xlen(s, sext_xlen(s, RS1(s, d)) \div 2 ^ d.shamt)))
sllw(s, d) == Word(s, d, RS1(s, d) * 2 ^ Amount5(s, d))
srlw(s, d) == Word(s, d, zext32(RS1(s, d)) \div 2 ^ Amount5(s, d))
sraw(s, d) == Word(s, d, sext32(RS1(s, d)) \div 2 ^ Amount5(s, d))
slliw(s, d) == Word(s, d, RS1(s, d) * 2 ^ d.shamt)
srliw(s, d) == Word(s, d, zext32(RS1(s, d)) \div 2 ^ d.shamt)
sraiw(s, d) == Word(s, d, sext32(RS1(s, d)) \div 2 ^ d.shamt)

(*------------------------------ control flow ------------------------------*)

BRANCH_TARGET(s, d) == s.pc + d.imm
Branch(s, d, taken) == IF taken THEN set_pc(s, BRANCH_TARGET(s, d)) ELSE s

beq(s, d) == Branch(s, d, RS1(s, d) = RS2(s, d))
bne(s, d) == Branch(s, d, RS1(s, d) # RS2(s, d))
blt(s, d) == Branch(s, d, sreg_t(RS1(s, d)) < sreg_t(RS2(s, d)))
bltu(s, d) == Branch(s, d, RS1(s, d) < RS2(s, d))
bge(s, d) == Branch(s, d, sreg_t(RS1(s, d)) >= sreg_t(RS2(s, d)))
bgeu(s, d) == Branch(s, d, RS1(s, d) >= RS2(s, d))

(* The link is written when the target is known to be legal.                *)
Jump(s, target, link) ==
  LET t == set_pc(s, target) IN Unless(t, WRITE_REG(t, link, s.npc))
Even(x) == 2 * (x \div 2)

jal(s, d) == Jump(s, s.pc + d.imm, d.rd)
jalr(s, d) == Jump(s, Even(RS1(s, d) + d.imm), d.rd)

(*------------------------ multiplication, division ------------------------*)

(* The upper half of the product of two registers from products of halves.  *)
mulhu64(a, b) ==
  LET half == 2 ^ Bits(e32)
      a0 == a % half   a1 == a \div half
      b0 == b % half   b1 == b \div half
      t1 == a1 * b0 + (a0 * b0) \div half
      t2 == a0 * b1 + (t1 % half)
  IN  a1 * b1 + t1 \div half + t2 \div half

(* Minus a product: the complement, and one more if the lower half is zero. *)
Negative(res, lowIsZero) == -res - 1 + ToInt(lowIsZero)

mulh64(a, b) ==
  LET res == mulhu64(Magnitude(a), Magnitude(b))
  IN  IF (a < 0) # (b < 0) THEN Negative(res, reg_t(a * b) = 0) ELSE res
mulhsu64(a, b) ==
  LET res == mulhu64(Magnitude(a), b)
  IN  IF a < 0 THEN Negative(res, reg_t(a * sreg_t(b)) = 0) ELSE res

M(s) == "M" \in s.ext
Wide(s) == s.xlen = e64
UpperWord(x) == sext32(x \div 2 ^ Bits(e32))

mul(s, d) == Checked(s, M(s), WRITE_RD(s, d, sext_xlen(s, sreg_t(RS1(s, d)) * sreg_t(RS2(s, d)))))
mulw(s, d) == Checked(s, M(s), Word(s, d, sreg_t(RS1(s, d)) * sreg_t(RS2(s, d))))
mulh(s, d) ==
  Checked(s, M(s), WRITE_RD(s, d,
    IF Wide(s) THEN mulh64(sreg_t(RS1(s, d)), sreg_t(RS2(s, d)))
               ELSE UpperWord(sext32(RS1(s, d)) * sext32(RS2(s, d)))))
mulhsu(s, d) ==
  Checked(s, M(s), WRITE_RD(s, d,
    IF Wide(s) THEN mulhsu64(sreg_t(RS1(s, d)), RS2(s, d))
               ELSE UpperWord(sext32(RS1(s, d)) * zext32(RS2(s, d)))))
mulhu(s, d) ==
  Checked(s, M(s), WRITE_RD(s, d,
    IF Wide(s) THEN mulhu64(RS1(s, d), RS2(s, d))
               ELSE UpperWord(zext32(RS1(s, d)) * zext32(RS2(s, d)))))

(* Division by zero gives all ones, the one quotient that does not fit the  *)
(* dividend.                                                                *)
Lowest64 == -(2 ^ (Bits(e64) - 1))
Quotients(lhs, rhs) ==
  IF rhs = 0 THEN -1 ELSE IF lhs = Lowest64 /\ rhs = -1 THEN lhs ELSE Quotient(lhs, rhs)
Remainders(lhs, rhs) ==
  IF rhs = 0 THEN lhs ELSE IF lhs = Lowest64 /\ rhs = -1 THEN 0 ELSE Remainder(lhs, rhs)

div(s, d) ==
  Checked(s, M(s), WRITE_RD(s, d,
    sext_xlen(s, Quotients(sext_xlen(s, RS1(s, d)), sext_xlen(s, RS2(s, d))))))
divu(s, d) ==
  Checked(s, M(s), WRITE_RD(s, d,
    sext_xlen(s, Quotients(zext_xlen(s, RS1(s, d)), zext_xlen(s, RS2(s, d))))))
rem(s, d) ==
  Checked(s, M(s), WRITE_RD(s, d,
    sext_xlen(s, Remainders(sext_xlen(s, RS1(s, d)), sext_xlen(s, RS2(s, d))))))
(* Mutant: the remainder of a division by zero is zero.                     *)
remu_Zero(s, d) ==
  Checked(s, M(s), WRITE_RD(s, d,
    LET y == zext_xlen(s, RS2(s, d))
    IN  sext_xlen(s, IF y = 0 THEN 0 ELSE zext_xlen(s, RS1(s, d)) % y)))
remu(s, d) ==
  Checked(s, M(s), WRITE_RD(s, d,
    sext_xlen(s, Remainders(zext_xlen(s, RS1(s, d)), zext_xlen(s, RS2(s, d))))))
divw(s, d) == Checked(s, M(s), Word(s, d, Quotients(sext32(RS1(s, d)), sext32(RS2(s, d)))))
divuw(s, d) == Checked(s, M(s), Word(s, d, Quotients(zext32(RS1(s, d)), zext32(RS2(s, d)))))
remw(s, d) == Checked(s, M(s), Word(s, d, Remainders(sext32(RS1(s, d)), sext32(RS2(s, d)))))
remuw(s, d) == Checked(s, M(s), Word(s, d, Remainders(zext32(RS1(s, d)), zext32(RS2(s, d)))))

(*----------------------------- loads and stores ---------------------------*)

Address(s, d) == reg_t(RS1(s, d) + d.imm)
LoadTo(s, r, addr, w, Extend(_, _)) ==
  Load(s, addr, w, LAMBDA t, x : WRITE_REG(t, r, Extend(x, w)))

lb(s, d) == LoadTo(s, d.rd, Address(s, d), e8, Signed)
lbu(s, d) == LoadTo(s, d.rd, Address(s, d), e8, Unsigned)
lh(s, d) == LoadTo(s, d.rd, Address(s, d), e16, Signed)
lhu(s, d) == LoadTo(s, d.rd, Address(s, d), e16, Unsigned)
lw(s, d) == LoadTo(s, d.rd, Address(s, d), e32, Signed)
lwu(s, d) == Checked(s, require_rv64(s), LoadTo(s, d.rd, Address(s, d), e32, Unsigned))
ld(s, d) == Checked(s, require_rv64(s), LoadTo(s, d.rd, Address(s, d), e64, Signed))
sb(s, d) == Store(s, Address(s, d), e8, RS2(s, d))
sh(s, d) == Store(s, Address(s, d), e16, RS2(s, d))
sw(s, d) == Store(s, Address(s, d), e32, RS2(s, d))
sd(s, d) == Checked(s, require_rv64(s), Store(s, Address(s, d), e64, RS2(s, d)))

(* The accesses of a hypervisor to its guest's memory.  The test of         *)
(* hstatus.HU asks for more privilege when the bit is set.                  *)
Guest(s, ok, next) ==
  IF ~(ok /\ "H" \in s.ext /\ s.prv >= (IF s.hu THEN PRV_S ELSE PRV_U)) THEN Illegal(s)
  ELSE IF s.virt THEN [s EXCEPT !.trap = "virtual"] ELSE next

hlv_b(s, d) == Guest(s, TRUE, LoadTo(s, d.rd, RS1(s, d), e8, Signed))
hlv_bu(s, d) == Guest(s, TRUE, LoadTo(s, d.rd, RS1(s, d), e8, Unsigned))
hlv_h(s, d) == Guest(s, TRUE, LoadTo(s, d.rd, RS1(s, d), e16, Signed))
hlv_hu(s, d) == Guest(s, TRUE, LoadTo(s, d.rd, RS1(s, d), e16, Unsigned))
hlvx_hu(s, d) == Guest(s, TRUE, LoadTo(s, d.rd, RS1(s, d), e16, Unsigned))
hlv_w(s, d) == Guest(s, TRUE, LoadTo(s, d.rd, RS1(s, d), e32, Signed))
hlv_wu(s, d) == Guest(s, require_rv64(s), LoadTo(s, d.rd, RS1(s, d), e32, Unsigned))
hlvx_wu(s, d) == Guest(s, TRUE, LoadTo(s, d.rd, RS1(s, d), e32, Unsigned))
hlv_d(s, d) == Guest(s, require_rv64(s), LoadTo(s, d.rd, RS1(s, d), e64, Signed))
hsv_b(s, d) == Guest(s, TRUE, Store(s, RS1(s, d), e8, RS2(s, d)))
hsv_h(s, d) == Guest(s, TRUE, Store(s, RS1(s, d), e16, RS2(s, d)))
hsv_w(s, d) == Guest(s, TRUE, Store(s, RS1(s, d), e32, RS2(s, d)))
hsv_d(s, d) == Guest(s, require_rv64(s), Store(s, RS1(s, d), e64, RS2(s, d)))

(*---------------------------------- atomics -------------------------------*)

A(s, w) == "A" \in s.ext /\ (w = e64 => require_rv64(s))

AmoTo(s, d, w, New(_)) ==
  Checked(s, A(s, w),
    Amo(s, RS1(s, d), w, New, LAMBDA t, old : Unless(t, WRITE_RD(t, d, Signed(old, w)))))

amoadd_w(s, d) == AmoTo(s, d, e32, LAMBDA lhs : lhs + RS2(s, d))
amoadd_d(s, d) == AmoTo(s, d, e64, LAMBDA lhs : lhs + RS2(s, d))
amoand_w(s, d) == AmoTo(s, d, e32, LAMBDA lhs : lhs & RS2(s, d))
amoand_d(s, d) == AmoTo(s, d, e64, LAMBDA lhs : lhs & RS2(s, d))
amoor_w(s, d) == AmoTo(s, d, e32, LAMBDA lhs : lhs | RS2(s, d))
amoor_d(s, d) == AmoTo(s, d, e64, LAMBDA lhs : lhs | RS2(s, d))
amoxor_w(s, d) == AmoTo(s, d, e32, LAMBDA lhs : lhs ^^ RS2(s, d))
amoxor_d(s, d) == AmoTo(s, d, e64, LAMBDA lhs : lhs ^^ RS2(s, d))
amoswap_w(s, d) == AmoTo(s, d, e32, LAMBDA lhs : RS2(s, d))
amoswap_d(s, d) == AmoTo(s, d, e64, LAMBDA lhs : RS2(s, d))
amomax_w(s, d) == AmoTo(s, d, e32, LAMBDA lhs : Largest(sext32(lhs), sext32(RS2(s, d))))
amomax_d(s, d) == AmoTo(s, d, e64, LAMBDA lhs : Largest(sreg_t(lhs), sreg_t(RS2(s, d))))
amomaxu_w(s, d) == AmoTo(s, d, e32, LAMBDA lhs : Largest(lhs, zext32(RS2(s, d))))
amomaxu_d(s, d) == AmoTo(s, d, e64, LAMBDA lhs : Largest(lhs, RS2(s, d)))
amomin_w(s, d) == AmoTo(s, d, e32, LAMBDA lhs : Least(sext32(lhs), sext32(RS2(s, d))))
amomin_d(s, d) == AmoTo(s, d, e64, LAMBDA lhs : Least(sreg_t(lhs), sreg_t(RS2(s, d))))
amominu_w(s, d) == AmoTo(s, d, e32, LAMBDA lhs : Least(lhs, zext32(RS2(s, d))))
amominu_d(s, d) == AmoTo(s, d, e64, LAMBDA lhs : Least(lhs, RS2(s, d)))

LoadReserved(s, d, w) ==
  Load(s, RS1(s, d), w, LAMBDA t, res :
    WRITE_RD(acquire_load_reservation(t, RS1(s, d)), d, Signed(res, w)))

lr_w(s, d) == Checked(s, A(s, e32), LoadReserved(s, d, e32))
lr_d(s, d) == Checked(s, A(s, e64), LoadReserved(s, d, e64))

StoreConditional(s, d, w) ==
  check_load_reservation(s, RS1(s, d), w, LAMBDA t, have :
    LET q == IF have THEN Store(t, RS1(s, d), w, RS2(s, d)) ELSE t
    IN  Unless(q, WRITE_RD(yield_load_reservation(q), d, ToInt(~have))))

(* Mutant: the reservation outlives the store.                              *)
sc_w_Keeps(s, d) ==
  Checked(s, A(s, e32), [StoreConditional(s, d, e32) EXCEPT !.res = s.res])
sc_w(s, d) == Checked(s, A(s, e32), StoreConditional(s, d, e32))
sc_d(s, d) == Checked(s, A(s, e64), StoreConditional(s, d, e64))

(*--------------------------- compressed instructions ----------------------*)

(* The full-sized rs1 of a compressed instruction is the rd field.          *)
RVC_RS1(s, d) == s.XPR[d.rd]
RVC_RS2(s, d) == s.XPR[d.rs2]
RVC_RS1S(s, d) == s.XPR[d.rs1s]
RVC_RS2S(s, d) == s.XPR[d.rs2s]
RVC_SP(s) == s.XPR[X_SP]

C(s, ok, next) == Checked(s, "C" \in s.ext /\ ok, next)

c_add(s, d) == C(s, d.rs2 # 0, WRITE_RD(s, d, sext_xlen(s, RVC_RS1(s, d) + RVC_RS2(s, d))))
c_addi(s, d) == C(s, TRUE, WRITE_RD(s, d, sext_xlen(s, RVC_RS1(s, d) + d.imm)))
c_addi4spn(s, d) == C(s, d.imm # 0, WRITE_REG(s, d.rs2s, sext_xlen(s, RVC_SP(s) + d.imm)))
c_addw(s, d) ==
  C(s, require_rv64(s), WRITE_REG(s, d.rs1s, sext32(RVC_RS1S(s, d) + RVC_RS2S(s, d))))
c_and(s, d) == C(s, TRUE, WRITE_REG(s, d.rs1s, RVC_RS1S(s, d) & RVC_RS2S(s, d)))
c_andi(s, d) == C(s, TRUE, WRITE_REG(s, d.rs1s, RVC_RS1S(s, d) & reg_t(d.imm)))
c_beqz(s, d) == C(s, TRUE, Branch(s, d, RVC_RS1S(s, d) = 0))
c_bnez(s, d) == C(s, TRUE, Branch(s, d, RVC_RS1S(s, d) # 0))
c_j(s, d) == C(s, TRUE, set_pc(s, s.pc + d.imm))
(* c.jal, or c.addiw where registers have 64 bits.                          *)
c_jal(s, d) ==
  IF s.xlen = e32 THEN C(s, TRUE, Jump(s, s.pc + d.imm, X_RA))
  ELSE C(s, d.rd # 0, WRITE_RD(s, d, sext32(RVC_RS1(s, d) + d.imm)))
c_jalr(s, d) == C(s, d.rd # 0, Jump(s, Even(RVC_RS1(s, d)), X_RA))
c_jr(s, d) == C(s, d.rd # 0, set_pc(s, Even(RVC_RS1(s, d))))
c_li(s, d) == C(s, TRUE, WRITE_RD(s, d, d.imm))
UpperBits == (3 * Bits(e32)) \div 8
(* c.lui, or c.addi16sp for the stack pointer.                              *)
c_lui(s, d) ==
  C(s, d.imm # 0,
    IF d.rd = X_SP THEN WRITE_REG(s, X_SP, sext_xlen(s, RVC_SP(s) + d.imm))
    ELSE WRITE_RD(s, d, d.imm * 2 ^ UpperBits))
c_lw(s, d) == C(s, TRUE, LoadTo(s, d.rs2s, RVC_RS1S(s, d) + d.imm, e32, Signed))
c_lwsp(s, d) == C(s, d.rd # 0, LoadTo(s, d.rd, RVC_SP(s) + d.imm, e32, Signed))
c_mv(s, d) == C(s, d.rs2 # 0, WRITE_RD(s, d, RVC_RS2(s, d)))
c_or(s, d) == C(s, TRUE, WRITE_REG(s, d.rs1s, RVC_RS1S(s, d) | RVC_RS2S(s, d)))
c_slli(s, d) ==
  C(s, d.shamt < Bits(s.xlen), WRITE_RD(s, d, sext_xlen(s, RVC_RS1(s, d) * 2 ^ d.shamt)))
c_srai(s, d) ==
  C(s, d.shamt < Bits(s.xlen),
    WRITE_REG(s, d.rs1s, sext_xlen(s, sext_xlen(s, RVC_RS1S(s, d)) \div 2 ^ d.shamt)))
c_srli(s, d) ==
  C(s, d.shamt < Bits(s.xlen),
    WRITE_REG(s, d.rs1s, sext_xlen(s, zext_xlen(s, RVC_RS1S(s, d)) \div 2 ^ d.shamt)))
c_sub(s, d) ==
  C(s, TRUE, WRITE_REG(s, d.rs1s, sext_xlen(s, RVC_RS1S(s, d) - RVC_RS2S(s, d))))
c_subw(s, d) ==
  C(s, require_rv64(s), WRITE_REG(s, d.rs1s, sext32(RVC_RS1S(s, d) - RVC_RS2S(s, d))))
c_sw(s, d) == C(s, TRUE, Store(s, RVC_RS1S(s, d) + d.imm, e32, RVC_RS2S(s, d)))
c_swsp(s, d) == C(s, TRUE, Store(s, RVC_SP(s) + d.imm, e32, RVC_RS2(s, d)))
c_xor(s, d) == C(s, TRUE, WRITE_REG(s, d.rs1s, RVC_RS1S(s, d) ^^ RVC_RS2S(s, d)))

(*------------------------------ the instructions --------------------------*)

ScalarOps ==
  << "add", "sub", "addi", "and", "andi", "or", "ori", "xor", "xori", "slt",
     "slti", "sltu", "sltiu", "lui", "auipc", "addw", "subw", "addiw", "sll",
     "srl", "sra", "slli", "srli", "srai", "sllw", "srlw", "sraw", "slliw",
     "srliw", "sraiw", "beq", "bne", "blt", "bltu", "bge", "bgeu", "jal",
     "jalr", "mul", "mulw", "mulh", "mulhsu", "mulhu", "div", "divu", "rem",
     "remu", "divw", "divuw", "remw", "remuw", "lb", "lbu", "lh", "lhu",
     "lw", "lwu", "ld", "sb", "sh", "sw", "sd", "hlv_b", "hlv_bu", "hlv_h",
     "hlv_hu", "hlvx_hu", "hlv_w", "hlv_wu", "hlvx_wu", "hlv_d", "hsv_b",
     "hsv_h", "hsv_w", "hsv_d", "amoadd_w", "amoadd_d", "amoand_w",
     "amoand_d", "amoor_w", "amoor_d", "amoxor_w", "amoxor_d", "amoswap_w",
     "amoswap_d", "amomax_w", "amomax_d", "amomaxu_w", "amomaxu_d",
     "amomin_w", "amomin_d", "amominu_w", "amominu_d", "lr_w", "lr_d",
     "sc_w", "sc_d", "c_add", "c_addi", "c_addi4spn", "c_addw", "c_and",
     "c_andi", "c_beqz", "c_bnez", "c_j", "c_jal", "c_jalr", "c_jr", "c_li",
     "c_lui", "c_lw", "c_lwsp", "c_mv", "c_or", "c_slli", "c_srai", "c_srli",
     "c_sub", "c_subw", "c_sw", "c_swsp", "c_xor" >>

ScalarBody(s, d) ==
  CASE d.op = "add" -> add(s, d)
    [] d.op = "sub" -> sub(s, d)
    [] d.op = "addi" -> addi(s, d)
    [] d.op = "and" -> and(s, d)
    [] d.op = "andi" -> andi(s, d)
    [] d.op = "or" -> or(s, d)
    [] d.op = "ori" -> ori(s, d)
    [] d.op = "xor" -> xor(s, d)
    [] d.op = "xori" -> xori(s, d)
    [] d.op = "slt" -> slt(s, d)
    [] d.op = "slti" -> slti(s, d)
    [] d.op = "sltu" -> sltu(s, d)
    [] d.op = "sltiu" -> sltiu(s, d)
    [] d.op = "lui" -> lui(s, d)
    [] d.op = "auipc" -> auipc(s, d)
    [] d.op = "addw" -> addw(s, d)
    [] d.op = "subw" -> subw(s, d)
    [] d.op = "addiw" -> addiw(s, d)
    [] d.op = "sll" -> sll(s, d)
    [] d.op = "srl" -> srl(s, d)
    [] d.op = "sra" -> sra(s, d)
    [] d.op = "slli" -> slli(s, d)
    [] d.op = "srli" -> srli(s, d)
    [] d.op = "srai" -> srai(s, d)
    [] d.op = "sllw" -> sllw(s, d)
    [] d.op = "srlw" -> srlw(s, d)
    [] d.op = "sraw" -> sraw(s, d)
    [] d.op = "slliw" -> slliw(s, d)
    [] d.op = "srliw" -> srliw(s, d)
    [] d.op = "sraiw" -> sraiw(s, d)
    [] d.op = "beq" -> beq(s, d)
    [] d.op = "bne" -> bne(s, d)
    [] d.op = "blt" -> blt(s, d)
    [] d.op = "bltu" -> bltu(s, d)
    [] d.op = "bge" -> bge(s, d)
    [] d.op = "bgeu" -> bgeu(s, d)
    [] d.op = "jal" -> jal(s, d)
    [] d.op = "jalr" -> jalr(s, d)
    [] d.op = "mul" -> mul(s, d)
    [] d.op = "mulw" -> mulw(s, d)
    [] d.op = "mulh" -> mulh(s, d)
    [] d.op = "mulhsu" -> mulhsu(s, d)
    [] d.op = "mulhu" -> mulhu(s, d)
    [] d.op = "div" -> div(s, d)
    [] d.op = "divu" -> divu(s, d)
    [] d.op = "rem" -> rem(s, d)
    [] d.op = "remu" -> remu(s, d)
    [] d.op = "divw" -> divw(s, d)
    [] d.op = "divuw" -> divuw(s, d)
    [] d.op = "remw" -> remw(s, d)
    [] d.op = "remuw" -> remuw(s, d)
    [] d.op = "lb" -> lb(s, d)
    [] d.op = "lbu" -> lbu(s, d)
    [] d.op = "lh" -> lh(s, d)
    [] d.op = "lhu" -> lhu(s, d)
    [] d.op = "lw" -> lw(s, d)
    [] d.op = "lwu" -> lwu(s, d)
    [] d.op = "ld" -> ld(s, d)
    [] d.op = "sb" -> sb(s, d)
    [] d.op = "sh" -> sh(s, d)
    [] d.op = "sw" -> sw(s, d)
    [] d.op = "sd" -> sd(s, d)
    [] d.op = "hlv_b" -> hlv_b(s, d)
    [] d.op = "hlv_bu" -> hlv_bu(s, d)
    [] d.op = "hlv_h" -> hlv_h(s, d)
    [] d.op = "hlv_hu" -> hlv_hu(s, d)
    [] d.op = "hlvx_hu" -> hlvx_hu(s, d)
    [] d.op = "hlv_w" -> hlv_w(s, d)
    [] d.op = "hlv_wu" -> hlv_wu(s, d)
    [] d.op = "hlvx_wu" -> hlvx_wu(s, d)
    [] d.op = "hlv_d" -> hlv_d(s, d)
    [] d.op = "hsv_b" -> hsv_b(s, d)
    [] d.op = "hsv_h" -> hsv_h(s, d)
    [] d.op = "hsv_w" -> hsv_w(s, d)
    [] d.op = "hsv_d" -> hsv_d(s, d)
    [] d.op = "amoadd_w" -> amoadd_w(s, d)
    [] d.op = "amoadd_d" -> amoadd_d(s, d)
    [] d.op = "amoand_w" -> amoand_w(s, d)
    [] d.op = "amoand_d" -> amoand_d(s, d)
    [] d.op = "amoor_w" -> amoor_w(s, d)
    [] d.op = "amoor_d" -> amoor_d(s, d)
    [] d.op = "amoxor_w" -> amoxor_w(s, d)
    [] d.op = "amoxor_d" -> amoxor_d(s, d)
    [] d.op = "amoswap_w" -> amoswap_w(s, d)
    [] d.op = "amoswap_d" -> amoswap_d(s, d)
    [] d.op = "amomax_w" -> amomax_w(s, d)
    [] d.op = "amomax_d" -> amomax_d(s, d)
    [] d.op = "amomaxu_w" -> amomaxu_w(s, d)
    [] d.op = "amomaxu_d" -> amomaxu_d(s, d)
    [] d.op = "amomin_w" -> amomin_w(s, d)
    [] d.op = "amomin_d" -> amomin_d(s, d)
    [] d.op = "amominu_w" -> amominu_w(s, d)
    [] d.op = "amominu_d" -> amominu_d(s, d)
    [] d.op = "lr_w" -> lr_w(s, d)
    [] d.op = "lr_d" -> lr_d(s, d)
    [] d.op = "sc_w" -> sc_w(s, d)
    [] d.op = "sc_d" -> sc_d(s, d)
    [] d.op = "c_add" -> c_add(s, d)
    [] d.op = "c_addi" -> c_addi(s, d)
    [] d.op = "c_addi4spn" -> c_addi4spn(s, d)
    [] d.op = "c_addw" -> c_addw(s, d)
    [] d.op = "c_and" -> c_and(s, d)
    [] d.op = "c_andi" -> c_andi(s, d)
    [] d.op = "c_beqz" -> c_beqz(s, d)
    [] d.op = "c_bnez" -> c_bnez(s, d)
    [] d.op = "c_j" -> c_j(s, d)
    [] d.op = "c_jal" -> c_jal(s, d)
    [] d.op = "c_jalr" -> c_jalr(s, d)
    [] d.op = "c_jr" -> c_jr(s, d)
    [] d.op = "c_li" -> c_li(s, d)
    [] d.op = "c_lui" -> c_lui(s, d)
    [] d.op = "c_lw" -> c_lw(s, d)
    [] d.op = "c_lwsp" -> c_lwsp(s, d)
    [] d.op = "c_mv" -> c_mv(s, d)
    [] d.op = "c_or" -> c_or(s, d)
    [] d.op = "c_slli" -> c_slli(s, d)
    [] d.op = "c_srai" -> c_srai(s, d)
    [] d.op = "c_srli" -> c_srli(s, d)
    [] d.op = "c_sub" -> c_sub(s, d)
    [] d.op = "c_subw" -> c_subw(s, d)
    [] d.op = "c_sw" -> c_sw(s, d)
    [] d.op = "c_swsp" -> c_swsp(s, d)
    [] d.op = "c_xor" -> c_xor(s, d)
===============================================================================
