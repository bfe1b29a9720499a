------------------------------ MODULE HartTrap ------------------------------
(***************************************************************************)
(* Traps, interrupts, returns and debug mode of a hart (processor_t in     *)
(* riscv/processor.cc and the instructions of riscv/insns that change the  *)
(* mode), as operators on the hart record of module Csr.                   *)
(***************************************************************************)
EXTENDS HartMmu

CONSTANTS DebugRomEntry, \* DEBUG_ROM_ENTRY
          DebugRomTvec,  \* DEBUG_ROM_TVEC
          ResetVector    \* DEFAULT_RSTVEC

BREAKPOINT == 3

----------------------------------------------------------------------------
(* reset: state_t::reset, then what processor_t::reset adds to it.         *)
StatusZero == [MIE |-> FALSE, MPIE |-> FALSE, SIE |-> FALSE, SPIE |-> FALSE,
               MPP |-> 0, SPP |-> 0, MPRV |-> FALSE, SUM |-> FALSE, MXR |-> FALSE,
               TVM |-> FALSE, TW |-> FALSE, TSR |-> FALSE, MPV |-> FALSE, GVA |-> FALSE,
               SD |-> FALSE, FS |-> 0, VS |-> 0]
HstatusZero == [VTSR |-> FALSE, VTW |-> FALSE, VTVM |-> FALSE, HU |-> FALSE,
                SPVP |-> 0, SPV |-> FALSE, GVA |-> FALSE]
DcsrZero == [prv |-> 0, step |-> FALSE, ebreakm |-> FALSE, ebreaks |-> FALSE,
             ebreaku |-> FALSE, halt |-> FALSE, cause |-> 0]
TriggerZero == [dmode |-> FALSE, select |-> FALSE, timing |-> 0, action |-> "exception",
                chain |-> FALSE, match |-> "equal", m |-> FALSE, s |-> FALSE, u |-> FALSE,
                execute |-> FALSE, store |-> FALSE, load |-> FALSE]
PmpOff == [L |-> FALSE, R |-> FALSE, W |-> FALSE, X |-> FALSE, A |-> "OFF"]
SatpOff == [mode |-> "OFF", ppn |-> 0]
CauseZero == [int |-> FALSE, code |-> 0]

StateReset ==
  [pc |-> ResetVector, prv |-> PRV_M, v |-> FALSE, misa |-> MaxIsa,
   mstatus |-> StatusZero, mepc |-> 0, mcause |-> CauseZero, mtvec |-> 0,
   minstret |-> 0, mie |-> {}, mip |-> {}, medeleg |-> {}, mideleg |-> {},
   mcounteren |-> {}, scounteren |-> {}, hcounteren |-> {},
   sepc |-> 0, stvec |-> 0, satp |-> SatpOff, scause |-> CauseZero,
   hstatus |-> HstatusZero, hideleg |-> {}, hedeleg |-> {}, hgatp |-> SatpOff,
   vsstatus |-> StatusZero, vstvec |-> 0, vsepc |-> 0, vscause |-> CauseZero,
   vsatp |-> SatpOff, dpc |-> 0, dcsr |-> DcsrZero, tselect |-> 0,
   mcontrol |-> [i \in 0..(NumTriggers - 1) |-> TriggerZero],
   tdata2 |-> [i \in 0..(NumTriggers - 1) |-> 0],
   debug_mode |-> FALSE, single_step |-> "NONE", serialized |-> FALSE,
   pmpcfg |-> [i \in 1..NPmp |-> PmpOff], pmpaddr |-> [i \in 1..NPmp |-> 0],
   plain |-> [c \in Plain \union {"htval"} |-> 0],
   tlb |-> [t \in Access |-> [i \in 0..(TlbEntries - 1) |-> <<>>]],
   tlbData |-> [i \in 0..(TlbEntries - 1) |-> -1],
   icache |-> [i \in 0..(IcacheEntries - 1) |-> -1],
   checks |-> [t \in Access |-> FALSE], matched |-> FALSE, reservation |-> -1]

AllOfMemory == [L |-> FALSE, R |-> TRUE, W |-> TRUE, X |-> TRUE, A |-> "NAPOT"]

Reset(haltOnReset) ==
  LET h0 == [StateReset EXCEPT !.mideleg = IF "H" \in MaxIsa THEN HSInts ELSE {},
                               !.dcsr.halt = haltOnReset]
      h1 == SetMstatus(h0, h0.mstatus)
      h2 == SetPmpAddr(h1, 1, 2^(PaddrBits - PmpShift) - 1)
  IN IF NPmp = 0 THEN h1
     ELSE SetPmpCfg(h2, [i \in 1..NPmp |-> IF i = 1 THEN AllOfMemory ELSE PmpOff])

----------------------------------------------------------------------------
(* set_virt: entering or leaving a guest exchanges the supervisor fields of*)
(* mstatus with vsstatus; what a guest made dirty is dirty for the host.   *)
SetVirt(h, virt) ==
  LET s == h.mstatus
      synced == [h.vsstatus EXCEPT !.FS = IF s.FS = 3 THEN 3 ELSE @,
                                   !.VS = IF s.VS = 3 THEN 3 ELSE @,
                                   !.SD = @ \/ s.FS = 3 \/ s.VS = 3]
      other == IF h.v THEN synced ELSE h.vsstatus
      shared == VsstatusFields(h)
  IN IF h.prv = PRV_M \/ h.v = virt THEN h
     ELSE [h EXCEPT !.mstatus = Fields(@, other, shared),
                    !.vsstatus = Fields(StatusZero, h.mstatus, shared),
                    !.v = virt]

----------------------------------------------------------------------------
(* take_interrupt: the interrupts that may be taken now, those for M first,*)
(* then for the supervisor, then for the guest, and the one chosen.        *)
Deliverable(h) ==
  LET pending == h.mip \cap h.mie
      forM  == IF h.prv < PRV_M \/ h.mstatus.MIE THEN pending \ h.mideleg ELSE {}
      hsie  == IF h.v THEN h.vsstatus.SIE ELSE h.mstatus.SIE
      forHS == IF h.prv < PRV_S \/ (h.prv = PRV_S /\ hsie)
               THEN (pending \cap h.mideleg) \ VSInts ELSE {}
      forVS == IF h.v /\ (h.prv < PRV_S \/ (h.prv = PRV_S /\ h.mstatus.SIE))
               THEN pending \cap h.mideleg \cap h.hideleg ELSE {}
  IN IF h.debug_mode THEN {}
     ELSE IF forM # {} THEN forM ELSE IF forHS # {} THEN forHS ELSE forVS

Priority == <<MEI, MSI, MTI, SEI, SSI, STI, VSEI, VSSI, VSTI>>

(* Nonstandard interrupts first; then the order of Priority.               *)
Chosen(ints) ==
  IF SGEI \in ints \/ MEI \in ints
  THEN IF MEI \in ints THEN MEI ELSE SGEI
  ELSE Priority[CHOOSE k \in DOMAIN Priority :
                  Priority[k] \in ints /\ \A j \in 1..(k - 1) : Priority[j] \notin ints]

InterruptTrap(h) ==
  IF Deliverable(h) = {} THEN NoTrap
  ELSE [cause |-> Chosen(Deliverable(h)), tval |-> 0, tval2 |-> 0, gva |-> FALSE, int |-> TRUE]

----------------------------------------------------------------------------
(* take_trap.                                                              *)
EnterDebugMode(h, cause) ==
  LET h1 == [h EXCEPT !.debug_mode = TRUE, !.dcsr.cause = cause, !.dcsr.prv = h.prv]
  IN [SetPrivilege(h1, PRV_M) EXCEPT !.dpc = h.pc, !.pc = DebugRomEntry]

(* Where a trap is handled: "debug", "park" (already in debug mode), "VS", *)
(* "HS" or "M".                                                            *)
HandledIn(h, t) ==
  LET deleg  == IF t.int THEN h.mideleg ELSE h.medeleg
      hdeleg == IF t.int THEN h.hideleg ELSE h.hedeleg
      wanted == CASE h.prv = PRV_M -> h.dcsr.ebreakm [] h.prv = PRV_S -> h.dcsr.ebreaks
                  [] OTHER -> h.dcsr.ebreaku
  IN IF h.debug_mode THEN "park"
     ELSE IF t.cause = BREAKPOINT /\ ~t.int /\ wanted THEN "debug"
     ELSE IF h.prv <= PRV_S /\ h.v /\ t.cause \in deleg \cap hdeleg THEN "VS"
     ELSE IF h.prv <= PRV_S /\ t.cause \in deleg THEN "HS"
     ELSE "M"

Vector(tvec, t) == (EvenOf(tvec) + (IF tvec % 2 = 1 /\ t.int THEN 4 * t.cause ELSE 0)) % 2^XBits
CauseOf(t) == [int |-> t.int, code |-> t.cause]

(* Mutant: the interrupt enable is not kept.                               *)
SupervisorEntry_NoSpie(s, prv) == [s EXCEPT !.SPP = prv, !.SIE = FALSE]

SupervisorEntry(s, prv) == [s EXCEPT !.SPIE = s.SIE, !.SPP = prv, !.SIE = FALSE]

TrapToVS(h, t, epc) ==
  LET h1 == [h EXCEPT !.pc = Vector(h.vstvec, t), !.vsepc = epc, !.plain["vstval"] = t.tval,
                      !.vscause = [int |-> t.int, code |-> IF t.int THEN t.cause - 1 ELSE t.cause]]
  IN SetPrivilege(SetMstatus(h1, SupervisorEntry(h1.mstatus, h.prv)), PRV_S)

TrapToHS(h, t, epc) ==
  LET h1 == SetVirt(h, FALSE)
      h2 == [h1 EXCEPT !.pc = Vector(h.stvec, t), !.scause = CauseOf(t), !.sepc = epc,
                       !.plain["stval"] = t.tval, !.plain["htval"] = t.tval2,
                       !.plain["htinst"] = 0]
      h3 == SetMstatus(h2, SupervisorEntry(h2.mstatus, h.prv))
  IN SetPrivilege([h3 EXCEPT !.hstatus.SPVP = h.prv, !.hstatus.SPV = h.v,
                             !.hstatus.GVA = t.gva], PRV_S)

(* mtval keeps EpcBits bits as Rocket does: the highest tells whether the  *)
(* address was canonical.                                                  *)
MtvalOf(tval) ==
  LET low   == tval % 2^(EpcBits - 1)
      upper == tval \div 2^(EpcBits - 1)
      high  == IF low >= 2^(EpcBits - 2) THEN upper = 2^(XBits - EpcBits + 1) - 1
                                         ELSE upper # 0
  IN IF high THEN low + 2^XBits - 2^(EpcBits - 1) ELSE low

TrapToM(h, t, epc) ==
  LET h1 == SetVirt(h, FALSE)
      h2 == [h1 EXCEPT !.pc = Vector(h.mtvec, t), !.mepc = epc, !.mcause = CauseOf(t),
                       !.plain["mtval"] = MtvalOf(t.tval), !.plain["mtval2"] = t.tval2,
                       !.plain["mtinst"] = 0]
      s  == [h2.mstatus EXCEPT !.MPIE = h2.mstatus.MIE, !.MPP = h.prv, !.MIE = FALSE,
                               !.MPV = h.v, !.GVA = t.gva]
  IN SetPrivilege(SetMstatus(h2, s), PRV_M)

TakeTrap(h, t, epc) ==
  CASE HandledIn(h, t) = "park" ->
         [h EXCEPT !.pc = IF t.cause = BREAKPOINT /\ ~t.int THEN DebugRomEntry ELSE DebugRomTvec]
    [] HandledIn(h, t) = "debug" -> EnterDebugMode(h, "SWBP")
    [] HandledIn(h, t) = "VS" -> TrapToVS(h, t, epc)
    [] HandledIn(h, t) = "HS" -> TrapToHS(h, t, epc)
    [] HandledIn(h, t) = "M"  -> TrapToM(h, t, epc)

----------------------------------------------------------------------------
(* What executing an instruction gives: as Result of HartMmu, with the     *)
(* program counter value returned: "next", or one of the sentinels that    *)
(* serialize the simulator.                                                *)
Out(r, npc) == [h |-> r.h, trap |-> r.trap, trig |-> r.trig, pa |-> r.pa, npc |-> npc]
Serialized(h, pc) == Out(Done([h EXCEPT !.pc = Aligned(h, pc)], -1), "after")
Traps(h, trap) == Out(Raises(h, trap), "next")

Illegal == InsnTrap(2, 0)
VirtualInsn == InsnTrap(22, 0)
TrapNamed(name) == IF name = "virtual" THEN VirtualInsn ELSE Illegal

(* What csrrw, csrrs and csrrc write, with an immediate or not; the last   *)
(* two change bits, of a register that is modelled as the set of them.     *)
csrrw(h, insn) == insn.val
csrrs(h, insn) == GetCsr(h, insn.csr) \union insn.val
csrrc(h, insn) == GetCsr(h, insn.csr) \ insn.val
Written(h, insn) == CASE insn.form = "rw" -> csrrw(h, insn)
                      [] insn.form = "rs" -> csrrs(h, insn)
                      [] insn.form = "rc" -> csrrc(h, insn)

(* All forms: the first pass only asks to be the first instruction of a    *)
(* batch.                                                                  *)
ExecCsr(h, insn, npc) ==
  LET h1 == [h EXCEPT !.serialized = FALSE]
      bad == AccessTrap(h, insn.csr, insn.write)
      unreadable == ReadTrap(h, insn.csr)
  IN IF ~h.serialized THEN Out(Done(h, -1), "before")
     ELSE IF bad # "none" THEN Traps(h1, TrapNamed(bad))
     ELSE IF unreadable # "none" THEN Traps(h1, TrapNamed(unreadable))
     ELSE LET h2 == IF insn.write THEN SetCsr(h1, insn.csr, Written(h1, insn)) ELSE h1
          IN Serialized(h2, npc)

(* A return: pc, then mstatus, then the privilege (which flushes), then    *)
(* whether a guest goes on.  MPV stays as it was.                          *)
ExecMret(h) ==
  LET s  == [h.mstatus EXCEPT !.MIE = h.mstatus.MPIE, !.MPIE = TRUE, !.MPP = PRV_U]
      h1 == SetPrivilege(SetMstatus([h EXCEPT !.pc = Aligned(h, h.mepc)], s), h.mstatus.MPP)
  IN IF h.prv < PRV_M THEN Traps(h, Illegal)
     ELSE Out(Done(SetVirt(h1, h.mstatus.MPV), -1), "after")

ExecSret(h) ==
  LET s  == [h.mstatus EXCEPT !.SIE = h.mstatus.SPIE, !.SPIE = TRUE, !.SPP = PRV_U]
      to == Aligned(h, IF h.v THEN h.vsepc ELSE h.sepc)
      h1 == SetPrivilege(SetMstatus([h EXCEPT !.pc = to], s), h.mstatus.SPP)
  IN IF ~Has(h, "S") \/ h.prv < (IF h.mstatus.TSR THEN PRV_M ELSE PRV_S) THEN Traps(h, Illegal)
     ELSE IF h.v /\ h.hstatus.VTSR THEN Traps(h, VirtualInsn)
     ELSE Out(Done(IF h.v THEN h1 ELSE SetVirt(h1, h.hstatus.SPV), -1), "after")

ExecDret(h) ==
  LET h1 == SetPrivilege([h EXCEPT !.pc = Aligned(h, h.dpc)], h.dcsr.prv)
  IN IF ~h.debug_mode THEN Traps(h, Illegal)
     ELSE Out(Done([h1 EXCEPT !.debug_mode = FALSE,
                              !.single_step = IF h.dcsr.step THEN "STEPPING" ELSE @], -1), "after")

ExecEcall(h) ==
  LET cause == CASE h.prv = PRV_U -> 8 [] h.prv = PRV_M -> 11
                 [] OTHER -> IF h.v THEN 10 ELSE 9
  IN Traps(h, [NoTrap EXCEPT !.cause = cause])

ExecWfi(h, npc) ==
  IF h.prv < (IF h.mstatus.TW THEN PRV_M ELSE PRV_S) THEN Traps(h, Illegal)
  ELSE IF h.v /\ h.hstatus.VTW THEN Traps(h, VirtualInsn)
  ELSE Out(Done([h EXCEPT !.pc = Aligned(h, npc)], -1), "wfi")

ExecSfence(h) ==
  IF ~Has(h, "S") \/ h.prv < (IF h.mstatus.TVM THEN PRV_M ELSE PRV_S) THEN Traps(h, Illegal)
  ELSE Out(Done(FlushTlb(h), -1), "next")

ExecHfence(h) ==
  IF ~Has(h, "H") \/ h.prv < PRV_S THEN Traps(h, Illegal)
  ELSE IF h.v THEN Traps(h, VirtualInsn)
  ELSE Out(Done(FlushTlb(h), -1), "next")

(* HLV, HLVX and HSV: with HU set they ask for supervisor mode.            *)
GuestOps == {"hlv", "hlvx", "hsv"}
Xlate(op) == CASE op \in {"hlv", "hsv"} -> "virt" [] op = "hlvx" -> "virt_mxr"
               [] OTHER -> "none"

GuestAccess(h, insn, r) ==
  IF insn.op \notin GuestOps THEN Out(r, "next")
  ELSE IF ~Has(h, "H") \/ h.prv < (IF h.hstatus.HU THEN PRV_S ELSE PRV_U) THEN Traps(h, Illegal)
  ELSE IF h.v THEN Traps(h, VirtualInsn)
  ELSE Out(r, "next")

ExecJump(h, target) ==
  IF Aligned(h, target) # target THEN Traps(h, MemTrap(0, target, 0))
  ELSE Out(Done([h EXCEPT !.pc = target], -1), "jump")

Execute(h, insn, npc) ==
  LET next(r) == Out(r, "next")
  IN CASE insn.op = "csr"   -> ExecCsr(h, insn, npc)
       [] insn.op \in {"load", "hlv", "hlvx"} ->
            GuestAccess(h, insn, Load(h, insn.a, insn.len, insn.data, Xlate(insn.op)))
       [] insn.op \in {"store", "hsv"} ->
            GuestAccess(h, insn, Store(h, insn.a, insn.len, insn.data, Xlate(insn.op)))
       [] insn.op = "amo"   -> next(Amo(h, insn.a, insn.len, insn.data))
       [] insn.op = "lr"    -> next(LoadReserved(h, insn.a, insn.len, insn.data))
       [] insn.op = "sc"    -> next(StoreConditional(h, insn.a, insn.len, insn.data))
       [] insn.op = "mret"  -> ExecMret(h)
       [] insn.op = "sret"  -> ExecSret(h)
       [] insn.op = "dret"  -> ExecDret(h)
       [] insn.op = "ecall" -> ExecEcall(h)
       [] insn.op = "ebreak" -> Traps(h, InsnTrap(BREAKPOINT, 0))
       [] insn.op = "wfi"   -> ExecWfi(h, npc)
       [] insn.op = "sfence" -> ExecSfence(h)
       [] insn.op = "hfence" -> ExecHfence(h)
       [] insn.op = "fence_i" -> next(Done(FlushIcache(h), -1))
       [] insn.op = "jump"  -> ExecJump(h, insn.target)
       [] insn.op = "nop"   -> next(Done(h, -1))
       [] insn.op = "illegal" -> Traps(h, Illegal)
=============================================================================
