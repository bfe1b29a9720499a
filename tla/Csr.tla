-------------------------------- MODULE Csr --------------------------------
(***************************************************************************)
(* The architectural state of a hart of the instruction set simulator and  *)
(* what its control and status registers make of a write and of a read     *)
(* (riscv/processor.cc).  A hart is one record h; every operator here is   *)
(* pure and returns the hart after the call, and HartMmu and Hart build on *)
(* it.                                                                     *)
(*                                                                         *)
(* Abstractions: RV64 without an extension device; a status register is a  *)
(* record of its fields, an interrupt or delegation register the set of    *)
(* the numbers whose bit is set, an address register a number of XBits     *)
(* bits, and registers that keep whatever is written are entries of        *)
(* h.plain.                                                                *)
(***************************************************************************)
EXTENDS Integers, FiniteSets

CONSTANTS MaxIsa,        \* the extensions the hart was built with: max_isa
          NPmp,          \* PMP entries of the device tree: n_pmp
          NumTriggers,   \* triggers: num_triggers
          XBits,         \* bits of a register
          EpcBits,       \* bits of an exception pc before it is sign-extended
          PaddrBits,     \* MAX_PADDR_BITS
          PmpShift,      \* PMP_SHIFT
          LgGran,        \* lg_pmp_granularity
          CauseLimit     \* causes below it fit the mask of the Rocket CSRs

ASSUME CsrAssumption ==
  /\ NPmp \in Nat /\ NumTriggers \in Nat \ {0}
  /\ EpcBits \in 1..(XBits - 1) /\ PmpShift < PaddrBits /\ LgGran >= PmpShift

PRV_U == 0
PRV_S == 1
PRV_M == 3

SSI == 1
VSSI == 2
MSI == 3
STI == 5
VSTI == 6
MTI == 7
SEI == 9
VSEI == 10
MEI == 11
SGEI == 12

VSInts == {VSSI, VSTI, VSEI}             \* MIP_VS_MASK
HSInts == VSInts \union {SGEI}           \* MIP_HS_MASK, forced in mideleg

Has(h, ext) == ext \in h.misa            \* supports_extension

(* The new members of a set register: those of val where the mask lets it. *)
Masked(old, val, mask) == (old \ mask) \union (val \cap mask)

(* A record whose fields in fs are those of new, the others those of old.  *)
Fields(old, new, fs) == [f \in DOMAIN old |-> IF f \in fs THEN new[f] ELSE old[f]]

Word == 0..(2^XBits - 1)
EvenOf(a) == a - (a % 2)

(* pc_alignment_mask: without C the bit above the lowest is ignored too.   *)
Aligned(h, a) == IF Has(h, "C") \/ (a \div 2) % 2 = 0 THEN a ELSE a - 2

(* Rocket keeps EpcBits bits of an exception pc and copies the highest.    *)
EpcOf(a) == LET low == EvenOf(a) % 2^EpcBits IN
            IF low < 2^(EpcBits - 1) THEN low ELSE low + 2^XBits - 2^EpcBits

(* A trap vector loses its reserved bit 1; its bit 0 selects vectored mode.*)
TvecOf(a) == IF (a \div 2) % 2 = 1 THEN a - 2 ELSE a

(* A cause register of Rocket: the number is below CauseLimit or unchanged *)
(* above it; the interrupt flag is written as it is.                       *)
RocketCause(old, val, limit) ==
  [int |-> val.int, code |-> (old.code - (old.code % limit)) + (val.code % limit)]

----------------------------------------------------------------------------
(* The TLB, the instruction cache and the pieces of the mmu that a CSR     *)
(* write touches.  Every tag is gone after flush_tlb, and with the tags    *)
(* whatever the entries held.                                              *)
FlushIcache(h) == [h EXCEPT !.icache = [i \in DOMAIN @ |-> -1]]
FlushTlb(h) ==
  [FlushIcache(h) EXCEPT !.tlb = [t \in DOMAIN @ |-> [i \in DOMAIN @[t] |-> <<>>]],
                         !.tlbData = [i \in DOMAIN @ |-> -1]]

LegalPrivilege(h, prv) ==
  IF ~Has(h, "U") THEN PRV_M
  ELSE IF (prv = 2 /\ ~Has(h, "H")) \/ (prv = PRV_S /\ ~Has(h, "S")) THEN PRV_U
  ELSE prv

SetPrivilege(h, prv) == [FlushTlb(h) EXCEPT !.prv = LegalPrivilege(h, prv)]

----------------------------------------------------------------------------
(* mstatus and its views.                                                  *)
HasFs(h) == \E e \in {"S", "F", "V"} : Has(h, e)
HasMpv(h) == Has(h, "S") /\ Has(h, "H")

StatusFields(h) ==
  {"MIE", "MPIE", "MPRV", "MXR", "TW", "TVM", "TSR"}
    \union (IF Has(h, "S") THEN {"SUM", "SIE", "SPIE", "SPP"} ELSE {})
    \union (IF Has(h, "V") THEN {"VS"} ELSE {})
    \union (IF HasMpv(h) THEN {"GVA", "MPV"} ELSE {})

SstatusFields(h) ==
  {"SIE", "SPIE", "SPP", "FS", "SUM", "MXR"} \union (IF Has(h, "V") THEN {"VS"} ELSE {})

(* What a hypervisor's copy holds and what is exchanged with it.           *)
VsstatusFields(h) ==
  {"SIE", "SPIE", "SPP", "SUM", "MXR", "SD"}
    \union (IF Has(h, "F") THEN {"FS"} ELSE {}) \union (IF Has(h, "V") THEN {"VS"} ELSE {})

WithSd(s) == [s EXCEPT !.SD = s.FS = 3 \/ s.VS = 3]

(* CSR_MSTATUS.  FS becomes 3 whenever a bit of it is written, as in       *)
(* Rocket, MPP is legalized, and a change of what translation depends on   *)
(* flushes the TLB.                                                        *)
SetMstatus(h, val) ==
  LET flushed == IF \E f \in {"MPP", "MPRV", "SUM", "MXR"} : val[f] # h.mstatus[f]
                 THEN FlushTlb(h) ELSE h
      fs == IF val.FS # 0 THEN 3 ELSE IF HasFs(h) THEN 0 ELSE h.mstatus.FS
      s  == [Fields(h.mstatus, val, StatusFields(h)) EXCEPT
               !.MPP = LegalPrivilege(h, val.MPP), !.FS = fs]
  IN [flushed EXCEPT !.mstatus = WithSd(s)]

SetSstatus(h, val) == SetMstatus(h, Fields(h.mstatus, val, SstatusFields(h)))

DirtyFp(h) == [h EXCEPT !.mstatus.FS = 3, !.mstatus.SD = TRUE]
DirtyVs(h) == [h EXCEPT !.mstatus.VS = 3, !.mstatus.SD = TRUE]

----------------------------------------------------------------------------
(* Physical memory protection.                                             *)
TorGrain == 2^(LgGran - PmpShift)              \* pmp_tor_mask clears below it
Even(a, unit) == a - (a % unit)

SetPmpAddr(h, i, val) ==
  LET locked     == h.pmpcfg[i].L
      nextLocked == i + 1 \in 1..NPmp /\ h.pmpcfg[i + 1].L
      nextTor    == i + 1 \in 1..NPmp /\ h.pmpcfg[i + 1].A = "TOR"
  IN IF NPmp = 0 THEN h
     ELSE FlushTlb(IF locked \/ (nextLocked /\ nextTor) THEN h
                   ELSE [h EXCEPT !.pmpaddr[i] = val % 2^(PaddrBits - PmpShift)])

PmpLegal(cfg) == [cfg EXCEPT !.W = cfg.R /\ cfg.W,
                             !.A = IF cfg.A = "NA4" /\ LgGran # PmpShift THEN "NAPOT" ELSE @]

SetPmpCfg(h, val) ==
  IF NPmp = 0 THEN h
  ELSE FlushTlb([h EXCEPT !.pmpcfg =
         [i \in DOMAIN @ |-> IF @[i].L THEN @[i] ELSE PmpLegal(val[i])]])

PmpAddrRead(h, i) ==
  IF h.pmpcfg[i].A = "NAPOT"
  THEN LET below == TorGrain \div 2
       IN IF below = 0 THEN h.pmpaddr[i] ELSE Even(h.pmpaddr[i], below) + below - 1
  ELSE Even(h.pmpaddr[i], TorGrain)

----------------------------------------------------------------------------
(* Interrupts and their delegation.  A guest sees its own, VS, interrupts  *)
(* one position lower.                                                     *)
SupInts(h) == IF Has(h, "S") THEN {SSI, STI, SEI} ELSE {}
HypInts(h) == IF Has(h, "H") THEN HSInts ELSE {}
AllInts(h) == SupInts(h) \union HypInts(h) \union {MSI, MTI, MEI}

Up(val) == {i + 1 : i \in val}
Down(val) == {i - 1 : i \in val}

SetMip(h, val) ==
  LET writable == {SSI, STI, SEI} \union (IF Has(h, "H") THEN {VSSI} ELSE {})
  IN [h EXCEPT !.mip = Masked(@, val, (SupInts(h) \union HypInts(h)) \cap writable)]
SetMie(h, val) == [h EXCEPT !.mie = Masked(@, val, AllInts(h))]
SetMideleg(h, val) == [h EXCEPT !.mideleg = Masked(@, val, SupInts(h))]
SetSip(h, val) ==
  [h EXCEPT !.mip = IF h.v THEN Masked(@, Up(val), h.hideleg \cap {VSSI})
                           ELSE Masked(@, val, h.mideleg \cap {SSI})]
(* Mutant: a guest's bits are not moved to their place.                    *)
SetSie_Unmoved(h, val) ==
  [h EXCEPT !.mie = IF h.v THEN Masked(@, val, h.hideleg \cap VSInts)
                           ELSE Masked(@, val, h.mideleg \ HSInts)]

SetSie(h, val) ==
  [h EXCEPT !.mie = IF h.v THEN Masked(@, Up(val), h.hideleg \cap VSInts)
                           ELSE Masked(@, val, h.mideleg \ HSInts)]
SetHie(h, val) == [h EXCEPT !.mie = Masked(@, val, HSInts)]
SetHip(h, val) == [h EXCEPT !.mip = Masked(@, val, {VSSI})]
SetHvip(h, val) == [h EXCEPT !.mip = Masked(@, val, VSInts)]
SetVsip(h, val) == [h EXCEPT !.mip = Masked(@, Up(val), h.hideleg \cap {VSSI})]
SetVsie(h, val) == [h EXCEPT !.mie = Masked(@, Up(val), h.hideleg \cap VSInts)]

(* What the delegation registers let through: Rocket's choice for medeleg. *)
MedelegMask == {0, 2, 3, 4, 6, 8, 12, 13, 15}
HedelegMask == {0, 3, 4, 5, 6, 7, 8, 12, 13, 15}

(* CSR_MISA: a write that would leave the pc misaligned is ignored, D goes *)
(* with F, and H takes the forced delegations with it.                     *)
MisaMask == {"M", "A", "F", "D", "C", "H"}
SetMisa(h, val) ==
  LET asked == IF "F" \in val THEN val ELSE val \ {"D"}
      misa  == Masked(h.misa, asked, MisaMask \cap MaxIsa)
  IN IF "C" \notin val /\ (h.pc \div 2) % 2 = 1 THEN h
     ELSE [h EXCEPT !.misa = misa,
                    !.mideleg = IF "H" \in misa THEN @ \union HSInts ELSE @ \ HSInts]

----------------------------------------------------------------------------
(* Address translation: an unsupported mode is written as zero.            *)
SatpModes == {"OFF", "SV39", "SV48"}
Satp(val) == IF val.mode \in SatpModes THEN val ELSE [mode |-> "OFF", ppn |-> 0]
(* Mutant: the translations of the old page table are kept.                *)
SetSatp_NoFlush(h, val) == IF h.v THEN [h EXCEPT !.vsatp = Satp(val)]
                                  ELSE [h EXCEPT !.satp = Satp(val)]

SetSatp(h, val) == IF h.v THEN [FlushTlb(h) EXCEPT !.vsatp = Satp(val)]
                          ELSE [FlushTlb(h) EXCEPT !.satp = Satp(val)]

----------------------------------------------------------------------------
(* Supervisor trap registers: a guest writes its own copies, which keep    *)
(* every bit, the host the ones that follow Rocket.                        *)
SetSepc(h, val) == IF h.v THEN [h EXCEPT !.vsepc = EvenOf(val)]
                          ELSE [h EXCEPT !.sepc = EpcOf(val)]
SetStvec(h, val) == IF h.v THEN [h EXCEPT !.vstvec = TvecOf(val)]
                           ELSE [h EXCEPT !.stvec = TvecOf(val)]
SetScause(h, val) == IF h.v THEN [h EXCEPT !.vscause = val]
                     ELSE [h EXCEPT !.scause = RocketCause(@, val, 2 * CauseLimit)]

(* Mutant: the increment is not taken off.                                 *)
SetMinstret_Plain(h, val) == [h EXCEPT !.minstret = val]

(* A write of minstret loses the increment of the instruction that does it.*)
SetMinstret(h, val) == [h EXCEPT !.minstret = val - 1]

----------------------------------------------------------------------------
(* Debug registers.  A trigger that belongs to the debugger is not written *)
(* from outside debug mode, and writing one flushes the TLB so that its    *)
(* tags ask for the check again.                                           *)
TriggerUpdated(h) ==
  LET h1 == FlushTlb(h)
      uses(f) == \E i \in DOMAIN h.mcontrol : h.mcontrol[i][f]
  IN [h1 EXCEPT !.checks = [FETCH |-> uses("execute"), LOAD |-> uses("load"),
                            STORE |-> uses("store")]]

TriggerLocked(h) == h.mcontrol[h.tselect].dmode /\ ~h.debug_mode

SetTdata1(h, val) ==
  IF TriggerLocked(h) THEN h
  ELSE TriggerUpdated([h EXCEPT !.mcontrol[h.tselect] =
                         [val EXCEPT !.timing = IF val.execute THEN 0 ELSE @]])
SetTdata2(h, val) == IF TriggerLocked(h) THEN h ELSE [h EXCEPT !.tdata2[h.tselect] = val]
SetTselect(h, val) == IF val < NumTriggers THEN [h EXCEPT !.tselect = val] ELSE h

SetDcsr(h, val) ==
  [h EXCEPT !.dcsr = [val EXCEPT !.cause = h.dcsr.cause]]

----------------------------------------------------------------------------
(* set_csr: the hart after val is written to the register which.           *)
Plain == {"mscratch", "sscratch", "vsscratch", "dscratch0", "stval", "vstval", "mtval",
          "mtval2", "mtinst", "htinst", "fflags", "frm", "vxsat", "vxrm", "vstart"}

SetPlain(h, which, val) ==
  LET banked == IF h.v /\ which = "sscratch" THEN "vsscratch"
                ELSE IF h.v /\ which = "stval" THEN "vstval" ELSE which
      h1 == IF which \in {"fflags", "frm"} THEN DirtyFp(h)
            ELSE IF which \in {"vxsat", "vxrm", "vstart"} THEN DirtyVs(h) ELSE h
  IN [h1 EXCEPT !.plain[banked] = val]

SetMachine(h, which, val) ==
  CASE which = "mstatus"    -> SetMstatus(h, val)
    [] which = "mip"        -> SetMip(h, val)
    [] which = "mie"        -> SetMie(h, val)
    [] which = "mideleg"    -> SetMideleg(h, val)
    [] which = "medeleg"    -> [h EXCEPT !.medeleg = Masked(@, val, MedelegMask)]
    [] which \in {"minstret", "mcycle"} -> SetMinstret(h, val)
    [] which = "mcounteren" -> [h EXCEPT !.mcounteren = val]
    [] which = "scounteren" -> [h EXCEPT !.scounteren = val]
    [] which = "mepc"       -> [h EXCEPT !.mepc = EpcOf(val)]
    [] which = "mtvec"      -> [h EXCEPT !.mtvec = TvecOf(val)]
    [] which = "mcause"     -> [h EXCEPT !.mcause = RocketCause(@, val, CauseLimit)]
    [] which = "misa"       -> SetMisa(h, val)

SetSupervisor(h, which, val) ==
  CASE which = "sstatus" -> SetSstatus(h, val)
    [] which = "sip"     -> SetSip(h, val)
    [] which = "sie"     -> SetSie(h, val)
    [] which = "satp"    -> SetSatp(h, val)
    [] which = "sepc"    -> SetSepc(h, val)
    [] which = "stvec"   -> SetStvec(h, val)
    [] which = "scause"  -> SetScause(h, val)

(* htval is written to the register next to it.                            *)
SetHypervisor(h, which, val) ==
  CASE which = "hstatus"    -> [h EXCEPT !.hstatus = val]
    [] which = "hedeleg"    -> [h EXCEPT !.hedeleg = Masked(@, val, HedelegMask)]
    [] which = "hideleg"    -> [h EXCEPT !.hideleg = Masked(@, val, VSInts)]
    [] which = "hie"        -> SetHie(h, val)
    [] which = "hcounteren" -> [h EXCEPT !.hcounteren = val]
    [] which = "htval"      -> [h EXCEPT !.plain["htinst"] = val]
    [] which = "hip"        -> SetHip(h, val)
    [] which = "hvip"       -> SetHvip(h, val)
    [] which = "hgatp"      -> [FlushTlb(h) EXCEPT !.hgatp = Satp(val)]
    [] which = "vsstatus"   -> [h EXCEPT !.vsstatus = Fields(@, val, VsstatusFields(h))]
    [] which = "vsie"       -> SetVsie(h, val)
    [] which = "vsip"       -> SetVsip(h, val)
    [] which = "vstvec"     -> [h EXCEPT !.vstvec = TvecOf(val)]
    [] which = "vsepc"      -> [h EXCEPT !.vsepc = EvenOf(val)]
    [] which = "vscause"    -> [h EXCEPT !.vscause = val]
    [] which = "vsatp"      -> [FlushTlb(h) EXCEPT !.vsatp = Satp(val)]

SetDebug(h, which, val) ==
  CASE which = "tselect" -> SetTselect(h, val)
    [] which = "tdata1"  -> SetTdata1(h, val)
    [] which = "tdata2"  -> SetTdata2(h, val)
    [] which = "dcsr"    -> SetDcsr(h, val)
    [] which = "dpc"     -> [h EXCEPT !.dpc = EvenOf(val)]

MachineCsrs == {"mstatus", "mip", "mie", "mideleg", "medeleg", "minstret", "mcycle",
                "mcounteren", "scounteren", "mepc", "mtvec", "mcause", "misa"}
SupervisorCsrs == {"sstatus", "sip", "sie", "satp", "sepc", "stvec", "scause"}
HypervisorCsrs == {"hstatus", "hedeleg", "hideleg", "hie", "hcounteren", "htval", "hip",
                   "hvip", "hgatp", "vsstatus", "vsie", "vsip", "vstvec", "vsepc",
                   "vscause", "vsatp"}
DebugCsrs == {"tselect", "tdata1", "tdata2", "dcsr", "dpc"}

(* val is the value for the register: a pair <<i, address>> for "pmpaddr". *)
SetCsr(h, which, val) ==
  CASE which = "pmpaddr"          -> SetPmpAddr(h, val[1], val[2])
    [] which = "pmpcfg"           -> SetPmpCfg(h, val)
    [] which \in Plain            -> SetPlain(h, which, val)
    [] which \in MachineCsrs      -> SetMachine(h, which, val)
    [] which \in SupervisorCsrs   -> SetSupervisor(h, which, val)
    [] which \in HypervisorCsrs   -> SetHypervisor(h, which, val)
    [] which \in DebugCsrs        -> SetDebug(h, which, val)

----------------------------------------------------------------------------
(* get_csr: whether a register may be read now, and what is read.          *)
CounterEnabled(h, c) ==
  /\ h.prv < PRV_M => c \in h.mcounteren
  /\ h.v => c \in h.hcounteren
  /\ h.prv < PRV_S => c \in h.scounteren

(* "none", or the trap a read raises.                                      *)
ReadTrap(h, which) ==
  CASE which \in {"fflags", "frm"} ->
         IF h.mstatus.FS # 0 /\ Has(h, "F") THEN "none" ELSE "illegal"
    [] which \in {"vxsat", "vxrm", "vstart"} ->
         IF h.mstatus.VS # 0 /\ Has(h, "V") THEN "none" ELSE "illegal"
    [] which \in {"instret", "cycle"} ->
         IF CounterEnabled(h, which) THEN "none"
         ELSE IF h.v /\ which \in h.mcounteren /\ which \notin h.hcounteren
              THEN "virtual" ELSE "illegal"
    [] which = "mcounteren" -> IF Has(h, "U") THEN "none" ELSE "illegal"
    [] which \in {"medeleg", "mideleg"} -> IF Has(h, "S") THEN "none" ELSE "illegal"
    [] which \in {"mtval2", "mtinst"} -> IF Has(h, "H") THEN "none" ELSE "illegal"
    [] which = "satp" -> IF h.mstatus.TVM /\ h.prv < PRV_M THEN "illegal"
                         ELSE IF h.v /\ h.hstatus.VTVM THEN "virtual" ELSE "none"
    [] which \in {"dcsr", "dpc", "dscratch0"} -> IF h.debug_mode THEN "none" ELSE "illegal"
    [] which \in {"pmpaddr", "pmpcfg"} -> IF NPmp = 0 THEN "illegal" ELSE "none"
    [] OTHER -> "none"

(* The supervisor's registers show a guest its own copies, and the masked  *)
(* registers what their masks let through.                                 *)
ReadSupervisor(h, which) ==
  CASE which = "sstatus" -> h.mstatus
    [] which = "sip"     -> IF h.v THEN Down(h.mip \cap h.hideleg \cap VSInts)
                                   ELSE (h.mip \cap h.mideleg) \ HSInts
    [] which = "sie"     -> IF h.v THEN Down(h.mie \cap h.hideleg \cap VSInts)
                                   ELSE (h.mie \cap h.mideleg) \ HSInts
    [] which = "satp"    -> IF h.v THEN h.vsatp ELSE h.satp
    [] which = "sepc"    -> Aligned(h, IF h.v THEN h.vsepc ELSE h.sepc)
    [] which = "stvec"   -> IF h.v THEN h.vstvec ELSE h.stvec
    [] which = "scause"  -> IF h.v THEN h.vscause ELSE h.scause

ReadHypervisor(h, which) ==
  CASE which = "hie"  -> h.mie \cap HSInts
    [] which = "hip"  -> h.mip \cap HSInts
    [] which = "hvip" -> h.mip \cap VSInts
    [] which = "vsie" -> Down(h.mie \cap h.hideleg \cap VSInts)
    [] which = "vsip" -> Down(h.mip \cap h.hideleg \cap VSInts)
    [] which = "vsepc" -> Aligned(h, h.vsepc)
    [] which = "htval" -> h.plain["htval"]
    [] OTHER -> h[which]

GetCsr(h, which) ==
  CASE which \in Plain -> h.plain[IF h.v /\ which = "sscratch" THEN "vsscratch"
                                  ELSE IF h.v /\ which = "stval" THEN "vstval" ELSE which]
    [] which \in SupervisorCsrs -> ReadSupervisor(h, which)
    [] which \in HypervisorCsrs -> ReadHypervisor(h, which)
    [] which \in {"minstret", "mcycle", "instret", "cycle"} -> h.minstret
    [] which \in {"mepc", "dpc"} -> Aligned(h, h[which])
    [] which = "pmpaddr" -> [i \in 1..NPmp |-> PmpAddrRead(h, i)]
    [] which = "tdata1" -> h.mcontrol[h.tselect]
    [] which = "tdata2" -> h.tdata2[h.tselect]
    [] which = "dcsr" -> [h.dcsr EXCEPT !.halt = FALSE]
    [] OTHER -> h[which]

----------------------------------------------------------------------------
(* validate_csr without its serialization: "none", or the trap an access   *)
(* to the register raises in the present mode.                             *)
CsrPrivilege(which) ==
  CASE which \in MachineCsrs \ {"scounteren"} -> PRV_M
    [] which \in {"pmpaddr", "pmpcfg", "mscratch", "mtval", "mtval2", "mtinst", "dscratch0"}
         \union DebugCsrs -> PRV_M
    [] which \in HypervisorCsrs \union {"htinst", "vsscratch", "vstval"} -> 2
    [] which \in SupervisorCsrs \union {"scounteren", "sscratch", "stval"} -> PRV_S
    [] OTHER -> PRV_U

AccessTrap(h, which, write) ==
  LET priv  == CsrPrivilege(which)
      state == IF h.prv = PRV_S /\ ~h.v THEN 2 ELSE h.prv
  IN IF (priv = PRV_S /\ ~Has(h, "S")) \/ (priv = 2 /\ ~Has(h, "H")) THEN "illegal"
     ELSE IF (write /\ which \in {"instret", "cycle"}) \/ state < priv
          THEN IF priv = 2 THEN "virtual" ELSE "illegal"
          ELSE "none"
=============================================================================
