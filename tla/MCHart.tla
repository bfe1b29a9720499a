------------------------------- MODULE MCHart -------------------------------
(* The hart for TLC: three pieces of code, each after a boot that sets the *)
(* registers it needs and returns to the code with MRET, on a machine of   *)
(* eight pages of eight bytes.                                             *)
EXTENDS Hart, TLC

CONSTANTS MemoryPasses, GuestPasses, DebugPasses

MCIsa == {"S", "U", "H", "C", "A", "M", "F"}
Pages(first, last) == (8 * first)..(8 * last + 7)
\* a page of the debug module, one of the CLINT, and memory
MCBus == (0 :> [kind |-> "device", size |-> 8]) @@ (8 :> [kind |-> "device", size |-> 8])
           @@ (16 :> [kind |-> "memory", size |-> 48])
MCDebugRegion == Pages(0, 0)
MCPsInt == (20 :> {MEI})

Pte(flags, ppn) ==
  [V |-> "V" \in flags, R |-> "R" \in flags, W |-> "W" \in flags, X |-> "X" \in flags,
   U |-> "U" \in flags, A |-> "A" \in flags, D |-> "D" \in flags, ppn |-> ppn]
All == {"V", "R", "W", "X", "A", "D"}

(* Page 4 is the root: a user table for the low half of the addresses, the *)
(* kernel's code and data for the high half.  Page 6 is the host's map of  *)
(* guest physical memory.                                                  *)
MCPageTable ==
  (32 :> Pte({"V"}, 5)) @@ (36 :> Pte(All, 2))
    @@ (40 :> Pte(All \union {"U"}, 3)) @@ (44 :> Pte({"V", "R", "X", "A", "U"}, 2))
    @@ (52 :> Pte(All \union {"U"}, 2)) @@ (56 :> Pte({"V", "R", "A", "U"}, 4))

Op(op) == [op |-> op, bits |-> 0]
Mem4(op, a, data) == [op |-> op, a |-> a, len |-> 4, data |-> data, bits |-> 0]
CsrOp(form, csr, val) ==
  [op |-> "csr", form |-> form, csr |-> csr, write |-> TRUE, val |-> val, bits |-> 0]
Csrw(csr, val) == CsrOp("rw", csr, val)
Csrr(csr) == [op |-> "csr", form |-> "rs", csr |-> csr, write |-> FALSE, bits |-> 0]
Sv(mode, ppn) == [mode |-> mode, ppn |-> ppn]
Status(fs) == [f \in DOMAIN StatusZero |->
                 IF f \in DOMAIN fs THEN fs[f] ELSE StatusZero[f]]

RECURSIVE Boot(_, _)
Boot(x, writes) ==
  IF writes = <<>> THEN x
  ELSE Boot(SetCsr(x, Head(writes)[1], Head(writes)[2]), Tail(writes))

----------------------------------------------------------------------------
(* Virtual memory: user and kernel code that switches page tables, the     *)
(* user-memory bit and protection, in every mode.                          *)
MemoryBoot ==
  Boot(Reset(FALSE),
       << <<"mtvec", 16>>, <<"stvec", 240>>, <<"medeleg", {8, 12, 13, 15}>>,
          <<"satp", Sv("SV39", 4)>>, <<"mepc", 240>>, <<"sepc", 0>>,
          <<"mstatus", Status([MPP |-> 1])>> >>)
Guarded(a) == [L |-> FALSE, R |-> TRUE, W |-> FALSE, X |-> TRUE, A |-> a]
MemoryProgram ==
  {Mem4("load", 0, 0), Mem4("store", 8, 0), Mem4("load", 242, 0), Mem4("store", 0, 0),
   Mem4("lr", 240, 0), Mem4("sc", 240, 0),
   Csrw("sstatus", Status([SUM |-> TRUE, SPP |-> 0])), Csrw("satp", Sv("SV39", 5)),
   Csrw("satp", Sv("SV57", 4)), Csrw("pmpaddr", <<1, 6>>),
   Csrw("pmpcfg", <<Guarded("TOR"), AllOfMemory>>),
   Op("mret"), Op("sret"), Op("ecall"), Op("sfence")}

----------------------------------------------------------------------------
(* A hypervisor and its guest, traps and interrupts for each of them.      *)
GuestBoot ==
  Boot(Reset(FALSE),
       << <<"mtvec", 16>>, <<"stvec", 20>>, <<"vstvec", 25>>, <<"medeleg", {2, 8}>>,
          <<"hedeleg", {8}>>, <<"mideleg", {SSI, SEI}>>, <<"hideleg", {VSSI}>>,
          <<"mie", {SSI, VSSI, MTI}>>, <<"mepc", 24>>, <<"vsepc", 28>>,
          <<"vsstatus", Status([SIE |-> TRUE, SUM |-> TRUE])>>,
          <<"mstatus", Status([MPP |-> 1, MPV |-> TRUE, MPIE |-> TRUE, FS |-> 3])>> >>)
GuestProgram ==
  {Op("mret"), Op("sret"), Op("ecall"), Op("illegal"), Op("hfence"),
   Csrw("sstatus", Status([SIE |-> TRUE])), CsrOp("rs", "sip", {SSI}), CsrOp("rc", "sip", {SSI}),
   Csrw("stvec", 24), Csrw("hvip", {VSSI}),
   Csrw("hstatus", [HstatusZero EXCEPT !.SPV = TRUE, !.SPVP = 1]),
   Csrw("satp", Sv("SV39", 4)), Mem4("hlv", 16, 0)}

----------------------------------------------------------------------------
(* A debugger, triggers, software interrupts and the instruction counter.  *)
Dcsr(fs) == [f \in DOMAIN DcsrZero |-> IF f \in DOMAIN fs THEN fs[f] ELSE DcsrZero[f]]
Watch == [TriggerZero EXCEPT !.m = TRUE, !.load = TRUE, !.timing = 1, !.action = "debug"]
DebugBoot ==
  Boot(Reset(TRUE),
       << <<"mtvec", 16>>, <<"mie", {MSI, MEI}>>, <<"tdata2", 24>>, <<"tselect", 1>>,
          <<"tdata2", 24>>, <<"tselect", 0>>, <<"mepc", 20>>,
          <<"mstatus", Status([MIE |-> TRUE, MPP |-> 3])>> >>)
DebugProgram ==
  {Op("nop"), Op("ebreak"), Op("dret"), Op("wfi"), Op("mret"), Csrr("minstret"),
   Csrw("minstret", 3), Mem4("store", 8, 1), Mem4("store", 8, 0), Mem4("load", 24, 0),
   Csrw("dcsr", Dcsr([step |-> TRUE, prv |-> 3])),
   Csrw("dcsr", Dcsr([ebreakm |-> TRUE, prv |-> 3])), Csrw("tdata1", Watch),
   Csrw("tselect", 1)}

MCCode == [memory |-> MemoryProgram, guest |-> GuestProgram, debug |-> DebugProgram]
MCLines == [memory |-> {}, guest |-> {MTI}, debug |-> {}]
MCHaltKinds == [memory |-> {}, guest |-> {}, debug |-> {"REGULAR", "NONE"}]

MCInit ==
  \/ HartInit(ExecMret(MemoryBoot).h, "memory")
  \/ HartInit(ExecMret(GuestBoot).h, "guest")
  \/ HartInit(DebugBoot, "debug")

Within == CASE program = "memory" -> passes <= MemoryPasses
            [] program = "guest" -> passes <= GuestPasses
            [] program = "debug" -> passes <= DebugPasses
MCSpec == MCInit /\ [][HartNext]_vars
=============================================================================
