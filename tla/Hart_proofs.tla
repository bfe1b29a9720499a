----------------------------- MODULE Hart_proofs -----------------------------
(***************************************************************************)
(* Hart: the count of retired instructions is exact, and every change of   *)
(* privilege is one the properties allow, whatever program runs.           *)
(*                                                                         *)
(* The count.  Everything a hart does but writing the counter leaves the   *)
(* counter and the serialized flag as they are (Keeps): shown operator by  *)
(* operator for the registers, the traps, the memory unit and the          *)
(* instructions.  A CSR instruction is run in two passes, and it is the    *)
(* second that runs it (ExecuteCsr).  With that, each way a batch ends adds*)
(* to minstret what the batch retired (CountIInv is inductive).            *)
(*                                                                         *)
(* Privilege.  The context a trap interrupts is followed in the registers  *)
(* of the mode that handles it: what mepc, mstatus and vsstatus hold of it *)
(* moves between them when a guest is entered or left (SavedM, SavedHS,    *)
(* SavedVS).  That they hold it, in a hart whose modes exist (Sound), is   *)
(* kept by each trap, return and write and by all an instruction does to a *)
(* hart besides (PrivIInv is inductive); the three properties on the steps *)
(* follow from it, for one instruction after another (Does, Moves).        *)
(*                                                                         *)
(* The debugger's step.  Only DRET, the step loop and the entry into debug *)
(* mode touch single_step and debug_mode, and only the last and a write of *)
(* dpc touch dpc (KeepsMode, KeepsStep).  So from a DRET with dcsr.step on *)
(* the hart has counted nothing and is still stepping, or has counted one  *)
(* and its next pass halts it at the pc of the program (InStep; StepIInv   *)
(* is inductive), whichever way the pass ends.                             *)
(***************************************************************************)
EXTENDS Hart, TLAPS

\* what counting instructions and stepping through them depend on
Kept == {"minstret", "serialized", "matched", "debug_mode", "single_step", "dpc", "dcsr", "pc"}

\* two hart records with the same counters, but for a trigger that was thrown
KeepsCount(x, y) == /\ DOMAIN y = DOMAIN x
                    /\ y.minstret = x.minstret /\ y.serialized = x.serialized
Keeps(x, y) == KeepsCount(x, y) /\ y.matched = x.matched

\* and with the same state of the debugger's step
KeepsMode(x, y) == y.debug_mode = x.debug_mode /\ y.single_step = x.single_step
KeepsStep(x, y) == KeepsMode(x, y) /\ y.dpc = x.dpc
Stays(x, y) == Keeps(x, y) /\ KeepsStep(x, y)

----------------------------------------------------------------------------
LEMMA KeepsTrans ==
  ASSUME NEW x, NEW y, NEW z, Keeps(x, y), Keeps(y, z)
  PROVE  Keeps(x, z)
BY DEF Keeps, KeepsCount

LEMMA StaysTrans ==
  ASSUME NEW x, NEW y, NEW z, Stays(x, y), Stays(y, z)
  PROVE  Stays(x, z)
BY DEF Stays, Keeps, KeepsCount, KeepsStep, KeepsMode

LEMMA StaysSelf ==
  ASSUME NEW x
  PROVE  Stays(x, x)
BY DEF Stays, Keeps, KeepsCount, KeepsStep, KeepsMode

LEMMA FlushKeeps ==
  ASSUME NEW x, Kept \subseteq DOMAIN x
  PROVE  Stays(x, FlushIcache(x)) /\ Stays(x, FlushTlb(x))
BY DEF Kept, Stays, Keeps, KeepsCount, KeepsStep, KeepsMode, FlushIcache, FlushTlb

LEMMA SetMstatusKeeps ==
  ASSUME NEW x, NEW val, Kept \subseteq DOMAIN x
  PROVE  Stays(x, SetMstatus(x, val))
<1> DEFINE flushed == IF \E f \in {"MPP", "MPRV", "SUM", "MXR"} : val[f] # x.mstatus[f]
                      THEN FlushTlb(x) ELSE x
<1>1. Stays(x, flushed)
  BY FlushKeeps DEF Stays, Keeps, KeepsCount, KeepsStep, KeepsMode
<1>2. PICK s : SetMstatus(x, val) = [flushed EXCEPT !.mstatus = s]
  BY DEF SetMstatus
<1> QED BY <1>1, <1>2 DEF Stays, Keeps, KeepsCount, KeepsStep, KeepsMode, Kept

LEMMA SetPrivilegeKeeps ==
  ASSUME NEW x, NEW prv, Kept \subseteq DOMAIN x
  PROVE  Stays(x, SetPrivilege(x, prv))
BY FlushKeeps DEF Stays, Keeps, KeepsCount, KeepsStep, KeepsMode, Kept, SetPrivilege

----------------------------------------------------------------------------
LEMMA PlainKeeps ==
  ASSUME NEW x, NEW which, NEW val, Kept \subseteq DOMAIN x
  PROVE  Stays(x, SetPlain(x, which, val))
BY DEF Stays, Keeps, KeepsCount, KeepsStep, KeepsMode, Kept, SetPlain, DirtyFp, DirtyVs

LEMMA PmpKeeps ==
  ASSUME NEW x, NEW i, NEW val, Kept \subseteq DOMAIN x
  PROVE  Stays(x, SetPmpAddr(x, i, val)) /\ Stays(x, SetPmpCfg(x, val))
<1>1. ASSUME NEW v PROVE /\ Stays(x, FlushTlb([x EXCEPT !.pmpaddr = v]))
                         /\ Stays(x, FlushTlb([x EXCEPT !.pmpcfg = v]))
  BY FlushKeeps DEF Stays, Keeps, KeepsCount, KeepsStep, KeepsMode, Kept
<1>2. Stays(x, x) /\ Stays(x, FlushTlb(x))
  BY FlushKeeps DEF Stays, Keeps, KeepsCount, KeepsStep, KeepsMode
<1>3. Stays(x, SetPmpAddr(x, i, val))
  BY <1>1, <1>2 DEF SetPmpAddr
<1>4. Stays(x, SetPmpCfg(x, val))
  BY <1>1, <1>2 DEF SetPmpCfg
<1> QED BY <1>3, <1>4

LEMMA InterruptCsrsKeep ==
  ASSUME NEW x, NEW val, Kept \subseteq DOMAIN x
  PROVE  /\ Stays(x, SetMip(x, val)) /\ Stays(x, SetMie(x, val)) /\ Stays(x, SetMideleg(x, val))
         /\ Stays(x, SetSip(x, val)) /\ Stays(x, SetSie(x, val))
         /\ Stays(x, SetHie(x, val)) /\ Stays(x, SetHip(x, val)) /\ Stays(x, SetHvip(x, val))
         /\ Stays(x, SetVsip(x, val)) /\ Stays(x, SetVsie(x, val))
BY DEF Stays, Keeps, KeepsCount, KeepsStep, KeepsMode, Kept, SetMip, SetMie, SetMideleg,
   SetSip, SetSie, SetHie, SetHip, SetHvip,
       SetVsip, SetVsie

LEMMA MachineKeeps ==
  ASSUME NEW x, NEW which \in MachineCsrs, NEW val, Kept \subseteq DOMAIN x
  PROVE  LET y == SetMachine(x, which, val) IN
         IF which \in {"minstret", "mcycle"}
         THEN y = [x EXCEPT !.minstret = val - 1]
         ELSE Stays(x, y)
<1>1. CASE which \in {"minstret", "mcycle"}
  BY <1>1 DEF SetMachine, SetMinstret
<1>2. CASE which = "mstatus"
  BY <1>2, SetMstatusKeeps DEF SetMachine
<1>3. CASE which \in {"mip", "mie", "mideleg"}
  BY <1>3, InterruptCsrsKeep DEF SetMachine
<1>4. CASE which = "misa"
  BY <1>4 DEF SetMachine, SetMisa, Stays, Keeps, KeepsCount, KeepsStep, KeepsMode, Kept
<1>5. CASE which \in {"medeleg", "mcounteren", "scounteren", "mepc", "mtvec", "mcause"}
  BY <1>5 DEF SetMachine, Stays, Keeps, KeepsCount, KeepsStep, KeepsMode, Kept
<1> QED BY <1>1, <1>2, <1>3, <1>4, <1>5 DEF MachineCsrs

LEMMA SupervisorKeeps ==
  ASSUME NEW x, NEW which \in SupervisorCsrs, NEW val, Kept \subseteq DOMAIN x
  PROVE  Stays(x, SetSupervisor(x, which, val))
<1>1. CASE which = "sstatus"
  BY <1>1, SetMstatusKeeps DEF SetSupervisor, SetSstatus
<1>2. CASE which \in {"sip", "sie"}
  BY <1>2, InterruptCsrsKeep DEF SetSupervisor
<1>3. CASE which = "satp"
  BY <1>3, FlushKeeps DEF SetSupervisor, SetSatp, Stays, Keeps, KeepsCount, KeepsStep,
     KeepsMode, Kept
<1>4. CASE which \in {"sepc", "stvec", "scause"}
  BY <1>4 DEF SetSupervisor, SetSepc, SetStvec, SetScause, Stays, Keeps, KeepsCount,
     KeepsStep, KeepsMode, Kept
<1> QED BY <1>1, <1>2, <1>3, <1>4 DEF SupervisorCsrs

LEMMA HypervisorKeeps ==
  ASSUME NEW x, NEW which \in HypervisorCsrs, NEW val, Kept \subseteq DOMAIN x
  PROVE  Stays(x, SetHypervisor(x, which, val))
<1>1. CASE which \in {"hie", "hip", "hvip", "vsie", "vsip"}
  BY <1>1, InterruptCsrsKeep DEF SetHypervisor
<1>2. CASE which \in {"hgatp", "vsatp"}
  BY <1>2, FlushKeeps DEF SetHypervisor, Stays, Keeps, KeepsCount, KeepsStep, KeepsMode, Kept
<1>3. CASE which \in {"hstatus", "hedeleg", "hideleg", "hcounteren", "htval"}
  BY <1>3 DEF SetHypervisor, Stays, Keeps, KeepsCount, KeepsStep, KeepsMode, Kept
<1>4. CASE which \in {"vsstatus", "vstvec", "vsepc", "vscause"}
  BY <1>4 DEF SetHypervisor, Stays, Keeps, KeepsCount, KeepsStep, KeepsMode, Kept
<1> QED BY <1>1, <1>2, <1>3, <1>4 DEF HypervisorCsrs

LEMMA DebugKeeps ==
  ASSUME NEW x, NEW which \in DebugCsrs, NEW val, Kept \subseteq DOMAIN x
  PROVE  LET y == SetDebug(x, which, val)
         IN Keeps(x, y) /\ KeepsMode(x, y) /\ (which = "dpc" \/ y.dpc = x.dpc)
<1>1. CASE which = "tdata1"
  <2>1. ASSUME NEW v PROVE Stays(x, TriggerUpdated([x EXCEPT !.mcontrol = v]))
    <3> DEFINE x1 == [x EXCEPT !.mcontrol = v]
               x2 == FlushTlb(x1)
    <3>1. Stays(x, x1) /\ Kept \subseteq DOMAIN x1
      BY DEF Stays, Keeps, KeepsCount, KeepsStep, KeepsMode, Kept
    <3> HIDE DEF x1
    <3>2. Stays(x1, x2)
      BY <3>1, FlushKeeps
    <3>3. PICK c : TriggerUpdated(x1) = [x2 EXCEPT !.checks = c]
      BY DEF TriggerUpdated
    <3> HIDE DEF x2
    <3>4. Stays(x2, [x2 EXCEPT !.checks = c])
      BY <3>1, <3>2 DEF Stays, Keeps, KeepsCount, KeepsStep, KeepsMode, Kept
    <3>5. Stays(x, [x2 EXCEPT !.checks = c])
      BY <3>1, <3>2, <3>4, StaysTrans
    <3> QED BY <3>3, <3>5 DEF x1
  <2>2. Stays(x, x)
    BY DEF Stays, Keeps, KeepsCount, KeepsStep, KeepsMode
  <2> QED BY <1>1, <2>1, <2>2 DEF SetDebug, SetTdata1, Stays, KeepsStep
<1>2. CASE which \in {"tselect", "tdata2", "dcsr", "dpc"}
  BY <1>2 DEF SetDebug, SetTselect, SetTdata2, SetDcsr, Stays, Keeps, KeepsCount, KeepsStep,
     KeepsMode, Kept
<1> QED BY <1>1, <1>2 DEF DebugCsrs

\* set_csr: only a write of the counter changes it
LEMMA SetCsrKeeps ==
  ASSUME NEW x, NEW which \in WritableCsrs, NEW val, Kept \subseteq DOMAIN x
  PROVE  IF which \in {"minstret", "mcycle"}
         THEN SetCsr(x, which, val) = [x EXCEPT !.minstret = val - 1]
         ELSE LET y == SetCsr(x, which, val)
              IN Keeps(x, y) /\ KeepsMode(x, y) /\ (which = "dpc" \/ y.dpc = x.dpc)
<1> USE DEF Plain, MachineCsrs, SupervisorCsrs, HypervisorCsrs, DebugCsrs
<1>1. CASE which = "pmpaddr"
  <2>1. SetCsr(x, which, val) = SetPmpAddr(x, val[1], val[2])
    BY <1>1 DEF SetCsr
  <2> QED BY <1>1, <2>1, PmpKeeps DEF Stays, KeepsStep
<1>2. CASE which = "pmpcfg"
  <2>1. SetCsr(x, which, val) = SetPmpCfg(x, val)
    BY <1>2 DEF SetCsr
  <2> QED BY <1>2, <2>1, PmpKeeps DEF Stays, KeepsStep
<1>3. CASE which \in Plain
  <2>1. SetCsr(x, which, val) = SetPlain(x, which, val)
    BY <1>3 DEF SetCsr
  <2> QED BY <1>3, <2>1, PlainKeeps DEF Stays, KeepsStep
<1>4. CASE which \in MachineCsrs
  <2>1. SetCsr(x, which, val) = SetMachine(x, which, val)
    BY <1>4 DEF SetCsr
  <2> QED BY <1>4, <2>1, MachineKeeps DEF Stays, KeepsStep
<1>5. CASE which \in SupervisorCsrs
  <2>1. SetCsr(x, which, val) = SetSupervisor(x, which, val)
    BY <1>5 DEF SetCsr
  <2> QED BY <1>5, <2>1, SupervisorKeeps DEF Stays, KeepsStep
<1>6. CASE which \in HypervisorCsrs
  <2>1. SetCsr(x, which, val) = SetHypervisor(x, which, val)
    BY <1>6 DEF SetCsr
  <2> QED BY <1>6, <2>1, HypervisorKeeps DEF Stays, KeepsStep
<1>7. CASE which \in DebugCsrs
  <2>1. SetCsr(x, which, val) = SetDebug(x, which, val)
    BY <1>7 DEF SetCsr
  <2> QED BY <1>7, <2>1, DebugKeeps
<1> QED BY <1>1, <1>2, <1>3, <1>4, <1>5, <1>6, <1>7 DEF WritableCsrs

----------------------------------------------------------------------------
(* Traps.                                                                  *)
LEMMA SetVirtKeeps ==
  ASSUME NEW x, NEW virt, Kept \subseteq DOMAIN x
  PROVE  Stays(x, SetVirt(x, virt))
<1>1. \A a, b, c : Stays(x, [x EXCEPT !.mstatus = a, !.vsstatus = b, !.v = c])
  BY DEF Stays, Keeps, KeepsCount, KeepsStep, KeepsMode, Kept
<1>2. Stays(x, x)
  BY DEF Stays, Keeps, KeepsCount, KeepsStep, KeepsMode
<1> QED BY <1>1, <1>2 DEF SetVirt

LEMMA EnterDebugModeKeeps ==
  ASSUME NEW x, NEW cause, Kept \subseteq DOMAIN x
  PROVE  LET y == EnterDebugMode(x, cause) IN
         /\ Keeps(x, y) /\ y.single_step = x.single_step
         /\ y.debug_mode = TRUE /\ y.dpc = x.pc
<1> DEFINE x1 == [x EXCEPT !.debug_mode = TRUE, !.dcsr.cause = cause, !.dcsr.prv = x.prv]
           x2 == SetPrivilege(x1, PRV_M)
<1>1. Keeps(x, x1) /\ x1.single_step = x.single_step /\ x1.debug_mode = TRUE
  BY DEF Keeps, KeepsCount, Kept
<1>2. Kept \subseteq DOMAIN x1
  BY <1>1 DEF Keeps, KeepsCount
<1>3. Stays(x1, x2)
  BY <1>2, SetPrivilegeKeeps
<1>4. EnterDebugMode(x, cause) = [x2 EXCEPT !.dpc = x.pc, !.pc = DebugRomEntry]
  BY DEF EnterDebugMode
<1>5. Keeps(x, x2) /\ x2.single_step = x.single_step /\ x2.debug_mode = TRUE
  BY <1>1, <1>3, KeepsTrans DEF Stays, KeepsStep, KeepsMode
<1> HIDE DEF x1, x2
<1> QED BY <1>4, <1>5 DEF Keeps, KeepsCount, Kept

LEMMA TrapToVSKeeps ==
  ASSUME NEW x, NEW t, NEW epc, Kept \subseteq DOMAIN x
  PROVE  Stays(x, TrapToVS(x, t, epc))
<1>1. PICK x1 : /\ Stays(x, x1)
                /\ TrapToVS(x, t, epc)
                     = SetPrivilege(SetMstatus(x1, SupervisorEntry(x1.mstatus, x.prv)), PRV_S)
  <2> DEFINE x1 == [x EXCEPT !.pc = Vector(x.vstvec, t), !.vsepc = epc, !.plain["vstval"] = t.tval,
                      !.vscause = [int |-> t.int, code |-> IF t.int THEN t.cause - 1 ELSE t.cause]]
  <2>1. Stays(x, x1)
    BY DEF Stays, Keeps, KeepsCount, KeepsStep, KeepsMode, Kept
  <2>2. TrapToVS(x, t, epc)
                     = SetPrivilege(SetMstatus(x1, SupervisorEntry(x1.mstatus, x.prv)), PRV_S)
    BY DEF TrapToVS
  <2> QED BY <2>1, <2>2
<1> DEFINE x2 == SetMstatus(x1, SupervisorEntry(x1.mstatus, x.prv))
<1>2. Stays(x1, x2) /\ Kept \subseteq DOMAIN x2
  BY <1>1, SetMstatusKeeps DEF Stays, Keeps, KeepsCount, KeepsStep, KeepsMode
<1> HIDE DEF x2
<1>3. Stays(x2, SetPrivilege(x2, PRV_S))
  BY <1>2, SetPrivilegeKeeps
<1> QED BY <1>1, <1>2, <1>3, StaysTrans DEF x2

LEMMA TrapToHSKeeps ==
  ASSUME NEW x, NEW t, NEW epc, Kept \subseteq DOMAIN x
  PROVE  Stays(x, TrapToHS(x, t, epc))
<1> DEFINE x1 == SetVirt(x, FALSE)
           x2 == [x1 EXCEPT !.pc = Vector(x.stvec, t), !.scause = CauseOf(t), !.sepc = epc,
                       !.plain["stval"] = t.tval, !.plain["htval"] = t.tval2,
                       !.plain["htinst"] = 0]
           x3 == SetMstatus(x2, SupervisorEntry(x2.mstatus, x.prv))
           x4 == [x3 EXCEPT !.hstatus.SPVP = x.prv, !.hstatus.SPV = x.v,
                             !.hstatus.GVA = t.gva]
<1>0. TrapToHS(x, t, epc) = SetPrivilege(x4, PRV_S)
  BY DEF TrapToHS
<1>1. Stays(x, x1) /\ Kept \subseteq DOMAIN x1
  BY SetVirtKeeps DEF Stays, Keeps, KeepsCount, KeepsStep, KeepsMode
<1> HIDE DEF x1
<1>2. Stays(x1, x2) /\ Kept \subseteq DOMAIN x2
  BY <1>1 DEF Stays, Keeps, KeepsCount, KeepsStep, KeepsMode, Kept
<1> HIDE DEF x2
<1>3. Stays(x2, x3) /\ Kept \subseteq DOMAIN x3
  BY <1>2, SetMstatusKeeps DEF Stays, Keeps, KeepsCount, KeepsStep, KeepsMode
<1> HIDE DEF x3
<1>4. Stays(x3, x4) /\ Kept \subseteq DOMAIN x4
  BY <1>3 DEF Stays, Keeps, KeepsCount, KeepsStep, KeepsMode, Kept
<1> HIDE DEF x4
<1>5. Stays(x4, SetPrivilege(x4, PRV_S))
  BY <1>4, SetPrivilegeKeeps
<1> QED BY <1>0, <1>1, <1>2, <1>3, <1>4, <1>5, StaysTrans

LEMMA TrapToMKeeps ==
  ASSUME NEW x, NEW t, NEW epc, Kept \subseteq DOMAIN x
  PROVE  Stays(x, TrapToM(x, t, epc))
<1> DEFINE x1 == SetVirt(x, FALSE)
           x2 == [x1 EXCEPT !.pc = Vector(x.mtvec, t), !.mepc = epc, !.mcause = CauseOf(t),
                       !.plain["mtval"] = MtvalOf(t.tval), !.plain["mtval2"] = t.tval2,
                       !.plain["mtinst"] = 0]
<1>0. PICK s : TrapToM(x, t, epc) = SetPrivilege(SetMstatus(x2, s), PRV_M)
  BY DEF TrapToM
<1> DEFINE x3 == SetMstatus(x2, s)
<1>1. Stays(x, x1) /\ Kept \subseteq DOMAIN x1
  BY SetVirtKeeps DEF Stays, Keeps, KeepsCount, KeepsStep, KeepsMode
<1> HIDE DEF x1
<1>2. Stays(x1, x2) /\ Kept \subseteq DOMAIN x2
  BY <1>1 DEF Stays, Keeps, KeepsCount, KeepsStep, KeepsMode, Kept
<1> HIDE DEF x2
<1>3. Stays(x2, x3) /\ Kept \subseteq DOMAIN x3
  BY <1>2, SetMstatusKeeps DEF Stays, Keeps, KeepsCount, KeepsStep, KeepsMode
<1>4. TrapToM(x, t, epc) = SetPrivilege(x3, PRV_M)
  BY <1>0
<1> HIDE DEF x3
<1>5. Stays(x3, SetPrivilege(x3, PRV_M))
  BY <1>3, SetPrivilegeKeeps
<1> QED BY <1>4, <1>1, <1>2, <1>3, <1>5, StaysTrans

LEMMA TakeTrapKeeps ==
  ASSUME NEW x, NEW t, NEW epc, Kept \subseteq DOMAIN x
  PROVE  LET y == TakeTrap(x, t, epc) IN
         Keeps(x, y) /\ (HandledIn(x, t) = "debug" \/ KeepsStep(x, y))
<1>1. HandledIn(x, t) \in {"park", "debug", "VS", "HS", "M"}
  BY DEF HandledIn
<1>2. CASE HandledIn(x, t) = "park"
  BY <1>2 DEF TakeTrap, Keeps, KeepsCount, KeepsStep, KeepsMode, Kept
<1>3. CASE HandledIn(x, t) = "debug"
  BY <1>3, EnterDebugModeKeeps DEF TakeTrap
<1>4. CASE HandledIn(x, t) = "VS"
  BY <1>4, TrapToVSKeeps DEF TakeTrap, Stays
<1>5. CASE HandledIn(x, t) = "HS"
  BY <1>5, TrapToHSKeeps DEF TakeTrap, Stays
<1>6. CASE HandledIn(x, t) = "M"
  BY <1>6, TrapToMKeeps DEF TakeTrap, Stays
<1> QED BY <1>1, <1>2, <1>3, <1>4, <1>5, <1>6

----------------------------------------------------------------------------
(* Accesses to memory.                                                     *)

\* what software does not see: the memory unit's, the devices' and the debugger's own
Unseen == {"tlb", "tlbData", "icache", "reservation", "matched", "mip"}

\* two harts that are the same to software, but for a trigger that was thrown
Alike(x, y) == DOMAIN y = DOMAIN x /\ \A f \in DOMAIN x \ Unseen : y[f] = x[f]
Same(x, y) == Alike(x, y) /\ y.matched = x.matched

\* what an access leaves of the hart it started on: a trigger may be remembered
IsResult(r) == {"h", "trap", "trig", "pa"} \subseteq DOMAIN r
Accesses(x, r) == IsResult(r) /\ Alike(x, r.h) /\ (r.trig = -1 => r.h.matched = x.matched)
Fetches(x, r) == IsResult(r) /\ Same(x, r.h)

LEMMA SameTrans ==
  ASSUME NEW x, NEW y, NEW z, Same(x, y), Same(y, z)
  PROVE  Same(x, z)
BY DEF Same, Alike

LEMMA SameKeeps ==
  ASSUME NEW x, NEW y, Kept \subseteq DOMAIN x, Same(x, y)
  PROVE  Keeps(x, y) /\ KeepsStep(x, y) /\ Kept \subseteq DOMAIN y
BY DEF Same, Alike, Unseen, Kept, Keeps, KeepsCount, KeepsStep, KeepsMode

LEMMA FlushSame ==
  ASSUME NEW x, Kept \subseteq DOMAIN x
  PROVE  Same(x, FlushIcache(x)) /\ Same(x, FlushTlb(x))
BY DEF Kept, Same, Alike, Unseen, FlushIcache, FlushTlb

LEMMA Results ==
  ASSUME NEW x, NEW y, Same(x, y), NEW trap, NEW trig, NEW pa
  PROVE  /\ Fetches(x, Done(y, pa)) /\ Fetches(x, Raises(y, trap)) /\ Fetches(x, Throws(y, trig))
         /\ Accesses(x, Done(y, pa)) /\ Accesses(x, Raises(y, trap))
         /\ Done(y, pa).h = y /\ IsDone(Done(y, pa))
BY DEF Fetches, Accesses, IsResult, Same, Done, Raises, Throws, Result, IsDone

LEMMA AccessesAfter ==
  ASSUME NEW x, NEW y, NEW r, Same(x, y), Accesses(y, r)
  PROVE  Accesses(x, r)
BY DEF Accesses, Same, Alike

LEMMA SameSelf ==
  ASSUME NEW x
  PROVE  Same(x, x)
BY DEF Same, Alike

LEMMA RefillSame ==
  ASSUME NEW x, NEW a, NEW pa, NEW type, Kept \subseteq DOMAIN x
  PROVE  Same(x, RefillTlb(x, a, pa, type))
BY DEF Same, Alike, Unseen, Kept, RefillTlb

LEMMA ParcelFetches ==
  ASSUME NEW x, NEW a, NEW bits, Kept \subseteq DOMAIN x
  PROVE  Fetches(x, FetchParcel(x, a, bits))
<1> DEFINE r == IF Hit(x, "FETCH", a) THEN Done(x, ThroughTlb(x, a)) ELSE FetchSlow(x, a)
<1>1. ASSUME NEW t PROVE Fetches(x, FetchTranslated(x, a, t))
  BY Results, RefillSame, SameSelf DEF FetchTranslated
<1>2. Fetches(x, r)
  BY <1>1, Results, SameSelf DEF FetchSlow
<1> HIDE DEF r
<1>3. \A m : Fetches(x, Throws(r.h, m))
  BY <1>2, Results DEF Fetches
<1>4. Fetches(x, FetchWatched(r, a, bits))
  BY <1>2, <1>3 DEF FetchWatched, FetchChecked
<1> QED BY <1>4 DEF FetchParcel, r

LEMMA InsnFetches ==
  ASSUME NEW x, NEW pc, NEW bits, Kept \subseteq DOMAIN x
  PROVE  Fetches(x, LoadInsn(x, pc, bits)) /\ Fetches(x, AccessIcache(x, pc, bits))
<1> DEFINE low == FetchParcel(x, pc, bits)
<1>1. Fetches(x, low)
  BY ParcelFetches
<1>2. Kept \subseteq DOMAIN low.h
  BY <1>1 DEF Fetches, Same, Alike
<1>3. Fetches(low.h, FetchParcel(low.h, pc + 2, 0))
  BY <1>2, ParcelFetches
<1>4. Fetches(x, FetchParcel(low.h, pc + 2, 0))
  BY <1>1, <1>3, SameTrans DEF Fetches
<1>5. Fetches(x, LoadInsn(x, pc, bits))
  BY <1>1, <1>4 DEF LoadInsn, UpperParcel
<1>6. ASSUME NEW r, Fetches(x, r) PROVE Fetches(x, Cached(r, pc))
  BY <1>6 DEF Cached, Fetches, IsResult, Same, Alike, Unseen, Kept
<1>7. Fetches(x, AccessIcache(x, pc, bits))
  BY <1>5, <1>6, Results, SameSelf DEF AccessIcache
<1> QED BY <1>5, <1>7

LEMMA CheckAccesses ==
  ASSUME NEW x, NEW op, NEW a, NEW data, Kept \subseteq DOMAIN x
  PROVE  Accesses(x, CheckTrigger(x, op, a, data))
<1>1. ASSUME NEW i PROVE Accesses(x, Watched(x, i))
  <2>1. CASE x.matched \/ i = -1
    BY <2>1, Results, SameSelf DEF Watched
  <2>2. CASE ~(x.matched \/ i = -1)
    <3>1. Watched(x, i) = Throws([x EXCEPT !.matched = x.mcontrol[i].timing = 1], i)
      BY <2>2 DEF Watched
    <3> QED BY <2>2, <3>1 DEF Throws, Result, Accesses, IsResult, Alike, Unseen, Kept
  <2> QED BY <2>1, <2>2
<1> QED BY <1>1 DEF CheckTrigger

LEMMA UntaggedSame ==
  ASSUME NEW x, NEW xlate, Kept \subseteq DOMAIN x
  PROVE  /\ Same(x, Untagged(x, xlate))
         /\ \A y, r : Accesses(y, r) /\ DOMAIN y = DOMAIN x => Accesses(y, LeftUntagged(r, xlate))
<1>1. ASSUME NEW y, Kept \subseteq DOMAIN y PROVE Same(y, Untagged(y, xlate))
  BY <1>1, FlushSame, SameSelf DEF Untagged
<1>2. ASSUME NEW y, NEW r, Accesses(y, r), DOMAIN y = DOMAIN x
      PROVE  Accesses(y, LeftUntagged(r, xlate))
  <2>1. Same(r.h, Untagged(r.h, xlate))
    BY <1>1, <1>2 DEF Accesses, Alike
  <2>2. CASE IsDone(r)
    <3>1. LeftUntagged(r, xlate) = [r EXCEPT !.h = Untagged(r.h, xlate)]
      BY <2>2 DEF LeftUntagged
    <3> QED BY <1>2, <2>1, <2>2, <3>1 DEF Accesses, IsResult, Same, Alike
  <2>3. CASE ~IsDone(r)
    BY <1>2, <2>3 DEF LeftUntagged
  <2> QED BY <2>2, <2>3
<1> QED BY <1>1, <1>2

LEMMA LoadAccesses ==
  ASSUME NEW x, NEW a, NEW len, NEW data, NEW xlate, Kept \subseteq DOMAIN x
  PROVE  Accesses(x, Load(x, a, len, data, xlate))
<1>1. ASSUME NEW y, Kept \subseteq DOMAIN y, DOMAIN y = DOMAIN x, NEW t
      PROVE  Accesses(y, LoadTranslated(y, a, len, data, t))
  <2> DEFINE y1 == IF t.pa \in Mem THEN RefillTlb(y, a, t.pa, "LOAD") ELSE y
             c == CheckTrigger(y1, "LOAD", a, data)
  <2>1. Same(y, y1) /\ Kept \subseteq DOMAIN y1
    BY <1>1, RefillSame, SameSelf DEF Same, Alike
  <2> HIDE DEF y1
  <2>2. Accesses(y, c)
    BY <2>1, CheckAccesses, AccessesAfter
  <2> HIDE DEF c
  <2>3. Accesses(y, LoadRead(y1, a, len, t.pa, c))
    BY <2>1, <2>2, Results DEF LoadRead
  <2>4. \A trap : Accesses(y, Raises(y, trap))
    BY Results, SameSelf
  <2> QED BY <2>3, <2>4 DEF LoadTranslated, y1, c
<1>2. ASSUME NEW y, Kept \subseteq DOMAIN y, DOMAIN y = DOMAIN x
      PROVE  Accesses(y, LoadFrom(y, a, len, data, xlate))
  <2>1. Accesses(y, CheckTrigger(y, "LOAD", a, data))
    BY <1>2, CheckAccesses
  <2>2. Accesses(y, LeftUntagged(LoadSlow(y, a, len, data, xlate), xlate))
    BY <1>1, <1>2, UntaggedSame DEF LoadSlow
  <2>3. Accesses(y, Done(y, ThroughTlb(y, a)))
    BY Results, SameSelf
  <2> QED BY <2>1, <2>2, <2>3 DEF LoadFrom, LoadWatched
<1>3. Same(x, Untagged(x, xlate))
  BY UntaggedSame
<1> QED BY <1>2, <1>3, AccessesAfter DEF Load, Same, Alike

LEMMA StoreAccesses ==
  ASSUME NEW x, NEW a, NEW len, NEW data, NEW xlate, Kept \subseteq DOMAIN x
  PROVE  Accesses(x, Store(x, a, len, data, xlate))
<1>1. ASSUME NEW y, Kept \subseteq DOMAIN y, NEW t, NEW c, Accesses(y, c)
      PROVE  Accesses(y, StoreTranslated(y, a, t, c))
  BY <1>1, Results, RefillSame, SameSelf DEF StoreTranslated
<1>2. ASSUME NEW y, NEW r, Accesses(y, r), DOMAIN y = DOMAIN x
      PROVE  Accesses(y, StoreMade(r, a, len, xlate))
  <2>1. CASE IsDone(r) /\ Misaligned(a, len)
    <3>1. StoreMade(r, a, len, xlate) = [r EXCEPT !.trap = MemTrap(6, a, 0)]
      BY <2>1 DEF StoreMade
    <3> QED BY <1>2, <2>1, <3>1 DEF Accesses, IsResult
  <2>2. CASE ~(IsDone(r) /\ Misaligned(a, len))
    BY <1>2, <2>2, UntaggedSame DEF StoreMade
  <2> QED BY <2>1, <2>2
<1>3. ASSUME NEW y, Kept \subseteq DOMAIN y, DOMAIN y = DOMAIN x
      PROVE  Accesses(y, StoreTo(y, a, len, data, xlate))
  <2> DEFINE c == CheckTrigger(y, "STORE", a, data)
  <2>1. Accesses(y, c)
    BY <1>3, CheckAccesses
  <2> HIDE DEF c
  <2>2. Accesses(y, StoreSlow(y, a, len, xlate, c))
    BY <1>1, <1>3, <2>1 DEF StoreSlow
  <2>3. Accesses(y, Done(y, ThroughTlb(y, a)))
    BY Results, SameSelf
  <2>4. Accesses(y, StoreWatched(y, a, len, xlate, c))
    BY <2>1, <2>2, <2>3 DEF StoreWatched
  <2> QED BY <1>2, <1>3, <2>4 DEF StoreTo, c
<1>4. Same(x, Untagged(x, xlate))
  BY UntaggedSame
<1> QED BY <1>3, <1>4, AccessesAfter DEF Store, Same, Alike

\* an access that is done hands the hart on
LEMMA DoneSame ==
  ASSUME NEW x, NEW r, Accesses(x, r), IsDone(r), Kept \subseteq DOMAIN x
  PROVE  Same(x, r.h) /\ Kept \subseteq DOMAIN r.h
BY DEF Accesses, IsDone, Same, Alike

LEMMA AmoAccesses ==
  ASSUME NEW x, NEW a, NEW len, NEW data, Kept \subseteq DOMAIN x
  PROVE  Accesses(x, Amo(x, a, len, data))
<1> DEFINE l == Load(x, a, len, data, "none")
<1>1. Accesses(x, l)
  BY LoadAccesses
<1> HIDE DEF l
<1>2. CASE IsDone(l)
  <2>1. Accesses(x, Store(l.h, a, len, data, "none"))
    BY <1>1, <1>2, DoneSame, StoreAccesses, AccessesAfter
  <2> QED BY <1>2, <2>1, Results, SameSelf DEF Amo, AmoLoaded, l
<1>3. CASE ~IsDone(l)
  <2>1. PICK v : AmoLoaded(l, a, len, data) = [l EXCEPT !.trap = v]
    BY <1>3 DEF AmoLoaded
  <2>2. Accesses(x, [l EXCEPT !.trap = v])
    BY <1>1 DEF Accesses, IsResult
  <2> QED BY <2>1, <2>2, Results, SameSelf DEF Amo, l
<1> QED BY <1>2, <1>3

LEMMA LoadReservedAccesses ==
  ASSUME NEW x, NEW a, NEW len, NEW data, Kept \subseteq DOMAIN x
  PROVE  Accesses(x, LoadReserved(x, a, len, data))
<1> DEFINE l == Load(x, a, len, data, "none")
<1>1. Accesses(x, l)
  BY LoadAccesses
<1> HIDE DEF l
<1>2. CASE IsDone(l)
  <2>1. Same(x, l.h) /\ Kept \subseteq DOMAIN l.h
    BY <1>1, <1>2, DoneSame
  <2>2. ASSUME NEW t PROVE Accesses(x, Reserved(l, a, t))
    <3>1. Same(l.h, RefillTlb(l.h, a, t.pa, "LOAD"))
      BY <2>1, RefillSame
    <3>2. Same(x, [RefillTlb(l.h, a, t.pa, "LOAD") EXCEPT !.reservation = t.pa])
      BY <2>1, <3>1 DEF Same, Alike, Unseen, Kept
    <3> QED BY <2>1, <3>2, Results DEF Reserved
  <2> QED BY <1>2, <2>2 DEF LoadReserved, Reserve, l
<1>3. CASE ~IsDone(l)
  BY <1>1, <1>3 DEF LoadReserved, Reserve, l
<1> QED BY <1>2, <1>3

LEMMA StoreConditionalAccesses ==
  ASSUME NEW x, NEW a, NEW len, NEW data, Kept \subseteq DOMAIN x
  PROVE  Accesses(x, StoreConditional(x, a, len, data))
<1>1. ASSUME NEW t PROVE Accesses(x, ConditionalAt(x, a, len, data, t))
  <2> DEFINE x1 == RefillTlb(x, a, t.pa, "STORE")
             s == Store(x1, a, len, data, "none")
  <2>1. Same(x, x1) /\ Kept \subseteq DOMAIN x1
    BY RefillSame DEF Same, Alike
  <2> HIDE DEF x1
  <2>2. Accesses(x, s)
    BY <2>1, StoreAccesses, AccessesAfter
  <2> HIDE DEF s
  <2>3. Accesses(x, Conditional(s))
    <3>1. CASE IsDone(s)
      <4>1. Conditional(s) = [s EXCEPT !.h = [s.h EXCEPT !.reservation = -1]]
        BY <3>1 DEF Conditional, YieldReservation
      <4> QED BY <2>2, <4>1 DEF Accesses, IsResult, Alike, Unseen, Kept
    <3>2. CASE ~IsDone(s)
      BY <2>2, <3>2 DEF Conditional
    <3> QED BY <3>1, <3>2
  <2>4. Same(x, YieldReservation(x1))
    BY <2>1 DEF YieldReservation, Same, Alike, Unseen, Kept
  <2> QED BY <2>3, <2>4, Results, SameSelf DEF ConditionalAt, s, x1
<1> QED BY <1>1, Results, SameSelf DEF StoreConditional

(* The fetch, and the stores to devices.                                   *)
LEMMA DevicesSame ==
  ASSUME NEW x, NEW insn, NEW pa, Kept \subseteq DOMAIN x
  PROVE  Same(x, DeviceWrites(x, insn, pa))
BY DEF DeviceWrites, Same, Alike, Unseen, Kept

LEMMA FetchedFetches ==
  ASSUME NEW x, NEW insn, Kept \subseteq DOMAIN x
  PROVE  Fetches(x, Fetched(x, insn))
<1>1. ASSUME NEW y, Kept \subseteq DOMAIN y PROVE Same(y, Asserted(y))
  BY <1>1 DEF Asserted, Same, Alike, Unseen, Kept
<1>2. ASSUME NEW y, NEW r, Same(x, y), Fetches(x, r) PROVE Fetches(x, Interrupted(y, r))
  BY <1>2, Results DEF Interrupted
<1>3. Fetches(x, SlowFetch(Asserted(x), insn))
  <2> DEFINE y == Asserted(x)
             r == LoadInsn(y, y.pc, insn.bits)
  <2>1. Same(x, y) /\ Kept \subseteq DOMAIN y
    BY <1>1 DEF Same, Alike
  <2> HIDE DEF y
  <2>2. Fetches(x, r)
    BY <2>1, InsnFetches, SameTrans DEF Fetches
  <2> HIDE DEF r
  <2>3. Fetches(x, Interrupted(y, r))
    BY <1>2, <2>1, <2>2
  <2> QED BY <2>3 DEF SlowFetch, r, y
<1>4. Fetches(x, FastFetch(AccessIcache(x, x.pc, insn.bits)))
  <2> DEFINE r == AccessIcache(x, x.pc, insn.bits)
             y == Asserted(r.h)
  <2>1. Fetches(x, r)
    BY InsnFetches
  <2> HIDE DEF r
  <2>2. Same(x, y)
    BY <1>1, <2>1, SameTrans DEF Fetches, Same, Alike
  <2> HIDE DEF y
  <2>3. Fetches(x, Interrupted(y, Done(y, -1)))
    BY <1>2, <2>2, Results
  <2> QED BY <2>1, <2>3 DEF FastFetch, AfterFetch, r, y
<1> QED BY <1>3, <1>4 DEF Fetched

----------------------------------------------------------------------------
(* Instructions.                                                           *)

\* what an instruction leaves: the counters, but for a trigger that was thrown
Leaves(x, r) == IsResult(r) /\ KeepsCount(x, r.h) /\ (r.trig = -1 => r.h.matched = x.matched)
\* and the state of the debugger's step
Calm(x, r) == Leaves(x, r) /\ KeepsStep(x, r.h)

LEMMA AccessCalm ==
  ASSUME NEW x, Kept \subseteq DOMAIN x, NEW r, Accesses(x, r)
  PROVE  Calm(x, r)
BY DEF Accesses, Alike, Unseen, Kept, Calm, Leaves, KeepsCount, KeepsStep, KeepsMode

LEMMA LeavesAfter ==
  ASSUME NEW x, NEW y, NEW r, Keeps(x, y), Leaves(y, r)
  PROVE  Leaves(x, r)
BY DEF Leaves, Keeps, KeepsCount

LEMMA KeepsSelf ==
  ASSUME NEW x
  PROVE  Keeps(x, x)
BY DEF Keeps, KeepsCount

LEMMA KeptResults ==
  ASSUME NEW x, NEW y, NEW trap, NEW pa
  PROVE  /\ Keeps(x, y) => Leaves(x, Done(y, pa)) /\ Leaves(x, Raises(y, trap))
         /\ Stays(x, y) => Calm(x, Done(y, pa)) /\ Calm(x, Raises(y, trap))
         /\ Done(y, pa).h = y
BY DEF Calm, Leaves, IsResult, Stays, Keeps, Done, Raises, Result

\* an instruction other than those on registers that have a write of their own
Sequels == {"next", "jump", "after", "wfi"}
Plainly(x, r) == Calm(x, r) /\ r.npc \in Sequels

LEMMA OutPlainly ==
  ASSUME NEW x, NEW r, Calm(x, r), NEW npc \in Sequels
  PROVE  Plainly(x, Out(r, npc))
BY DEF Plainly, Calm, Leaves, IsResult, Out

LEMMA KeptPlainly ==
  ASSUME NEW x, NEW y, Stays(x, y), NEW npc \in Sequels, NEW trap
  PROVE  Plainly(x, Out(Done(y, -1), npc)) /\ Plainly(x, Traps(y, trap))
<1>1. "next" \in Sequels
  BY DEF Sequels
<1> QED BY <1>1, OutPlainly, KeptResults DEF Traps

LEMMA MretPlainly ==
  ASSUME NEW x, Kept \subseteq DOMAIN x
  PROVE  Plainly(x, ExecMret(x)) /\ Stays(x, ExecMret(x).h)
<1>1. PICK s, x1 : /\ Stays(x, x1)
                   /\ x.prv < PRV_M => ExecMret(x) = Traps(x, Illegal)
                   /\ ~(x.prv < PRV_M) =>
                        ExecMret(x) = Out(Done(SetVirt(SetPrivilege(SetMstatus(x1, s), x.mstatus.MPP),
                                                       x.mstatus.MPV), -1), "after")
  <2> DEFINE s == [x.mstatus EXCEPT !.MIE = x.mstatus.MPIE, !.MPIE = TRUE, !.MPP = PRV_U]
             x1 == [x EXCEPT !.pc = Aligned(x, x.mepc)]
  <2>1. Stays(x, x1)
    BY DEF Stays, Keeps, KeepsCount, KeepsStep, KeepsMode, Kept
  <2> QED BY <2>1 DEF ExecMret
<1> DEFINE x2 == SetMstatus(x1, s)
           x3 == SetPrivilege(x2, x.mstatus.MPP)
           x4 == SetVirt(x3, x.mstatus.MPV)
<1>2. Stays(x1, x2) /\ Kept \subseteq DOMAIN x2
  BY <1>1, SetMstatusKeeps DEF Stays, Keeps, KeepsCount, KeepsStep, KeepsMode
<1>3. ~(x.prv < PRV_M) => ExecMret(x) = Out(Done(x4, -1), "after")
  BY <1>1
<1> HIDE DEF x2
<1>4. Stays(x2, x3) /\ Kept \subseteq DOMAIN x3
  BY <1>2, SetPrivilegeKeeps DEF Stays, Keeps, KeepsCount, KeepsStep, KeepsMode
<1> HIDE DEF x3
<1>5. Stays(x3, x4)
  BY <1>4, SetVirtKeeps
<1> HIDE DEF x4
<1>6. Stays(x, x4)
  BY <1>1, <1>2, <1>4, <1>5, StaysTrans
<1>7. ExecMret(x).h = IF x.prv < PRV_M THEN x ELSE x4
  BY <1>1, <1>3 DEF Traps, Out, Raises, Done, Result
<1> QED BY <1>1, <1>3, <1>6, <1>7, KeptPlainly, StaysSelf DEF Sequels

LEMMA SretPlainly ==
  ASSUME NEW x, Kept \subseteq DOMAIN x
  PROVE  Plainly(x, ExecSret(x))
<1>1. PICK s, x1 : /\ Stays(x, x1)
                   /\ \/ \E trap : ExecSret(x) = Traps(x, trap)
                      \/ ExecSret(x) = Out(Done(SetPrivilege(SetMstatus(x1, s), x.mstatus.SPP), -1), "after")
                      \/ ExecSret(x) = Out(Done(SetVirt(SetPrivilege(SetMstatus(x1, s), x.mstatus.SPP),
                                                        x.hstatus.SPV), -1), "after")
  <2> DEFINE s == [x.mstatus EXCEPT !.SIE = x.mstatus.SPIE, !.SPIE = TRUE, !.SPP = PRV_U]
             to == Aligned(x, IF x.v THEN x.vsepc ELSE x.sepc)
             x1 == [x EXCEPT !.pc = to]
  <2>1. Stays(x, x1)
    BY DEF Stays, Keeps, KeepsCount, KeepsStep, KeepsMode, Kept
  <2> QED BY <2>1 DEF ExecSret
<1> DEFINE x2 == SetMstatus(x1, s)
           x3 == SetPrivilege(x2, x.mstatus.SPP)
           x4 == SetVirt(x3, x.hstatus.SPV)
<1>2. Stays(x1, x2) /\ Kept \subseteq DOMAIN x2
  BY <1>1, SetMstatusKeeps DEF Stays, Keeps, KeepsCount, KeepsStep, KeepsMode
<1>3. \/ \E trap : ExecSret(x) = Traps(x, trap)
      \/ ExecSret(x) = Out(Done(x3, -1), "after")
      \/ ExecSret(x) = Out(Done(x4, -1), "after")
  BY <1>1
<1> HIDE DEF x2
<1>4. Stays(x2, x3) /\ Kept \subseteq DOMAIN x3
  BY <1>2, SetPrivilegeKeeps DEF Stays, Keeps, KeepsCount, KeepsStep, KeepsMode
<1> HIDE DEF x3
<1>5. Stays(x3, x4)
  BY <1>4, SetVirtKeeps
<1> HIDE DEF x4
<1>6. Stays(x, x3) /\ Stays(x, x4)
  BY <1>1, <1>2, <1>4, <1>5, StaysTrans
<1> QED BY <1>3, <1>6, KeptPlainly, StaysSelf DEF Sequels

LEMMA TrapNames == \A name : TrapNamed(name) # NoTrap /\ Illegal # NoTrap /\ VirtualInsn # NoTrap
BY DEF TrapNamed, Illegal, VirtualInsn, InsnTrap, NoTrap

\* DRET goes on where dpc says, and makes the step the debugger asked for
LEMMA DretLeaves ==
  ASSUME NEW x, Kept \subseteq DOMAIN x
  PROVE  LET r == ExecDret(x) IN
         \/ Plainly(x, r) /\ r.trap # NoTrap
         \/ /\ Leaves(x, r) /\ x.debug_mode /\ IsDone(r) /\ r.npc = "after" /\ ~r.h.debug_mode
            /\ x.dcsr.step => r.h.single_step = "STEPPING"
<1> DEFINE x1 == [x EXCEPT !.pc = Aligned(x, x.dpc)]
           x2 == SetPrivilege(x1, x.dcsr.prv)
           x3 == [x2 EXCEPT !.debug_mode = FALSE,
                            !.single_step = IF x.dcsr.step THEN "STEPPING" ELSE @]
<1>1. Keeps(x, x1) /\ Kept \subseteq DOMAIN x1
  BY DEF Keeps, KeepsCount, Kept
<1>2. ExecDret(x) = IF ~x.debug_mode THEN Traps(x, Illegal) ELSE Out(Done(x3, -1), "after")
  BY DEF ExecDret
<1> HIDE DEF x1
<1>3. Keeps(x1, x2) /\ Kept \subseteq DOMAIN x2
  BY <1>1, SetPrivilegeKeeps DEF Stays, Keeps, KeepsCount
<1> HIDE DEF x2
<1>4. Keeps(x2, x3) /\ x3.debug_mode = FALSE /\ (x.dcsr.step => x3.single_step = "STEPPING")
  BY <1>3 DEF Keeps, KeepsCount, Kept
<1> HIDE DEF x3
<1>5. Keeps(x, x3)
  BY <1>1, <1>3, <1>4, KeepsTrans
<1>6. CASE ~x.debug_mode
  <2>1. Plainly(x, Traps(x, Illegal))
    BY KeptPlainly, StaysSelf DEF Sequels
  <2>2. Traps(x, Illegal).trap # NoTrap
    BY TrapNames DEF Traps, Out, Raises, Result
  <2> QED BY <1>2, <1>6, <2>1, <2>2
<1>7. CASE ~(~x.debug_mode)
  <2>1. Leaves(x, Done(x3, -1))
    BY <1>5, KeptResults
  <2> DEFINE r == Out(Done(x3, -1), "after")
  <2>2. Leaves(x, r) /\ IsDone(r) /\ r.npc = "after" /\ r.h = x3
    BY <2>1 DEF Leaves, IsResult, Out, Done, Result, IsDone
  <2>3. ExecDret(x) = r
    BY <1>2, <1>7
  <2> HIDE DEF r
  <2> QED BY <1>4, <1>7, <2>2, <2>3
<1> QED BY <1>6, <1>7

LEMMA GuestPlainly ==
  ASSUME NEW x, NEW insn, NEW r, Calm(x, r)
  PROVE  Plainly(x, GuestAccess(x, insn, r))
BY OutPlainly, KeptPlainly, StaysSelf DEF GuestAccess, Sequels

LEMMA ExecutePlainly ==
  ASSUME NEW x, NEW insn, NEW npc, Kept \subseteq DOMAIN x, insn.op \in Operations \ {"csr", "dret"}
  PROVE  Plainly(x, Execute(x, insn, npc))
<1> USE DEF Operations, GuestOps, Sequels
<1>0. /\ \A trap : Plainly(x, Traps(x, trap))
      /\ \A y, n_ : Stays(x, y) /\ n_ \in Sequels
                    => Plainly(x, Out(Done(y, -1), n_))
  BY KeptPlainly, StaysSelf
<1>1. CASE insn.op \in {"load", "hlv", "hlvx"}
  <2>1. Execute(x, insn, npc)
          = GuestAccess(x, insn, Load(x, insn.a, insn.len, insn.data, Xlate(insn.op)))
    BY <1>1 DEF Execute
  <2> QED BY <2>1, LoadAccesses, AccessCalm, GuestPlainly
<1>2. CASE insn.op \in {"store", "hsv"}
  <2>1. Execute(x, insn, npc)
          = GuestAccess(x, insn, Store(x, insn.a, insn.len, insn.data, Xlate(insn.op)))
    BY <1>2 DEF Execute
  <2> QED BY <2>1, StoreAccesses, AccessCalm, GuestPlainly
<1>3. CASE insn.op = "amo"
  BY <1>3, AmoAccesses, AccessCalm, OutPlainly DEF Execute
<1>4. CASE insn.op = "lr"
  BY <1>4, LoadReservedAccesses, AccessCalm, OutPlainly DEF Execute
<1>5. CASE insn.op = "sc"
  BY <1>5, StoreConditionalAccesses, AccessCalm, OutPlainly DEF Execute
<1>6. CASE insn.op \in {"mret", "sret"}
  BY <1>6, MretPlainly, SretPlainly DEF Execute
<1>7. CASE insn.op \in {"ecall", "ebreak", "illegal"}
  BY <1>7, <1>0 DEF Execute, ExecEcall
<1>8. CASE insn.op = "wfi"
  <2>1. Execute(x, insn, npc) = ExecWfi(x, npc)
    BY <1>8 DEF Execute
  <2>2. Stays(x, [x EXCEPT !.pc = Aligned(x, npc)])
    BY DEF Stays, Keeps, KeepsCount, KeepsStep, KeepsMode, Kept
  <2> QED BY <1>0, <2>1, <2>2 DEF ExecWfi
<1>9. CASE insn.op \in {"sfence", "hfence", "fence_i"}
  <2>1. Execute(x, insn, npc) \in {ExecSfence(x), ExecHfence(x), Out(Done(FlushIcache(x), -1), "next")}
    BY <1>9 DEF Execute
  <2>2. Stays(x, FlushTlb(x)) /\ Stays(x, FlushIcache(x))
    BY FlushKeeps
  <2> QED BY <1>0, <2>1, <2>2 DEF ExecSfence, ExecHfence
<1>10. CASE insn.op = "jump"
  <2>1. Execute(x, insn, npc) = ExecJump(x, insn.target)
    BY <1>10 DEF Execute
  <2>2. Stays(x, [x EXCEPT !.pc = insn.target])
    BY DEF Stays, Keeps, KeepsCount, KeepsStep, KeepsMode, Kept
  <2> QED BY <1>0, <2>1, <2>2 DEF ExecJump
<1>11. CASE insn.op = "nop"
  BY <1>11, <1>0, StaysSelf DEF Execute
<1> QED BY <1>1, <1>2, <1>3, <1>4, <1>5, <1>6, <1>7, <1>8, <1>9, <1>10, <1>11

LEMMA ExecuteLeaves ==
  ASSUME NEW x, NEW insn, NEW npc, Kept \subseteq DOMAIN x, insn.op \in Operations \ {"csr"}
  PROVE  LET r == Execute(x, insn, npc) IN
         Leaves(x, r) /\ r.npc \in Sequels /\ (~IsDone(r) => KeepsStep(x, r.h))
<1>1. CASE insn.op = "dret"
  <2>1. Execute(x, insn, npc) = ExecDret(x)
    BY <1>1 DEF Execute
  <2> QED BY <2>1, DretLeaves DEF Plainly, Calm, Sequels
<1>2. CASE insn.op # "dret"
  BY <1>2, ExecutePlainly DEF Plainly, Calm
<1> QED BY <1>1, <1>2

\* the counter in the hart after an instruction on a register, but for its own increment
Counter(x, insn) ==
  IF insn.write /\ insn.csr \in {"minstret", "mcycle"} THEN insn.val - 1 ELSE x.minstret

\* what CodeAssumption says of such an instruction
Writes(insn) ==
  insn.write => /\ insn.csr \in WritableCsrs \union {"instret", "cycle"}
                /\ insn.csr \in {"minstret", "mcycle"} => insn.form = "rw" /\ insn.val \in Int

LEMMA ExecuteCsr ==
  ASSUME NEW x, NEW insn, NEW npc, Kept \subseteq DOMAIN x, insn.op = "csr", Writes(insn)
  PROVE  LET r == Execute(x, insn, npc) IN
         /\ IsResult(r) /\ DOMAIN r.h = DOMAIN x /\ r.h.matched = x.matched /\ r.trig = -1
         /\ KeepsMode(x, r.h) /\ (~IsDone(r) \/ ~Redirects(insn) => r.h.dpc = x.dpc)
         /\ ~x.serialized => r = Out(Done(x, -1), "before")
         /\ x.serialized =>
              /\ r.h.serialized = FALSE
              /\ \/ r.trap # NoTrap /\ r.h.minstret = x.minstret
                 \/ r.trap = NoTrap /\ r.npc = "after" /\ r.h.minstret = Counter(x, insn)
<1>1. Execute(x, insn, npc) = ExecCsr(x, insn, npc)
  BY DEF Execute
<1> DEFINE x1 == [x EXCEPT !.serialized = FALSE]
           x2 == IF insn.write THEN SetCsr(x1, insn.csr, Written(x1, insn)) ELSE x1
<1>2. CASE ~x.serialized
  <2>1. ExecCsr(x, insn, npc) = Out(Done(x, -1), "before")
    BY <1>2 DEF ExecCsr
  <2> QED BY <1>1, <1>2, <2>1 DEF Out, Done, Result, IsResult, KeepsMode
<1>3. CASE x.serialized
  <2>1. /\ DOMAIN x1 = DOMAIN x /\ x1.minstret = x.minstret /\ x1.matched = x.matched
        /\ x1.serialized = FALSE /\ Kept \subseteq DOMAIN x1 /\ KeepsStep(x, x1)
    BY DEF Kept, KeepsStep, KeepsMode
  <2>2. \/ \E name : ExecCsr(x, insn, npc) = Traps(x1, TrapNamed(name))
        \/ /\ ExecCsr(x, insn, npc) = Serialized(x2, npc)
           /\ AccessTrap(x, insn.csr, insn.write) = "none"
    BY <1>3 DEF ExecCsr
  <2> HIDE DEF x1
  <2>3. ASSUME NEW name, ExecCsr(x, insn, npc) = Traps(x1, TrapNamed(name))
        PROVE  LET r == Execute(x, insn, npc) IN
               /\ IsResult(r) /\ DOMAIN r.h = DOMAIN x /\ r.h.matched = x.matched /\ r.trig = -1
               /\ r.h.serialized = FALSE /\ r.trap # NoTrap /\ r.h.minstret = x.minstret
               /\ KeepsStep(x, r.h)
    BY <1>1, <2>1, <2>3
    DEF Traps, TrapNamed, VirtualInsn, Illegal, InsnTrap, NoTrap, Out, Raises, Result, IsResult
  <2>4. ASSUME ExecCsr(x, insn, npc) = Serialized(x2, npc),
               AccessTrap(x, insn.csr, insn.write) = "none"
        PROVE  LET r == Execute(x, insn, npc) IN
               /\ IsResult(r) /\ DOMAIN r.h = DOMAIN x /\ r.h.matched = x.matched /\ r.trig = -1
               /\ r.h.serialized = FALSE /\ r.trap = NoTrap /\ r.npc = "after"
               /\ r.h.minstret = Counter(x, insn)
               /\ KeepsMode(x, r.h) /\ (~Redirects(insn) => r.h.dpc = x.dpc)
    <3>1. insn.write => insn.csr \notin {"instret", "cycle"}
      BY <2>4 DEF AccessTrap
    <3>2. insn.write => insn.csr \in WritableCsrs
      BY <3>1 DEF Writes
    <3>3. /\ DOMAIN x2 = DOMAIN x /\ x2.matched = x.matched /\ x2.serialized = FALSE
          /\ x2.minstret = Counter(x, insn)
          /\ KeepsMode(x, x2) /\ (~Redirects(insn) => x2.dpc = x.dpc)
      <4>1. CASE ~insn.write
        BY <4>1, <2>1 DEF Counter, KeepsStep
      <4>2. CASE insn.write /\ insn.csr \in {"minstret", "mcycle"}
        <5>1. Written(x1, insn) = insn.val
          BY <4>2 DEF Written, csrrw, Writes
        <5>2. SetCsr(x1, insn.csr, insn.val) = [x1 EXCEPT !.minstret = insn.val - 1]
          BY <2>1, <3>2, <4>2, SetCsrKeeps
        <5>3. x2 = [x1 EXCEPT !.minstret = insn.val - 1]
          BY <4>2, <5>1, <5>2
        <5> QED BY <2>1, <4>2, <5>3 DEF Counter, Kept, KeepsStep, KeepsMode
      <4>3. CASE insn.write /\ insn.csr \notin {"minstret", "mcycle"}
        <5>1. Keeps(x1, x2) /\ KeepsMode(x1, x2) /\ (insn.csr = "dpc" \/ x2.dpc = x1.dpc)
          BY <2>1, <3>2, <4>3, SetCsrKeeps
        <5> QED BY <2>1, <4>3, <5>1 DEF Counter, Keeps, KeepsCount, KeepsStep, KeepsMode, Redirects
      <4> QED BY <4>1, <4>2, <4>3
    <3> HIDE DEF x2
    <3> QED BY <1>1, <2>4, <3>3, <2>1 DEF Serialized, Out, Done, Result, IsResult, Kept, KeepsMode
  <2> QED BY <1>3, <2>2, <2>3, <2>4 DEF KeepsStep, IsDone
<1> QED BY <1>2, <1>3

----------------------------------------------------------------------------
(* The loop.                                                               *)

\* The count is exact because an instruction that asks to start a batch is the one that runs
\* next, at its head, and a trigger is remembered no longer than one pass.
RunParts ==
  /\ program \in DOMAIN Code /\ Kept \subseteq DOMAIN h /\ ~h.matched
  /\ retry # NoInsn => retry \in Code[program] /\ retry.op = "csr"
CountParts ==
  /\ RunParts
  /\ h.minstret \in Int /\ instret \in Int /\ expect \in Int
  /\ at \in {"host", "loop"} => instret = 0
  /\ h.serialized => retry # NoInsn
  /\ Counts
CountIInv == at # "terminated" /\ ~stale => CountParts

\* a batch of k instructions has ended on the hart x
Ended(x, k) ==
  /\ DOMAIN h' = DOMAIN x /\ h'.minstret = x.minstret + k
  /\ h'.serialized = x.serialized /\ h'.matched = x.matched
  /\ instret' = 0 /\ at' \in {"loop", "host"}

LEMMA EndBatchEnds ==
  ASSUME NEW x, NEW k, NEW left, Kept \subseteq DOMAIN x, EndBatch(x, k, left)
  PROVE  Ended(x, k)
BY DEF EndBatch, Ended, Kept

LEMMA EndedKeeps ==
  ASSUME NEW x, NEW y, NEW k, Keeps(x, y), Ended(y, k)
  PROVE  Ended(x, k)
BY DEF Keeps, KeepsCount, Ended

LEMMA AfterTrapEnds ==
  ASSUME NEW x, NEW t, NEW epc, NEW k, Kept \subseteq DOMAIN x, AfterTrap(x, t, epc, k)
  PROVE  Ended(x, k) /\ retry' = NoInsn /\ stale' = (stale \/ x.serialized)
<1> DEFINE x1 == TakeTrap(x, t, epc)
           x2 == Stopped(x1)
<1>1. Keeps(x, x1) /\ Kept \subseteq DOMAIN x1
  BY TakeTrapKeeps DEF Keeps, KeepsCount
<1>2. EndBatch(x2, k, k) /\ retry' = NoInsn /\ stale' = (stale \/ x.serialized)
  BY DEF AfterTrap
<1> HIDE DEF x1
<1>3. Keeps(x1, x2)
  <2> DEFINE x3 == [x1 EXCEPT !.single_step = "NONE"]
  <2>1. Keeps(x1, x3) /\ Kept \subseteq DOMAIN x3
    BY <1>1 DEF Keeps, KeepsCount, Kept
  <2>2. x2 = EnterDebugMode(x3, "STEP") \/ x2 = x1
    BY DEF Stopped
  <2> HIDE DEF x3, x2
  <2>3. Keeps(x1, EnterDebugMode(x3, "STEP"))
    BY <2>1, EnterDebugModeKeeps, KeepsTrans
  <2> QED BY <2>2, <2>3, KeepsSelf
<1> HIDE DEF x2
<1>4. Keeps(x, x2) /\ Kept \subseteq DOMAIN x2
  BY <1>1, <1>3, KeepsTrans DEF Keeps, KeepsCount
<1> QED BY <1>2, <1>4, EndBatchEnds, EndedKeeps

LEMMA TriggerEnds ==
  ASSUME NEW x, NEW i, NEW k, NEW a, Kept \subseteq DOMAIN x, TriggerAction(x, i, k, a)
  PROVE  Ended(x, k) /\ retry' = NoInsn /\ stale' = (stale \/ x.serialized)
<1>1. PICK y : Keeps(x, y) /\ EndBatch(y, k, n)
  <2>1. Keeps(x, EnterDebugMode(x, "HWBP")) /\ \A t, epc : Keeps(x, TakeTrap(x, t, epc))
    BY EnterDebugModeKeeps, TakeTrapKeeps
  <2> QED BY <2>1 DEF TriggerAction
<1>2. Ended(x, k)
  BY <1>1, EndBatchEnds, EndedKeeps DEF Keeps, KeepsCount
<1> QED BY <1>2 DEF TriggerAction

LEMMA CountRuns ==
  ASSUME CountParts
  PROVE  RunParts
BY DEF CountParts

LEMMA RunnableCode ==
  ASSUME RunParts, NEW insn \in Runnable
  PROVE  /\ insn \in Code[program] /\ insn.op \in Operations
         /\ insn.op = "csr" => Writes(insn) /\ insn # NoInsn
<1>1. insn \in Code[program]
  BY DEF RunParts, Runnable
<1> QED BY <1>1, CodeAssumption DEF RunParts, Writes, NoInsn

LEMMA RunnableInsn ==
  ASSUME CountParts, NEW insn \in Runnable
  PROVE  h.serialized => insn.op = "csr" /\ instret = 0
BY DEF CountParts, RunParts, Runnable, Counts

\* the parts that do not change with the hart
LEMMA PartsAfter ==
  ASSUME CountParts, UNCHANGED program, NEW x, NEW k \in Int, Ended(x, k),
         Kept \subseteq DOMAIN x, x.minstret \in Int, ~x.matched,
         expect' = x.minstret + k,
         retry' # NoInsn => retry' \in Code[program] /\ retry'.op = "csr",
         x.serialized => retry' # NoInsn
  PROVE  CountParts'
BY DEF CountParts, RunParts, Counts, Ended

----------------------------------------------------------------------------
(* A pass: what comes of the fetch and of the execution.                   *)

\* a result, its hart still without the stores to devices, at an instruction of the code
Ran(insn, f, r) ==
  /\ \E s : Fetches([h EXCEPT !.single_step = s], f)
  /\ \E npc : r = Executed(f, insn, npc)

LEMMA RanFetched ==
  ASSUME RunParts, NEW insn, NEW f, NEW r, Ran(insn, f, r)
  PROVE  IsResult(f) /\ Keeps(h, f.h) /\ Kept \subseteq DOMAIN f.h
<1>1. PICK s : Fetches([h EXCEPT !.single_step = s], f)
  BY DEF Ran
<1> DEFINE g == [h EXCEPT !.single_step = s]
<1>2. Keeps(h, g) /\ Kept \subseteq DOMAIN g
  BY DEF RunParts, Keeps, KeepsCount, Kept
<1> HIDE DEF g
<1>3. Fetches(g, f)
  BY <1>1 DEF g
<1>4. Keeps(g, f.h) /\ Kept \subseteq DOMAIN f.h /\ IsResult(f)
  BY <1>2, <1>3, SameKeeps DEF Fetches
<1> QED BY <1>2, <1>4, KeepsTrans

LEMMA RanPlainly ==
  ASSUME RunParts, NEW insn \in Runnable, NEW f, NEW r, Ran(insn, f, r),
         insn.op # "csr" \/ ~IsDone(f)
  PROVE  /\ Leaves(h, r) /\ r.npc \in Sequels
         /\ ~IsDone(f) => Keeps(h, r.h) /\ ~IsDone(r)
<1>1. IsResult(f) /\ Keeps(h, f.h) /\ Kept \subseteq DOMAIN f.h
  BY RanFetched
<1>2. CASE IsDone(f)
  <2>1. insn.op \in Operations \ {"csr"}
    BY <1>2, RunnableCode
  <2>2. Leaves(f.h, r) /\ r.npc \in Sequels
    BY <1>1, <1>2, <2>1, ExecuteLeaves DEF Ran, Executed
  <2> QED BY <1>1, <1>2, <2>2, LeavesAfter
<1>3. CASE ~IsDone(f)
  <2>1. r = Out(f, "next")
    BY <1>3 DEF Ran, Executed
  <2> QED BY <1>1, <1>3, <2>1 DEF Out, Leaves, IsResult, Keeps, IsDone, Sequels
<1> QED BY <1>2, <1>3

LEMMA RanCsr ==
  ASSUME RunParts, NEW insn \in Runnable, NEW f, NEW r, Ran(insn, f, r),
         insn.op = "csr", IsDone(f)
  PROVE  /\ IsResult(r) /\ DOMAIN r.h = DOMAIN h /\ r.h.matched = h.matched /\ r.trig = -1
         /\ KeepsMode(f.h, r.h) /\ (~IsDone(r) \/ ~Redirects(insn) => r.h.dpc = f.h.dpc)
         /\ ~h.serialized => /\ Keeps(h, r.h) /\ r.trap = NoTrap /\ r.npc = "before"
         /\ h.serialized =>
              /\ r.h.serialized = FALSE
              /\ \/ r.trap # NoTrap /\ r.h.minstret = h.minstret
                 \/ r.trap = NoTrap /\ r.npc = "after" /\ r.h.minstret = Counter(h, insn)
<1>1. Keeps(h, f.h) /\ Kept \subseteq DOMAIN f.h
  BY RanFetched
<1>2. Writes(insn)
  BY RunnableCode
<1>3. PICK npc : r = Execute(f.h, insn, npc)
  BY DEF Ran, Executed
<1>4. /\ IsResult(r) /\ DOMAIN r.h = DOMAIN f.h /\ r.h.matched = f.h.matched /\ r.trig = -1
      /\ KeepsMode(f.h, r.h) /\ (~IsDone(r) \/ ~Redirects(insn) => r.h.dpc = f.h.dpc)
      /\ ~f.h.serialized => r = Out(Done(f.h, -1), "before")
      /\ f.h.serialized =>
           /\ r.h.serialized = FALSE
           /\ \/ r.trap # NoTrap /\ r.h.minstret = f.h.minstret
              \/ r.trap = NoTrap /\ r.npc = "after" /\ r.h.minstret = Counter(f.h, insn)
  <2>1. \A x : Kept \subseteq DOMAIN x =>
          LET e == Execute(x, insn, npc) IN
          /\ IsResult(e) /\ DOMAIN e.h = DOMAIN x /\ e.h.matched = x.matched /\ e.trig = -1
          /\ KeepsMode(x, e.h) /\ (~IsDone(e) \/ ~Redirects(insn) => e.h.dpc = x.dpc)
          /\ ~x.serialized => e = Out(Done(x, -1), "before")
          /\ x.serialized =>
               /\ e.h.serialized = FALSE
               /\ \/ e.trap # NoTrap /\ e.h.minstret = x.minstret
                  \/ e.trap = NoTrap /\ e.npc = "after" /\ e.h.minstret = Counter(x, insn)
    BY <1>2, ExecuteCsr
  <2> QED BY <1>1, <1>3, <2>1
<1>5. f.h.serialized = h.serialized /\ Counter(f.h, insn) = Counter(h, insn)
  BY <1>1 DEF Keeps, KeepsCount, Counter
<1>6. ~h.serialized => Keeps(h, r.h) /\ r.trap = NoTrap /\ r.npc = "before"
  BY <1>1, <1>4, <1>5 DEF Out, Done, Result
<1> QED BY <1>1, <1>4, <1>5, <1>6 DEF Keeps, KeepsCount

\* the instruction came to its end, or asked to start a batch
LEMMA AdvanceCounts ==
  ASSUME CountParts, at = "pass", NEW insn \in Runnable, NEW f, NEW r, Ran(insn, f, r),
         NEW wrote, Keeps(r.h, wrote), NEW h1, UNCHANGED program,
         IsDone(r), Advance(h1, insn, [r EXCEPT !.h = wrote])
  PROVE  CountParts'
<1> DEFINE r3 == [r EXCEPT !.h = wrote]
<1> USE DEF CountParts, RunParts
<1>1. IsResult(r) /\ DOMAIN r.h = DOMAIN h
  <2>1. CASE insn.op = "csr" /\ IsDone(f)
    BY <2>1, RanCsr, CountRuns
  <2>2. CASE ~(insn.op = "csr" /\ IsDone(f))
    BY <2>2, RanPlainly, CountRuns DEF Leaves, KeepsCount
  <2> QED BY <2>1, <2>2
<1>2. r3.h = wrote /\ r3.npc = r.npc /\ Kept \subseteq DOMAIN wrote
  BY <1>1 DEF IsResult, Keeps, KeepsCount
<1>3. retry' = IF r.npc = "before" THEN insn ELSE NoInsn
  BY <1>2 DEF Advance
<1>4. IsDone(f)
  BY RanPlainly, CountRuns
<1>5. CASE insn.op # "csr"
  <2>1. /\ Keeps(h, wrote) /\ ~h.serialized /\ r.npc \in Sequels
    BY <1>5, RanPlainly, RunnableInsn, RunnableCode, CountRuns DEF Leaves, Keeps, KeepsCount, IsDone
  <2>2. /\ h.minstret \in Int /\ wrote.minstret = h.minstret /\ ~wrote.matched /\ ~wrote.serialized
        /\ expect = h.minstret + instret
    BY <2>1 DEF Keeps, KeepsCount, Counts
  <2>3. expect' = IF r.npc = "wfi" THEN expect ELSE expect + 1
    BY <1>2, <1>5, <2>1 DEF Advance, Expected, Sequels
  <2>4. CASE r.npc = "after"
    <3>1. EndBatch(wrote, instret + 1, n)
      BY <1>2, <2>4 DEF Advance
    <3>2. Ended(wrote, instret + 1)
      BY <1>2, <3>1, EndBatchEnds
    <3> QED BY <1>2, <1>3, <2>2, <2>3, <2>4, <3>2, PartsAfter
  <2>5. CASE r.npc = "wfi"
    <3>1. EndBatch(wrote, instret, instret)
      BY <1>2, <2>5 DEF Advance
    <3>2. Ended(wrote, instret)
      BY <1>2, <3>1, EndBatchEnds
    <3> QED BY <1>2, <1>3, <2>2, <2>3, <2>5, <3>2, PartsAfter
  <2>6. CASE r.npc \in {"next", "jump"}
    <3> DEFINE y == Advanced(h1, r3)
    <3>1. Keeps(wrote, y) /\ Kept \subseteq DOMAIN y
      BY <1>2 DEF Advanced, Keeps, KeepsCount, Kept
    <3>2. \/ h' = y /\ instret' = instret + 1 /\ at' = at /\ at = "pass"
          \/ EndBatch(y, instret + 1, n)
      BY <1>2, <2>6 DEF Advance
    <3> HIDE DEF y
    <3>3. CASE EndBatch(y, instret + 1, n)
      <4>1. Ended(wrote, instret + 1)
        BY <3>1, <3>3, EndBatchEnds, EndedKeeps
      <4> QED BY <1>2, <1>3, <2>2, <2>3, <2>6, <4>1, PartsAfter
    <3>4. CASE h' = y /\ instret' = instret + 1 /\ at' = at /\ at = "pass"
      BY <1>3, <2>2, <2>3, <2>6, <3>1, <3>4 DEF Keeps, KeepsCount, Counts
    <3> QED BY <3>2, <3>3, <3>4
  <2> QED BY <2>1, <2>4, <2>5, <2>6 DEF Sequels
<1>6. CASE insn.op = "csr" /\ ~h.serialized
  <2>1. Keeps(h, wrote) /\ r.npc = "before"
    BY <1>4, <1>6, RanCsr, CountRuns, KeepsTrans
  <2> DEFINE y == [wrote EXCEPT !.serialized = TRUE]
  <2>2. EndBatch(y, instret, n)
    BY <1>2, <2>1 DEF Advance
  <2>3. Kept \subseteq DOMAIN y /\ y.minstret = h.minstret /\ y.matched = h.matched
    BY <1>2, <2>1 DEF Keeps, KeepsCount, Kept
  <2> HIDE DEF y
  <2>4. Ended(y, instret)
    BY <2>2, <2>3, EndBatchEnds
  <2>5. expect' = expect
    BY <1>2, <2>1 DEF Advance, Expected
  <2>6. retry' = insn /\ insn \in Code[program] /\ insn # NoInsn
    BY <1>3, <1>6, <2>1, RunnableInsn, RunnableCode, CountRuns
  <2> QED BY <1>6, <2>3, <2>4, <2>5, <2>6, PartsAfter DEF Counts
<1>7. CASE insn.op = "csr" /\ h.serialized
  <2>1. /\ r.npc = "after" /\ r.h.minstret = Counter(h, insn) /\ r.h.serialized = FALSE
        /\ r.h.matched = h.matched
    BY <1>4, <1>7, RanCsr, CountRuns DEF IsDone
  <2>2. /\ wrote.minstret = Counter(h, insn) /\ wrote.serialized = FALSE /\ ~wrote.matched
    BY <2>1 DEF Keeps, KeepsCount
  <2>3. instret = 0 /\ expect = h.minstret /\ Writes(insn)
    BY <1>7, RunnableInsn, RunnableCode, CountRuns DEF Counts
  <2>4. EndBatch(wrote, 1, n)
    BY <1>2, <2>1, <2>3 DEF Advance
  <2>5. Ended(wrote, 1)
    BY <1>2, <2>4, EndBatchEnds
  <2>6. expect' = wrote.minstret + 1 /\ wrote.minstret \in Int
    <3>1. expect' = IF insn.write /\ insn.csr \in {"minstret", "mcycle"} THEN insn.val ELSE expect + 1
      BY <1>2, <1>7, <2>1 DEF Advance, Expected
    <3> QED BY <2>2, <2>3, <3>1 DEF Counter, Writes
  <2> QED BY <1>2, <1>3, <2>1, <2>2, <2>5, <2>6, PartsAfter
<1> QED BY <1>5, <1>6, <1>7

\* a trigger fired
LEMMA TriggeredCounts ==
  ASSUME CountParts, NEW insn \in Runnable, NEW f, NEW r, Ran(insn, f, r), UNCHANGED program,
         r.trig # -1, Triggered(r.h, insn, r.trig), at' # "terminated", ~stale, ~stale'
  PROVE  CountParts'
<1>1. insn.op # "csr" \/ ~IsDone(f)
  BY RanCsr, CountRuns
<1>2. KeepsCount(h, r.h) /\ Kept \subseteq DOMAIN r.h
  BY <1>1, RanPlainly, CountRuns DEF Leaves, KeepsCount, CountParts, RunParts
<1> DEFINE a == IF insn.op \in {"load", "store", "amo", "lr", "sc", "hlv", "hsv"}
                THEN insn.a ELSE r.h.pc
<1>3. h.minstret \in Int /\ instret \in Int /\ expect = h.minstret + instret
  BY DEF CountParts, RunParts, Counts
<1>4. CASE ~r.h.matched
  <2>1. TriggerAction(r.h, r.trig, instret, a) /\ expect' = expect
    BY <1>4 DEF Triggered
  <2>2. Ended(r.h, instret) /\ retry' = NoInsn /\ ~r.h.serialized
    BY <1>2, <2>1, TriggerEnds
  <2> QED BY <1>2, <1>3, <1>4, <2>1, <2>2, PartsAfter DEF KeepsCount
<1>5. CASE r.h.matched
  <2>1. IsDone(f) /\ insn.op \in Operations \ {"csr"}
    BY <1>1, <1>5, RanPlainly, RunnableInsn, RunnableCode, CountRuns DEF Keeps, CountParts, RunParts
  <2>2. PICK again, e : /\ again = LoadInsn(r.h, r.h.pc, insn.bits)
                        /\ e = Execute(again.h, insn, (r.h.pc + 4) % 2^XBits)
                        /\ TriggerAction([DeviceWrites(Advanced(r.h, e), insn, e.pa) EXCEPT !.matched = FALSE],
                                         r.trig, instret + 1, a)
                        /\ expect' = expect + 1
    BY <1>5 DEF Triggered
  <2>3. Keeps(r.h, again.h) /\ Kept \subseteq DOMAIN again.h
    BY <1>2, <2>2, InsnFetches, SameKeeps DEF Fetches
  <2>4. KeepsCount(again.h, e.h)
    BY <2>1, <2>2, <2>3, ExecuteLeaves DEF Leaves
  <2> DEFINE y == Advanced(r.h, e)
             z == DeviceWrites(y, insn, e.pa)
             w == [z EXCEPT !.matched = FALSE]
  <2>5. Keeps(e.h, y) /\ Kept \subseteq DOMAIN y
    BY <2>3, <2>4 DEF Advanced, Keeps, KeepsCount, Kept
  <2> HIDE DEF y
  <2>6. Keeps(y, z) /\ Kept \subseteq DOMAIN z
    BY <2>5, DevicesSame, SameKeeps
  <2> HIDE DEF z
  <2>7. /\ Kept \subseteq DOMAIN w /\ w.minstret = z.minstret /\ w.serialized = z.serialized
        /\ ~w.matched
    BY <2>6 DEF Kept
  <2>8. TriggerAction(w, r.trig, instret + 1, a)
    BY <2>2 DEF z, y
  <2> HIDE DEF w
  <2>9. Ended(w, instret + 1) /\ retry' = NoInsn /\ ~w.serialized
    BY <2>7, <2>8, TriggerEnds
  <2>10. w.minstret = h.minstret
    BY <1>2, <2>3, <2>4, <2>5, <2>6, <2>7 DEF Keeps, KeepsCount
  <2> QED BY <1>3, <2>2, <2>7, <2>9, <2>10, PartsAfter
<1> QED BY <1>4, <1>5

\* the fetch or the instruction trapped
LEMMA TrappedCounts ==
  ASSUME CountParts, NEW insn \in Runnable, NEW f, NEW r, Ran(insn, f, r), UNCHANGED program,
         NEW wrote, Keeps(r.h, wrote), NEW epc, r.trig = -1, r.trap # NoTrap,
         AfterTrap(wrote, r.trap, epc, instret), expect' = expect, ~stale, ~stale'
  PROVE  CountParts'
<1>1. h.minstret \in Int /\ instret \in Int /\ expect = h.minstret + instret /\ ~h.matched
      /\ Kept \subseteq DOMAIN h
  BY DEF CountParts, RunParts, Counts
<1>2. /\ DOMAIN r.h = DOMAIN h /\ r.h.minstret = h.minstret /\ r.h.matched = h.matched
  <2>1. CASE insn.op = "csr" /\ IsDone(f)
    BY <2>1, RanCsr, CountRuns
  <2>2. CASE ~(insn.op = "csr" /\ IsDone(f))
    BY <2>2, RanPlainly, CountRuns DEF Leaves, KeepsCount
  <2> QED BY <2>1, <2>2
<1>3. /\ Kept \subseteq DOMAIN wrote /\ wrote.minstret = h.minstret /\ ~wrote.matched
  BY <1>1, <1>2 DEF Keeps, KeepsCount
<1>4. Ended(wrote, instret) /\ retry' = NoInsn /\ ~wrote.serialized
  BY <1>3, AfterTrapEnds
<1> QED BY <1>1, <1>3, <1>4, PartsAfter

\* what a pass of the loop runs, and how it goes on
\* a pass whose fetch is f and whose execution r, a device having seen what was written
Passed(insn, h1, f, r, wrote) ==
  /\ h1 = [h EXCEPT !.single_step = IF @ = "STEPPING" THEN "STEPPED" ELSE @]
  /\ Fetches(h1, f) /\ Ran(insn, f, r) /\ Kept \subseteq DOMAIN r.h /\ Same(r.h, wrote)
  /\ \/ r.trig # -1 /\ Triggered(r.h, insn, r.trig)
     \/ /\ r.trig = -1 /\ r.trap # NoTrap
        /\ AfterTrap(wrote, r.trap, h1.pc, instret) /\ expect' = expect
     \/ IsDone(r) /\ Advance(h1, insn, [r EXCEPT !.h = wrote])

LEMMA PassRan ==
  ASSUME RunParts, NEW insn \in Runnable, Pass(insn)
  PROVE  \E h1, f, r, wrote : Passed(insn, h1, f, r, wrote)
<1>1. PICK h1, f, r, wrote :
        /\ h1 = [h EXCEPT !.single_step = IF @ = "STEPPING" THEN "STEPPED" ELSE @]
        /\ f = Fetched(h1, insn)
        /\ r = Executed(f, insn, (h1.pc + 4) % 2^XBits)
        /\ wrote = DeviceWrites(r.h, insn, r.pa)
        /\ \/ r.trig # -1 /\ Triggered(r.h, insn, r.trig)
           \/ /\ r.trig = -1 /\ r.trap # NoTrap
              /\ AfterTrap(wrote, r.trap, h1.pc, instret) /\ expect' = expect
           \/ IsDone(r) /\ Advance(h1, insn, [r EXCEPT !.h = wrote])
  BY DEF Pass, IsDone
<1>2. Kept \subseteq DOMAIN h1
  BY <1>1 DEF Kept, RunParts
<1>3. Fetches(h1, f)
  BY <1>1, <1>2, FetchedFetches
<1>4. Ran(insn, f, r)
  BY <1>1, <1>3 DEF Ran
<1>5. Kept \subseteq DOMAIN r.h
  <2>1. DOMAIN r.h = DOMAIN h
    <3>1. CASE insn.op = "csr" /\ IsDone(f)
      BY <1>4, <3>1, RanCsr
    <3>2. CASE ~(insn.op = "csr" /\ IsDone(f))
      BY <1>4, <3>2, RanPlainly DEF Leaves, KeepsCount
    <3> QED BY <3>1, <3>2
  <2> QED BY <2>1 DEF RunParts
<1>6. Same(r.h, wrote)
  BY <1>1, <1>5, DevicesSame
<1>7. Passed(insn, h1, f, r, wrote)
  BY <1>1, <1>3, <1>4, <1>5, <1>6 DEF Passed
<1> QED BY <1>7

LEMMA PassCounts ==
  ASSUME CountParts, NEW insn \in Runnable, Pass(insn), at' # "terminated", ~stale, ~stale'
  PROVE  CountParts'
<1>1. at = "pass" /\ UNCHANGED program
  BY DEF Pass
<1>2. PICK h1, f, r, wrote : Passed(insn, h1, f, r, wrote)
  BY PassRan, CountRuns
<1>3. Keeps(r.h, wrote)
  BY <1>2, SameKeeps DEF Passed
<1>4. CASE r.trig # -1 /\ Triggered(r.h, insn, r.trig)
  BY <1>1, <1>2, <1>4, TriggeredCounts DEF Passed
<1>5. CASE /\ r.trig = -1 /\ r.trap # NoTrap
           /\ AfterTrap(wrote, r.trap, h1.pc, instret) /\ expect' = expect
  BY <1>1, <1>2, <1>3, <1>5, TrappedCounts DEF Passed
<1>6. CASE IsDone(r) /\ Advance(h1, insn, [r EXCEPT !.h = wrote])
  BY <1>1, <1>2, <1>3, <1>6, AdvanceCounts DEF Passed
<1> QED BY <1>2, <1>4, <1>5, <1>6 DEF Passed

LEMMA StaleStays ==
  ASSUME NEW insn, Pass(insn), ~stale'
  PROVE  ~stale
<1>1. PICK x, y, z, t, e, epc, i :
        \/ Triggered(x, insn, i)
        \/ AfterTrap(x, t, epc, instret)
        \/ Advance(y, insn, z)
  BY DEF Pass
<1>2. ASSUME Triggered(x, insn, i) PROVE ~stale
  BY <1>2 DEF Triggered, TriggerAction
<1>3. ASSUME AfterTrap(x, t, epc, instret) PROVE ~stale
  BY <1>3 DEF AfterTrap
<1>4. ASSUME Advance(y, insn, z) PROVE ~stale
  BY <1>4 DEF Advance
<1> QED BY <1>1, <1>2, <1>3, <1>4

LEMMA StepCounts ==
  ASSUME CountIInv, [HartNext]_vars
  PROVE  CountIInv'
<1> SUFFICES ASSUME at' # "terminated", ~stale' PROVE CountParts'
  BY DEF CountIInv
<1>1. CASE UNCHANGED vars
  BY <1>1 DEF vars, CountIInv, CountParts, RunParts, Counts
<1>2. CASE BeginStep
  <2>1. CountParts /\ instret = 0 /\ instret' = 0 /\ UNCHANGED <<program, expect>>
    BY <1>2 DEF BeginStep, CountIInv, CountParts
  <2>2. \/ h' = EnterDebugMode(h, HaltCause) /\ retry' = NoInsn /\ ~h.serialized
        \/ h' = h /\ retry' = retry
    BY <1>2 DEF BeginStep
  <2>3. Keeps(h, h')
    BY <2>1, <2>2, EnterDebugModeKeeps, KeepsSelf DEF CountParts, RunParts
  <2> QED BY <2>1, <2>2, <2>3 DEF CountParts, RunParts, Counts, Keeps, KeepsCount
<1>3. CASE LoopHead
  <2>1. CountParts /\ instret = 0 /\ UNCHANGED <<program, expect>>
    BY <1>3 DEF LoopHead, CountIInv, CountParts, RunParts, AfterTrap
  <2>2. CASE InterruptTrap(h) # NoTrap
    <3>1. AfterTrap(h, InterruptTrap(h), h.pc, 0)
      BY <1>3, <2>2 DEF LoopHead
    <3>2. Ended(h, 0) /\ retry' = NoInsn /\ ~h.serialized
      BY <2>1, <3>1, AfterTrapEnds DEF CountParts, RunParts
    <3> QED BY <2>1, <3>2, PartsAfter DEF CountParts, RunParts, Counts
  <2>3. CASE ~(InterruptTrap(h) # NoTrap)
    BY <1>3, <2>1, <2>3 DEF LoopHead, CountParts, RunParts, Counts
  <2> QED BY <2>2, <2>3
<1>4. CASE StepMade
  <2>1. CountParts /\ UNCHANGED <<program, expect, retry>>
    BY <1>4 DEF StepMade, CountIInv
  <2> DEFINE x == [h EXCEPT !.single_step = "NONE"]
  <2>2. Keeps(h, x) /\ Kept \subseteq DOMAIN x
    BY <2>1 DEF Keeps, KeepsCount, Kept, CountParts, RunParts
  <2>3. EndBatch(EnterDebugMode(x, "STEP"), instret, n) \/ EndBatch(x, instret, n)
    BY <1>4 DEF StepMade
  <2> HIDE DEF x
  <2>4. Keeps(h, EnterDebugMode(x, "STEP"))
    BY <2>2, EnterDebugModeKeeps, KeepsTrans
  <2>5. Ended(h, instret)
    BY <2>1, <2>2, <2>3, <2>4, EndBatchEnds, EndedKeeps DEF Keeps, KeepsCount, CountParts, RunParts
  <2> QED BY <2>1, <2>5, PartsAfter DEF CountParts, RunParts, Counts
<1>5. ASSUME NEW insn \in Runnable, Pass(insn) PROVE CountParts'
  <2>1. at = "pass" /\ ~stale
    <3>1. at = "pass"
      BY <1>5 DEF Pass
    <3>2. ~stale
      BY <1>5, StaleStays
    <3> QED BY <3>1, <3>2
  <2> QED BY <1>5, <2>1, PassCounts DEF CountIInv
<1>6. ASSUME NEW i \in Lines[program], SetLine(i) PROVE CountParts'
  <2>1. CountParts
    BY <1>6 DEF SetLine, CountIInv
  <2>2. Keeps(h, h')
    BY <1>6, <2>1 DEF SetLine, Keeps, KeepsCount, Kept, CountParts, RunParts
  <2> QED BY <1>6, <2>1, <2>2 DEF SetLine, CountParts, RunParts, Counts, Keeps, KeepsCount
<1>7. ASSUME NEW kind \in HaltKinds[program], RequestHalt(kind) PROVE CountParts'
  BY <1>7 DEF RequestHalt, CountIInv, CountParts, RunParts, Counts
<1>8. CASE SwitchHart
  <2>1. CountParts
    BY <1>8 DEF SwitchHart, CountIInv
  <2>2. Keeps(h, h')
    BY <1>8, <2>1 DEF SwitchHart, YieldReservation, Keeps, KeepsCount, Kept, CountParts, RunParts
  <2> QED BY <1>8, <2>1, <2>2 DEF SwitchHart, CountParts, RunParts, Counts, Keeps, KeepsCount
<1> QED BY <1>1, <1>2, <1>3, <1>4, <1>5, <1>6, <1>7, <1>8 DEF HartNext

----------------------------------------------------------------------------
(* The hart a program starts on: out of reset, then whatever registers its *)
(* boot code wrote.                                                        *)
Ready(x) == /\ Kept \subseteq DOMAIN x /\ x.minstret \in Int
            /\ ~x.serialized /\ ~x.matched
HartSpec == /\ \E x : \E code \in DOMAIN Code : Ready(x) /\ HartInit(x, code)
            /\ [][HartNext]_vars

\* what is kept of a hart that is ready is ready
LEMMA ReadyKept ==
  ASSUME NEW x, NEW y, Ready(x), Keeps(x, y)
  PROVE  Ready(y)
BY DEF Ready, Keeps, KeepsCount

\* processor_t::reset, with or without a halt asked for out of reset
LEMMA ResetReady ==
  ASSUME NEW haltOnReset \in BOOLEAN
  PROVE  Ready(Reset(haltOnReset))
<1> DEFINE h0 == [StateReset EXCEPT !.mideleg = IF "H" \in MaxIsa THEN HSInts ELSE {},
                                    !.dcsr.halt = haltOnReset]
           h1 == SetMstatus(h0, h0.mstatus)
           h2 == SetPmpAddr(h1, 1, 2^(PaddrBits - PmpShift) - 1)
           h3 == SetPmpCfg(h2, [i \in 1..NPmp |-> IF i = 1 THEN AllOfMemory ELSE PmpOff])
<1>1. Reset(haltOnReset) = IF NPmp = 0 THEN h1 ELSE h3
  BY DEF Reset
<1>2. Ready(h0)
  BY DEF StateReset, Ready, Kept
<1> HIDE DEF h0
<1>3. Ready(h1)
  BY <1>2, SetMstatusKeeps, ReadyKept DEF Ready, Stays
<1> HIDE DEF h1
<1>4. Ready(h2)
  BY <1>3, PmpKeeps, ReadyKept DEF Ready, Stays
<1> HIDE DEF h2
<1>5. Ready(h3)
  <2>1. \A val : Keeps(h2, SetPmpCfg(h2, val))
    BY <1>4, PmpKeeps DEF Ready, Stays
  <2> QED BY <1>4, <2>1, ReadyKept
<1> QED BY <1>1, <1>3, <1>5

\* the boot code's writes of registers
LEMMA WriteReady ==
  ASSUME NEW x, NEW which \in WritableCsrs, NEW val, Ready(x),
         which \in {"minstret", "mcycle"} => val \in Int
  PROVE  Ready(SetCsr(x, which, val))
<1>1. CASE which \in {"minstret", "mcycle"}
  <2>1. SetCsr(x, which, val) = [x EXCEPT !.minstret = val - 1]
    BY <1>1, SetCsrKeeps DEF Ready
  <2> QED BY <1>1, <2>1 DEF Ready, Kept
<1>2. CASE which \notin {"minstret", "mcycle"}
  BY <1>2, SetCsrKeeps, ReadyKept DEF Ready
<1> QED BY <1>1, <1>2

\* the MRET that ends the boot code
LEMMA MretReady ==
  ASSUME NEW x, Ready(x)
  PROVE  Ready(ExecMret(x).h)
BY MretPlainly, ReadyKept DEF Ready, Stays

LEMMA InitCounts ==
  ASSUME NEW x, NEW code \in DOMAIN Code, Ready(x), HartInit(x, code)
  PROVE  CountIInv
BY DEF HartInit, Ready, CountIInv, CountParts, RunParts, Counts

(* The strengthening of RetiredCounted is kept by every step of a hart: the*)
(* pass that asks to start a batch and the one that then runs at its head, *)
(* the trap and the trigger that end a batch, and the interrupts, halts and*)
(* switches of the simulator between two calls of processor_t::step.       *)
THEOREM CountInductive == HartSpec => []CountIInv
<1>1. (\E x : \E code \in DOMAIN Code : Ready(x) /\ HartInit(x, code)) => CountIInv
  BY InitCounts
<1>2. CountIInv /\ [HartNext]_vars => CountIInv'
  BY StepCounts
<1> QED BY <1>1, <1>2, PTL DEF HartSpec

(* minstret counts every instruction that came to its end exactly once: a  *)
(* batch of processor_t::step adds what it retired when it ends, whichever *)
(* way it ends, a write of the counter takes the place of the increment of *)
(* the instruction that makes it, and a CSR instruction sees no instruction*)
(* of its batch still uncounted.  For any program, any set of interrupts,  *)
(* triggers and halts, any number of steps and any memory, page table and  *)
(* size of the caches.                                                     *)
THEOREM RetiredAlwaysCounted == HartSpec => []RetiredCounted
<1>1. CountIInv => RetiredCounted
  BY DEF CountIInv, CountParts, RunParts, RetiredCounted
<1> QED BY <1>1, CountInductive, PTL

----------------------------------------------------------------------------
(* Privilege.                                                              *)

\* what the properties on privilege look at
Soft == {"pc", "prv", "v", "misa", "debug_mode", "dcsr", "mstatus", "vsstatus", "hstatus", "plain",
         "mepc", "mcause", "mtvec", "mie", "medeleg", "mideleg", "sepc", "stvec", "satp", "scause",
         "hideleg", "hedeleg", "hgatp", "vsepc", "pmpcfg", "pmpaddr"}
StatusNames == MachineFields \union SupFields
PlainNames == {"stval", "sscratch", "htval", "mtval", "mscratch"}

\* a hart has these registers, with these fields
Shaped(x) ==
  /\ Soft \subseteq DOMAIN x
  /\ StatusNames \subseteq DOMAIN x.mstatus /\ StatusNames \subseteq DOMAIN x.vsstatus
  /\ "SPV" \in DOMAIN x.hstatus /\ "prv" \in DOMAIN x.dcsr /\ PlainNames \subseteq DOMAIN x.plain

\* of those, only the registers in fs are changed
Only(x, y, fs) == DOMAIN y = DOMAIN x /\ \A f \in Soft \ fs : y[f] = x[f]
Quiet(x, y) == Only(x, y, {"pc"})

----------------------------------------------------------------------------
LEMMA SameQuiet ==
  ASSUME NEW x, NEW y, Shaped(x), Alike(x, y)
  PROVE  Quiet(x, y) /\ Only(x, y, {})
BY DEF Alike, Unseen, Quiet, Only, Soft, Shaped

LEMMA QuietTrans ==
  ASSUME NEW x, NEW y, NEW z, Quiet(x, y), Quiet(y, z)
  PROVE  Quiet(x, z)
BY DEF Quiet, Only

LEMMA QuietShaped ==
  ASSUME NEW x, NEW y, Quiet(x, y), Shaped(x)
  PROVE  Shaped(y)
BY DEF Quiet, Only, Shaped, Soft

LEMMA FlushOnly ==
  ASSUME NEW x, Shaped(x)
  PROVE  Only(x, FlushTlb(x), {})
BY DEF Only, Soft, Shaped, FlushTlb, FlushIcache

LEMMA SetPrivilegeOnly ==
  ASSUME NEW x, NEW prv, Shaped(x)
  PROVE  LET y == SetPrivilege(x, prv) IN
         Only(x, y, {"prv"}) /\ y.prv = LegalPrivilege(x, prv) /\ Shaped(y)
<1> DEFINE x1 == FlushTlb(x)
<1>1. Only(x, x1, {})
  BY FlushOnly
<1>2. SetPrivilege(x, prv) = [x1 EXCEPT !.prv = LegalPrivilege(x, prv)]
  BY DEF SetPrivilege
<1> HIDE DEF x1
<1> QED BY <1>1, <1>2 DEF Only, Soft, Shaped

\* mstatus after a write of val
StatusSet(x, val, f) ==
  IF f = "MPP" THEN LegalPrivilege(x, val.MPP)
  ELSE IF f \in StatusFields(x) THEN val[f] ELSE x.mstatus[f]

LEMMA SetMstatusOnly ==
  ASSUME NEW x, NEW val, Shaped(x)
  PROVE  LET y == SetMstatus(x, val) IN
         /\ Only(x, y, {"mstatus"}) /\ Shaped(y)
         /\ \A f \in StatusNames : y.mstatus[f] = StatusSet(x, val, f)
<1> DEFINE flushed == IF \E f \in {"MPP", "MPRV", "SUM", "MXR"} : val[f] # x.mstatus[f]
                      THEN FlushTlb(x) ELSE x
           written == Fields(x.mstatus, val, StatusFields(x))
<1>1. Only(x, flushed, {})
  BY FlushOnly DEF Only
<1> HIDE DEF flushed
<1>2. PICK fs : SetMstatus(x, val)
                  = [flushed EXCEPT !.mstatus =
                       WithSd([written EXCEPT !.MPP = LegalPrivilege(x, val.MPP), !.FS = fs])]
  BY DEF SetMstatus, flushed
<1>3. /\ DOMAIN written = DOMAIN x.mstatus
      /\ \A f \in DOMAIN x.mstatus :
           written[f] = IF f \in StatusFields(x) THEN val[f] ELSE x.mstatus[f]
  BY DEF Fields
<1> HIDE DEF written
<1> DEFINE s == WithSd([written EXCEPT !.MPP = LegalPrivilege(x, val.MPP), !.FS = fs])
<1>4. /\ DOMAIN s = DOMAIN x.mstatus
      /\ \A f \in StatusNames : s[f] = StatusSet(x, val, f)
  BY <1>3 DEF WithSd, StatusSet, StatusNames, MachineFields, SupFields, Shaped
<1>5. SetMstatus(x, val) = [flushed EXCEPT !.mstatus = s]
  BY <1>2
<1> HIDE DEF s
<1> QED BY <1>1, <1>4, <1>5 DEF Only, Soft, Shaped

LEMMA SetVirtOnly ==
  ASSUME NEW x, NEW virt, Shaped(x), x.v \in BOOLEAN
  PROVE  LET y == SetVirt(x, virt) IN
         IF x.prv = PRV_M \/ x.v = virt THEN y = x
         ELSE /\ Only(x, y, {"mstatus", "vsstatus", "v"}) /\ Shaped(y) /\ y.v = virt
              /\ \A f \in SupFields : y.mstatus[f] = x.vsstatus[f] /\ y.vsstatus[f] = x.mstatus[f]
              /\ \A f \in MachineFields : y.mstatus[f] = x.mstatus[f]
<1> DEFINE s == x.mstatus
           synced == [x.vsstatus EXCEPT !.FS = IF s.FS = 3 THEN 3 ELSE @,
                                        !.VS = IF s.VS = 3 THEN 3 ELSE @,
                                        !.SD = @ \/ s.FS = 3 \/ s.VS = 3]
           other == IF x.v THEN synced ELSE x.vsstatus
           a == Fields(x.mstatus, other, VsstatusFields(x))
           b == Fields(StatusZero, x.mstatus, VsstatusFields(x))
<1>1. CASE x.prv = PRV_M \/ x.v = virt
  BY <1>1 DEF SetVirt
<1>2. CASE ~(x.prv = PRV_M \/ x.v = virt)
  <2>1. SetVirt(x, virt) = [x EXCEPT !.mstatus = a, !.vsstatus = b, !.v = virt]
    BY <1>2 DEF SetVirt
  <2>2. \A f \in SupFields : other[f] = x.vsstatus[f] /\ f \in VsstatusFields(x)
    BY DEF SupFields, VsstatusFields, Shaped, StatusNames
  <2>3. \A f \in MachineFields : f \notin VsstatusFields(x)
    BY DEF MachineFields, VsstatusFields
  <2> HIDE DEF other
  <2>4. /\ DOMAIN a = DOMAIN x.mstatus
        /\ \A f \in SupFields : a[f] = x.vsstatus[f]
        /\ \A f \in MachineFields : a[f] = x.mstatus[f]
    BY <2>2, <2>3 DEF Fields, Shaped, StatusNames
  <2>5. StatusNames \subseteq DOMAIN b /\ \A f \in SupFields : b[f] = x.mstatus[f]
    <3>1. StatusNames \subseteq DOMAIN StatusZero
      BY DEF StatusZero, StatusNames, MachineFields, SupFields
    <3> QED BY <2>2, <3>1 DEF Fields, StatusNames
  <2> HIDE DEF a, b
  <2> DEFINE y == SetVirt(x, virt)
  <2>6. y.mstatus = a /\ y.vsstatus = b /\ y.v = virt /\ Only(x, y, {"mstatus", "vsstatus", "v"})
    BY <2>1 DEF Only, Soft, Shaped
  <2> HIDE DEF y
  <2>7. Shaped(y)
    BY <2>4, <2>5, <2>6 DEF Only, Soft, Shaped
  <2> QED BY <1>2, <2>4, <2>5, <2>6, <2>7 DEF y
<1> QED BY <1>1, <1>2

----------------------------------------------------------------------------
\* modes that exist, fields within their width; in debug mode the hart is in M, and a guest
\* only runs where there are guests
Legal(x) ==
  /\ x.prv \in 0..3 /\ LegalPrivilege(x, x.prv) = x.prv
  /\ x.mstatus.MPP \in 0..3 /\ LegalPrivilege(x, x.mstatus.MPP) = x.mstatus.MPP
  /\ x.mstatus.SPP \in 0..1 /\ x.vsstatus.SPP \in 0..1 /\ x.dcsr.prv \in 0..3
  /\ x.debug_mode => x.prv = PRV_M
  /\ x.v \in BOOLEAN /\ x.mstatus.MPV \in BOOLEAN /\ x.hstatus.SPV \in BOOLEAN
  /\ x.v => HasMpv(x)
  /\ x.mstatus.MPV => HasMpv(x)
  /\ x.hstatus.SPV => Has(x, "H")
  /\ Has(x, "H") <=> "H" \in MaxIsa
Sound(x) == Shaped(x) /\ Legal(x)

\* the context each mode has put aside is still where its handler will look for it
GuestStatus(x) == IF x.v THEN x.mstatus ELSE x.vsstatus
SavedM(f, x) ==
  /\ x.prv = PRV_M /\ (x.debug_mode => x.dcsr.prv = PRV_M)
  /\ x.mepc = f.pc /\ x.mstatus.MPP = f.prv /\ x.mstatus.MPIE = f.ie /\ x.mstatus.MPV = f.v
  /\ IF f.v /\ f.prv # PRV_M THEN ~x.v /\ SupView(x.vsstatus) = f.sup
     ELSE x.v = f.v /\ SupView(x.mstatus) = f.sup
SavedS(f, x, status) ==
  status.SPP = f.prv /\ status.SPIE = f.ie /\ LegalPrivilege(x, f.prv) = f.prv
SavedHS(f, x) ==
  Has(x, "S") => x.sepc = f.pc /\ x.hstatus.SPV = f.v /\ SavedS(f, x, HostStatus(x))
SavedVS(f, x) == f.v = TRUE /\ x.vsepc = f.pc /\ SavedS(f, x, GuestStatus(x))

LEMMA LegalPrivileges ==
  ASSUME NEW x, NEW p \in 0..3
  PROVE  /\ LegalPrivilege(x, p) \in 0..3
         /\ LegalPrivilege(x, LegalPrivilege(x, p)) = LegalPrivilege(x, p)
         /\ LegalPrivilege(x, PRV_M) = PRV_M
         /\ \A y : y.misa = x.misa => LegalPrivilege(y, p) = LegalPrivilege(x, p)
<1>1. LegalPrivilege(x, p) \in 0..3
  BY DEF LegalPrivilege, PRV_U, PRV_M
<1>2. LegalPrivilege(x, LegalPrivilege(x, p)) = LegalPrivilege(x, p)
  BY DEF LegalPrivilege, PRV_U, PRV_S, PRV_M
<1>3. LegalPrivilege(x, PRV_M) = PRV_M
  BY DEF LegalPrivilege, PRV_S, PRV_M
<1>4. \A y : y.misa = x.misa => LegalPrivilege(y, p) = LegalPrivilege(x, p)
  BY DEF LegalPrivilege, Has
<1> QED BY <1>1, <1>2, <1>3, <1>4

LEMMA QuietLegal ==
  ASSUME NEW x, NEW y, Quiet(x, y), Sound(x)
  PROVE  Sound(y)
<1>1. /\ y.misa = x.misa /\ y.prv = x.prv /\ y.mstatus = x.mstatus /\ y.vsstatus = x.vsstatus
      /\ y.dcsr = x.dcsr /\ y.debug_mode = x.debug_mode /\ y.v = x.v /\ y.hstatus = x.hstatus
  BY DEF Quiet, Only, Soft
<1>2. \A p \in 0..3 : LegalPrivilege(y, p) = LegalPrivilege(x, p)
  BY <1>1, LegalPrivileges
<1>3. Legal(y)
  BY <1>1, <1>2 DEF Sound, Legal, HasMpv, Has
<1> QED BY <1>3, QuietShaped DEF Sound

\* what a change of the software's view of a hart does to the context saved in it
LEMMA QuietSaved ==
  ASSUME NEW x, NEW y, Quiet(x, y), Sound(x), NEW f
  PROVE  /\ SavedM(f, x) => SavedM(f, y)
         /\ SavedHS(f, x) => SavedHS(f, y)
         /\ SavedVS(f, x) => SavedVS(f, y)
<1>1. /\ y.misa = x.misa /\ y.prv = x.prv /\ y.mstatus = x.mstatus /\ y.vsstatus = x.vsstatus
      /\ y.dcsr = x.dcsr /\ y.debug_mode = x.debug_mode /\ y.v = x.v /\ y.hstatus = x.hstatus
      /\ y.mepc = x.mepc /\ y.sepc = x.sepc /\ y.vsepc = x.vsepc
  BY DEF Quiet, Only, Soft
<1>2. LegalPrivilege(y, f.prv) = LegalPrivilege(x, f.prv)
  BY <1>1 DEF LegalPrivilege, Has
<1> QED BY <1>1, <1>2 DEF SavedM, SavedHS, SavedVS, SavedS, HostStatus, GuestStatus, Has

LEMMA EnterDebugModeOnly ==
  ASSUME NEW x, Sound(x), NEW cause
  PROVE  LET y == EnterDebugMode(x, cause) IN
         /\ Only(x, y, {"pc", "prv", "dcsr", "debug_mode"}) /\ Sound(y)
         /\ y.prv = PRV_M /\ y.debug_mode = TRUE /\ y.dcsr.prv = x.prv
<1> DEFINE x1 == [x EXCEPT !.debug_mode = TRUE, !.dcsr.cause = cause, !.dcsr.prv = x.prv]
           x2 == SetPrivilege(x1, PRV_M)
           y == EnterDebugMode(x, cause)
<1>1. /\ Only(x, x1, {"dcsr", "debug_mode"}) /\ x1.debug_mode = TRUE /\ x1.dcsr.prv = x.prv
      /\ Shaped(x1)
  BY DEF Only, Soft, Sound, Shaped
<1> HIDE DEF x1
<1>2. Only(x1, x2, {"prv"}) /\ x2.prv = PRV_M /\ Shaped(x2)
  BY <1>1, SetPrivilegeOnly DEF LegalPrivilege, PRV_U, PRV_M, PRV_S
<1>3. y = [x2 EXCEPT !.dpc = x.pc, !.pc = DebugRomEntry]
  BY DEF EnterDebugMode, x1
<1> HIDE DEF x2
<1>4. Only(x2, y, {"pc"}) /\ Shaped(y)
  BY <1>2, <1>3 DEF Only, Soft, Shaped
<1> HIDE DEF y
<1>5. /\ Only(x, y, {"pc", "prv", "dcsr", "debug_mode"})
      /\ y.prv = PRV_M /\ y.debug_mode = TRUE /\ y.dcsr.prv = x.prv
  BY <1>1, <1>2, <1>4 DEF Only, Soft
<1>6. Legal(y)
  <2>1. /\ y.misa = x.misa /\ y.mstatus = x.mstatus /\ y.vsstatus = x.vsstatus
        /\ y.v = x.v /\ y.hstatus = x.hstatus
    BY <1>5 DEF Only, Soft
  <2>2. \A p \in 0..3 : LegalPrivilege(y, p) = LegalPrivilege(x, p)
    BY <2>1, LegalPrivileges
  <2> QED BY <1>5, <2>1, <2>2, LegalPrivileges DEF Sound, Legal, HasMpv, Has, PRV_M
<1> QED BY <1>4, <1>5, <1>6 DEF Sound, y

----------------------------------------------------------------------------
(* What a trap does to the registers, for each mode that handles it.       *)
IntoVS(x, y, epc) ==
  /\ Only(x, y, {"pc", "vsepc", "plain", "mstatus", "prv"})
  /\ y.vsepc = epc /\ y.prv = LegalPrivilege(x, PRV_S)
  /\ \A c \in PlainNames : y.plain[c] = x.plain[c]
  /\ \A f \in MachineFields : y.mstatus[f] = x.mstatus[f]
  /\ y.mstatus.SPP = x.prv /\ y.mstatus.SPIE = x.mstatus.SIE

IntoHS(x, y, epc) ==
  /\ Only(x, y, {"pc", "sepc", "scause", "plain", "hstatus", "mstatus", "vsstatus", "v", "prv"})
  /\ y.sepc = epc /\ y.prv = LegalPrivilege(x, PRV_S) /\ y.v = FALSE /\ y.hstatus.SPV = x.v
  /\ \A f \in MachineFields : y.mstatus[f] = x.mstatus[f]
  /\ y.mstatus.SPP \in {x.prv, HostStatus(x).SPP}
  /\ Has(x, "S") => y.mstatus.SPP = x.prv /\ y.mstatus.SPIE = HostStatus(x).SIE
  /\ \A f \in SupFields : y.vsstatus[f] = GuestStatus(x)[f]

IntoM(x, y, epc) ==
  /\ Only(x, y, {"pc", "mepc", "mcause", "plain", "mstatus", "vsstatus", "v", "prv"})
  /\ y.mepc = epc /\ y.prv = PRV_M
  /\ y.mstatus.MPP = x.prv /\ y.mstatus.MPIE = x.mstatus.MIE /\ y.mstatus.MPV = x.v
  /\ y.v = (x.v /\ x.prv = PRV_M)
  /\ \A f \in SupFields : IF x.v /\ x.prv # PRV_M
                          THEN y.mstatus[f] = x.vsstatus[f] /\ y.vsstatus[f] = x.mstatus[f]
                          ELSE y.mstatus[f] = x.mstatus[f] /\ y.vsstatus[f] = x.vsstatus[f]

LEMMA EntryFields ==
  ASSUME NEW x, Sound(x), NEW prv
  PROVE  LET val == SupervisorEntry(x.mstatus, prv) IN
         /\ \A f \in MachineFields : StatusSet(x, val, f) = x.mstatus[f]
         /\ Has(x, "S") =>
              StatusSet(x, val, "SPP") = prv /\ StatusSet(x, val, "SPIE") = x.mstatus.SIE
         /\ ~Has(x, "S") => StatusSet(x, val, "SPP") = x.mstatus.SPP
BY DEF Sound, Shaped, Legal, StatusSet, SupervisorEntry, StatusFields, StatusNames, MachineFields,
       SupFields, HasMpv

LEMMA TrapToVSOnly ==
  ASSUME NEW x, Sound(x), x.v, NEW t, NEW epc
  PROVE  LET y == TrapToVS(x, t, epc) IN Shaped(y) /\ IntoVS(x, y, epc)
<1> DEFINE cause == [int |-> t.int, code |-> IF t.int THEN t.cause - 1 ELSE t.cause]
           x1 == [x EXCEPT !.pc = Vector(x.vstvec, t), !.vsepc = epc, !.plain["vstval"] = t.tval,
                           !.vscause = cause]
           x2 == SetMstatus(x1, SupervisorEntry(x1.mstatus, x.prv))
           y == SetPrivilege(x2, PRV_S)
<1>0. TrapToVS(x, t, epc) = y
  BY DEF TrapToVS
<1>1. /\ Only(x, x1, {"pc", "vsepc", "plain"}) /\ Shaped(x1) /\ x1.vsepc = epc
      /\ \A c \in PlainNames : x1.plain[c] = x.plain[c]
  BY DEF Only, Soft, Sound, Shaped, PlainNames
<1> HIDE DEF x1
<1>2. x1.mstatus = x.mstatus /\ x1.misa = x.misa
  BY <1>1 DEF Only, Soft
<1>3. /\ Only(x1, x2, {"mstatus"}) /\ Shaped(x2)
      /\ \A f \in StatusNames : x2.mstatus[f] = StatusSet(x1, SupervisorEntry(x.mstatus, x.prv), f)
  BY <1>1, <1>2, SetMstatusOnly
<1>4. \A f \in StatusNames : StatusSet(x1, SupervisorEntry(x.mstatus, x.prv), f)
                               = StatusSet(x, SupervisorEntry(x.mstatus, x.prv), f)
  BY <1>2 DEF StatusSet, LegalPrivilege, StatusFields, HasMpv, Has
<1>5. Has(x, "S")
  BY DEF Sound, Legal, HasMpv
<1>6. /\ \A f \in MachineFields : x2.mstatus[f] = x.mstatus[f]
      /\ x2.mstatus.SPP = x.prv /\ x2.mstatus.SPIE = x.mstatus.SIE
  BY <1>3, <1>4, <1>5, EntryFields DEF StatusNames, SupFields
<1> HIDE DEF x2
<1>7. Only(x2, y, {"prv"}) /\ y.prv = LegalPrivilege(x2, PRV_S) /\ Shaped(y)
  BY <1>3, SetPrivilegeOnly
<1>8. LegalPrivilege(x2, PRV_S) = LegalPrivilege(x, PRV_S)
  BY <1>2, <1>3 DEF Only, Soft, LegalPrivilege, Has
<1> HIDE DEF y
<1> QED BY <1>0, <1>1, <1>3, <1>6, <1>7, <1>8 DEF IntoVS, Only, Soft

LEMMA TrapToHSOnly ==
  ASSUME NEW x, Sound(x), x.prv # PRV_M, NEW t, NEW epc
  PROVE  LET y == TrapToHS(x, t, epc) IN Shaped(y) /\ IntoHS(x, y, epc)
<1> DEFINE x1 == SetVirt(x, FALSE)
           x2 == [x1 EXCEPT !.pc = Vector(x.stvec, t), !.scause = CauseOf(t), !.sepc = epc,
                       !.plain["stval"] = t.tval, !.plain["htval"] = t.tval2,
                       !.plain["htinst"] = 0]
           x3 == SetMstatus(x2, SupervisorEntry(x2.mstatus, x.prv))
           x4 == [x3 EXCEPT !.hstatus.SPVP = x.prv, !.hstatus.SPV = x.v,
                             !.hstatus.GVA = t.gva]
           y == SetPrivilege(x4, PRV_S)
<1>0. TrapToHS(x, t, epc) = y
  BY DEF TrapToHS
<1>1. /\ Only(x, x1, {"mstatus", "vsstatus", "v"}) /\ Shaped(x1) /\ x1.v = FALSE
      /\ \A f \in SupFields : x1.mstatus[f] = HostStatus(x)[f] /\ x1.vsstatus[f] = GuestStatus(x)[f]
      /\ \A f \in MachineFields : x1.mstatus[f] = x.mstatus[f]
  <2>1. IF x.prv = PRV_M \/ x.v = FALSE THEN x1 = x
        ELSE /\ Only(x, x1, {"mstatus", "vsstatus", "v"}) /\ Shaped(x1) /\ x1.v = FALSE
             /\ \A f \in SupFields : x1.mstatus[f] = x.vsstatus[f] /\ x1.vsstatus[f] = x.mstatus[f]
             /\ \A f \in MachineFields : x1.mstatus[f] = x.mstatus[f]
    BY SetVirtOnly DEF Sound, Legal
  <2> HIDE DEF x1
  <2>2. CASE x.prv = PRV_M \/ x.v = FALSE
    BY <2>1, <2>2 DEF Sound, Legal, HostStatus, GuestStatus, Only
  <2>3. CASE ~(x.prv = PRV_M \/ x.v = FALSE)
    BY <2>1, <2>3 DEF Sound, Legal, HostStatus, GuestStatus, Only
  <2> QED BY <2>2, <2>3
<1> HIDE DEF x1
<1>2. /\ Only(x1, x2, {"pc", "scause", "sepc", "plain"}) /\ Shaped(x2) /\ x2.sepc = epc
  BY <1>1 DEF Only, Soft, Shaped, PlainNames
<1> HIDE DEF x2
<1>3. /\ x2.mstatus = x1.mstatus /\ x2.vsstatus = x1.vsstatus /\ x2.misa = x.misa /\ x2.v = FALSE
      /\ x2.prv = x.prv
  BY <1>1, <1>2 DEF Only, Soft
<1>4. /\ Only(x2, x3, {"mstatus"}) /\ Shaped(x3)
      /\ \A f \in StatusNames : x3.mstatus[f] = StatusSet(x2, SupervisorEntry(x2.mstatus, x.prv), f)
  BY <1>2, SetMstatusOnly
<1>5. /\ \A f \in MachineFields : StatusSet(x2, SupervisorEntry(x2.mstatus, x.prv), f) = x.mstatus[f]
      /\ StatusSet(x2, SupervisorEntry(x2.mstatus, x.prv), "SPP") \in {x.prv, x2.mstatus.SPP}
      /\ Has(x, "S") =>
           /\ StatusSet(x2, SupervisorEntry(x2.mstatus, x.prv), "SPP") = x.prv
           /\ StatusSet(x2, SupervisorEntry(x2.mstatus, x.prv), "SPIE") = x2.mstatus.SIE
  <2>1. LegalPrivilege(x2, x2.mstatus.MPP) = x2.mstatus.MPP
    BY <1>1, <1>3 DEF Sound, Legal, LegalPrivilege, Has, MachineFields
  <2> QED BY <1>1, <1>2, <1>3, <2>1
          DEF Shaped, StatusSet, SupervisorEntry, StatusFields, StatusNames, MachineFields,
              SupFields, HasMpv, Has
<1>6. /\ \A f \in MachineFields : x3.mstatus[f] = x.mstatus[f]
      /\ x3.mstatus.SPP \in {x.prv, HostStatus(x).SPP}
      /\ Has(x, "S") => x3.mstatus.SPP = x.prv /\ x3.mstatus.SPIE = HostStatus(x).SIE
  BY <1>1, <1>3, <1>4, <1>5 DEF StatusNames, SupFields
<1> HIDE DEF x3
<1>7. Only(x3, x4, {"hstatus"}) /\ Shaped(x4) /\ x4.hstatus.SPV = x.v
  BY <1>4 DEF Only, Soft, Shaped
<1> HIDE DEF x4
<1>8. Only(x4, y, {"prv"}) /\ y.prv = LegalPrivilege(x4, PRV_S) /\ Shaped(y)
  BY <1>7, SetPrivilegeOnly
<1>9. x4.misa = x.misa /\ x4.v = FALSE /\ x4.sepc = epc /\ x4.vsstatus = x1.vsstatus
      /\ x4.mstatus = x3.mstatus
  BY <1>1, <1>2, <1>3, <1>4, <1>7 DEF Only, Soft
<1>10. LegalPrivilege(x4, PRV_S) = LegalPrivilege(x, PRV_S)
  BY <1>9 DEF LegalPrivilege, Has
<1> HIDE DEF y
<1>11. Only(x, y, {"pc", "sepc", "scause", "plain", "hstatus", "mstatus", "vsstatus", "v", "prv"})
  BY <1>1, <1>2, <1>4, <1>7, <1>8 DEF Only
<1>12. /\ y.v = FALSE /\ y.sepc = epc /\ y.vsstatus = x1.vsstatus /\ y.mstatus = x3.mstatus
       /\ y.hstatus = x4.hstatus
  BY <1>8, <1>9 DEF Only, Soft
<1> QED BY <1>0, <1>1, <1>6, <1>7, <1>8, <1>10, <1>11, <1>12 DEF IntoHS

LEMMA TrapToMOnly ==
  ASSUME NEW x, Sound(x), NEW t, NEW epc
  PROVE  LET y == TrapToM(x, t, epc) IN Shaped(y) /\ IntoM(x, y, epc)
<1> DEFINE x1 == SetVirt(x, FALSE)
           x2 == [x1 EXCEPT !.pc = Vector(x.mtvec, t), !.mepc = epc, !.mcause = CauseOf(t),
                       !.plain["mtval"] = MtvalOf(t.tval), !.plain["mtval2"] = t.tval2,
                       !.plain["mtinst"] = 0]
           s  == [x2.mstatus EXCEPT !.MPIE = x2.mstatus.MIE, !.MPP = x.prv, !.MIE = FALSE,
                                    !.MPV = x.v, !.GVA = t.gva]
           x3 == SetMstatus(x2, s)
           y == SetPrivilege(x3, PRV_M)
<1>0. TrapToM(x, t, epc) = y
  BY DEF TrapToM
<1>1. /\ Only(x, x1, {"mstatus", "vsstatus", "v"}) /\ Shaped(x1)
      /\ x1.v = (x.v /\ x.prv = PRV_M)
      /\ \A f \in SupFields : IF x.v /\ x.prv # PRV_M
                              THEN x1.mstatus[f] = x.vsstatus[f] /\ x1.vsstatus[f] = x.mstatus[f]
                              ELSE x1.mstatus[f] = x.mstatus[f] /\ x1.vsstatus[f] = x.vsstatus[f]
      /\ \A f \in MachineFields : x1.mstatus[f] = x.mstatus[f]
  <2>1. IF x.prv = PRV_M \/ x.v = FALSE THEN x1 = x
        ELSE /\ Only(x, x1, {"mstatus", "vsstatus", "v"}) /\ Shaped(x1) /\ x1.v = FALSE
             /\ \A f \in SupFields : x1.mstatus[f] = x.vsstatus[f] /\ x1.vsstatus[f] = x.mstatus[f]
             /\ \A f \in MachineFields : x1.mstatus[f] = x.mstatus[f]
    BY SetVirtOnly DEF Sound, Legal
  <2> HIDE DEF x1
  <2>2. CASE x.prv = PRV_M \/ x.v = FALSE
    BY <2>1, <2>2 DEF Sound, Legal, Only
  <2>3. CASE ~(x.prv = PRV_M \/ x.v = FALSE)
    BY <2>1, <2>3 DEF Sound, Legal, Only
  <2> QED BY <2>2, <2>3
<1> HIDE DEF x1
<1>2. /\ Only(x1, x2, {"pc", "mcause", "mepc", "plain"}) /\ Shaped(x2) /\ x2.mepc = epc
  BY <1>1 DEF Only, Soft, Shaped, PlainNames
<1> HIDE DEF x2
<1>3. /\ x2.mstatus = x1.mstatus /\ x2.vsstatus = x1.vsstatus /\ x2.misa = x.misa /\ x2.v = x1.v
      /\ x2.prv = x.prv
  BY <1>1, <1>2 DEF Only, Soft
<1>4. /\ Only(x2, x3, {"mstatus"}) /\ Shaped(x3)
      /\ \A f \in StatusNames : x3.mstatus[f] = StatusSet(x2, s, f)
  BY <1>2, SetMstatusOnly
<1>5. /\ StatusSet(x2, s, "MPP") = x.prv
      /\ StatusSet(x2, s, "MPIE") = x.mstatus.MIE
      /\ StatusSet(x2, s, "MPV") = x.v
      /\ \A f \in SupFields : StatusSet(x2, s, f) = x1.mstatus[f]
  <2>1. LegalPrivilege(x2, x.prv) = x.prv
    BY <1>3 DEF Sound, Legal, LegalPrivilege, Has
  <2>2. ~HasMpv(x2) => x.v = FALSE /\ x.mstatus.MPV = FALSE
    BY <1>3 DEF Sound, Legal, HasMpv, Has
  <2> QED BY <1>1, <1>2, <1>3, <2>1, <2>2
          DEF Shaped, StatusSet, StatusFields, StatusNames, MachineFields, SupFields, Has
<1> HIDE DEF s, x3
<1>6. Only(x3, y, {"prv"}) /\ y.prv = PRV_M /\ Shaped(y)
  BY <1>4, SetPrivilegeOnly DEF LegalPrivilege, PRV_U, PRV_M, PRV_S
<1> HIDE DEF y
<1>7. Only(x, y, {"pc", "mepc", "mcause", "plain", "mstatus", "vsstatus", "v", "prv"})
  BY <1>1, <1>2, <1>4, <1>6 DEF Only
<1>8. /\ y.v = x1.v /\ y.mepc = epc /\ y.vsstatus = x1.vsstatus /\ y.mstatus = x3.mstatus
  BY <1>2, <1>3, <1>4, <1>6 DEF Only, Soft
<1>9. /\ y.mstatus.MPP = x.prv /\ y.mstatus.MPIE = x.mstatus.MIE /\ y.mstatus.MPV = x.v
      /\ \A f \in SupFields : y.mstatus[f] = x1.mstatus[f]
  BY <1>4, <1>5, <1>8 DEF StatusNames, MachineFields
<1> QED BY <1>0, <1>1, <1>6, <1>7, <1>8, <1>9 DEF IntoM

----------------------------------------------------------------------------
(* A trap keeps what the modes have put aside, and puts the context it     *)
(* interrupts where the mode that handles it will look for it.             *)
Modes == {"M", "HS", "VS"}
FramesHold(fr, x) ==
  /\ DOMAIN fr = Modes /\ \A m \in Modes : "state" \in DOMAIN fr[m]
  /\ fr["M"].state = "saved" => SavedM(fr["M"], x)
  /\ fr["HS"].state = "saved" => SavedHS(fr["HS"], x)
  /\ fr["VS"].state = "saved" => SavedVS(fr["VS"], x)

LEMMA IntoVSHolds ==
  ASSUME NEW x, NEW y, NEW epc, NEW fr, Sound(x), FramesHold(fr, x),
         x.v, x.prv <= PRV_S, ~x.debug_mode, Shaped(y), IntoVS(x, y, epc)
  PROVE  Sound(y) /\ FramesHold([fr EXCEPT !["VS"] = FrameOf(x, "VS", epc)], y)
<1>1. /\ y.misa = x.misa /\ y.vsstatus = x.vsstatus /\ y.dcsr = x.dcsr /\ y.hstatus = x.hstatus
      /\ y.v = x.v /\ y.debug_mode = x.debug_mode /\ y.sepc = x.sepc
  BY DEF IntoVS, Only, Soft
<1>2. \A p \in 0..3 : LegalPrivilege(y, p) = LegalPrivilege(x, p)
  BY <1>1, LegalPrivileges
<1>3. x.prv \in 0..1 /\ y.prv \in 0..3 /\ LegalPrivilege(x, y.prv) = y.prv
  BY LegalPrivileges DEF Sound, Legal, IntoVS, PRV_S
<1>0. /\ y.mstatus.SPP = x.prv /\ y.mstatus.MPP = x.mstatus.MPP /\ y.mstatus.MPV = x.mstatus.MPV
  BY DEF IntoVS, MachineFields
<1>4. Legal(y)
  BY <1>0, <1>1, <1>2, <1>3 DEF Sound, Legal, HasMpv, Has
<1>5. fr["M"].state # "saved"
  <2>1. x.prv # PRV_M
    BY <1>3 DEF PRV_M
  <2> QED BY <2>1, Zenon DEF FramesHold, SavedM
<1>6. fr["HS"].state = "saved" => SavedHS(fr["HS"], y)
  BY <1>1 DEF FramesHold, SavedHS, SavedS, HostStatus, LegalPrivilege, Has
<1>7. SavedVS(FrameOf(x, "VS", epc), y)
  BY <1>1, <1>2 DEF FrameOf, SavedVS, SavedS, GuestStatus, IntoVS, Sound, Legal
<1> QED BY <1>4, <1>5, <1>6, <1>7 DEF Sound, FramesHold, Modes, FrameOf

LEMMA IntoHSHolds ==
  ASSUME NEW x, NEW y, NEW epc, NEW fr, Sound(x), FramesHold(fr, x),
         x.prv <= PRV_S, ~x.debug_mode, Shaped(y), IntoHS(x, y, epc)
  PROVE  Sound(y) /\ FramesHold([fr EXCEPT !["HS"] = FrameOf(x, "HS", epc)], y)
<1>1. /\ y.misa = x.misa /\ y.dcsr = x.dcsr /\ y.debug_mode = x.debug_mode /\ y.vsepc = x.vsepc
  BY DEF IntoHS, Only, Soft
<1>2. \A p \in 0..3 : LegalPrivilege(y, p) = LegalPrivilege(x, p)
  BY <1>1, LegalPrivileges
<1>3. x.prv \in 0..1 /\ y.prv \in 0..3 /\ LegalPrivilege(x, y.prv) = y.prv
  BY LegalPrivileges DEF Sound, Legal, IntoHS, PRV_S
<1>0. /\ y.mstatus.SPP \in {x.prv, HostStatus(x).SPP} /\ y.vsstatus.SPP = GuestStatus(x).SPP
      /\ y.mstatus.MPP = x.mstatus.MPP /\ y.mstatus.MPV = x.mstatus.MPV
      /\ y.hstatus.SPV = x.v /\ y.v = FALSE
  BY DEF IntoHS, MachineFields, SupFields
<1>4. y.mstatus.SPP \in 0..1 /\ y.vsstatus.SPP \in 0..1
  <2>1. x.mstatus.SPP \in 0..1 /\ x.vsstatus.SPP \in 0..1
    BY DEF Sound, Legal
  <2> QED BY <1>0, <1>3, <2>1 DEF HostStatus, GuestStatus
<1>5. Legal(y)
  BY <1>0, <1>1, <1>2, <1>3, <1>4 DEF Sound, Legal, HasMpv, Has
<1>6. fr["M"].state # "saved"
  <2>1. x.prv # PRV_M
    BY <1>3 DEF PRV_M
  <2> QED BY <2>1, Zenon DEF FramesHold, SavedM
<1>7. fr["VS"].state = "saved" => SavedVS(fr["VS"], y)
  BY <1>1 DEF FramesHold, SavedVS, SavedS, GuestStatus, LegalPrivilege, Has, IntoHS, SupFields
<1>8. SavedHS(FrameOf(x, "HS", epc), y)
  BY <1>1, <1>2 DEF FrameOf, SavedHS, SavedS, HostStatus, IntoHS, Sound, Legal, Has
<1> QED BY <1>5, <1>6, <1>7, <1>8 DEF Sound, FramesHold, Modes, FrameOf

LEMMA IntoMHolds ==
  ASSUME NEW x, NEW y, NEW epc, NEW fr, Sound(x), FramesHold(fr, x),
         ~x.debug_mode, Shaped(y), IntoM(x, y, epc)
  PROVE  Sound(y) /\ FramesHold([fr EXCEPT !["M"] = FrameOf(x, "M", epc)], y)
<1>1. /\ y.misa = x.misa /\ y.dcsr = x.dcsr /\ y.debug_mode = x.debug_mode /\ y.hstatus = x.hstatus
      /\ y.sepc = x.sepc /\ y.vsepc = x.vsepc
  BY DEF IntoM, Only, Soft
<1>2. \A p \in 0..3 : LegalPrivilege(y, p) = LegalPrivilege(x, p)
  BY <1>1, LegalPrivileges
<1>3. x.v \in BOOLEAN /\ y.v \in BOOLEAN
  BY DEF IntoM, Sound, Legal
<1>4. \A f \in SupFields :
        (IF y.v THEN y.vsstatus[f] ELSE y.mstatus[f]) = (IF x.v THEN x.vsstatus[f] ELSE x.mstatus[f])
        /\ (IF y.v THEN y.mstatus[f] ELSE y.vsstatus[f]) = (IF x.v THEN x.mstatus[f] ELSE x.vsstatus[f])
  BY <1>3 DEF IntoM
<1>5. Legal(y)
  <2>1. y.prv = PRV_M /\ LegalPrivilege(x, PRV_M) = PRV_M /\ PRV_M \in 0..3
    BY LegalPrivileges DEF IntoM, PRV_M
  <2>2. y.mstatus.SPP \in 0..1 /\ y.vsstatus.SPP \in 0..1
    BY DEF IntoM, Sound, Legal, SupFields
  <2>3. /\ y.mstatus.MPP \in 0..3 /\ LegalPrivilege(x, y.mstatus.MPP) = y.mstatus.MPP
        /\ y.mstatus.MPV = x.v
    BY DEF IntoM, Sound, Legal
  <2>4. y.v => x.v
    BY DEF IntoM
  <2> QED BY <1>1, <1>2, <1>3, <2>1, <2>2, <2>3, <2>4 DEF Sound, Legal, HasMpv, Has
<1>6. fr["VS"].state = "saved" => SavedVS(fr["VS"], y)
  BY <1>1, <1>3, <1>4 DEF FramesHold, SavedVS, SavedS, GuestStatus, LegalPrivilege, Has, SupFields
<1>7. fr["HS"].state = "saved" => SavedHS(fr["HS"], y)
  BY <1>1, <1>3, <1>4 DEF FramesHold, SavedHS, SavedS, HostStatus, LegalPrivilege, Has, SupFields
<1>8. SavedM(FrameOf(x, "M", epc), y)
  <2>1. CASE x.v /\ x.prv # PRV_M
    <3>1. SupView(y.vsstatus) = SupView(x.mstatus)
      BY <2>1 DEF IntoM, SupView
    <3> QED BY <1>1, <2>1, <3>1 DEF FrameOf, SavedM, IntoM, Sound, Legal
  <2>2. CASE ~(x.v /\ x.prv # PRV_M)
    <3>1. SupView(y.mstatus) = SupView(x.mstatus)
      BY <2>2 DEF IntoM, SupView
    <3>2. y.v = x.v
      BY <1>3, <2>2 DEF IntoM
    <3> QED BY <1>1, <2>2, <3>1, <3>2 DEF FrameOf, SavedM, IntoM, Sound, Legal
  <2> QED BY <2>1, <2>2
<1> QED BY <1>5, <1>6, <1>7, <1>8 DEF Sound, FramesHold, Modes, FrameOf

----------------------------------------------------------------------------
(* What may become of a hart and of the contexts saved in it.              *)
RestoredIn(x, f, m, y) ==
  /\ y.prv = f.prv /\ y.v = f.v /\ y.pc = Aligned(x, f.pc)
  /\ f.ie = IF m = "M" THEN y.mstatus.MIE
            ELSE IF m = "HS" THEN HostStatus(y).SIE ELSE y.mstatus.SIE
  /\ m = "M" => f.sup = SupView(y.mstatus)

Confined(x, y) == InGuest(x) /\ InGuest(y) => HostView(y) = HostView(x)
Returned(x, fr, y, gr) ==
  \A m \in Modes : fr[m].state = "saved" /\ gr[m].state = "returned" => RestoredIn(x, fr[m], m, y)
Risen(x, fr, y, gr) ==
  \A m \in Modes : gr[m] # fr[m] /\ gr[m].state = "saved"
                     => Rank(y) >= Rank(x) /\ (m = "VS" => x.v) /\ (m = "HS" => ~y.v)
Moves(x, fr, y, gr) ==
  /\ Sound(y) /\ FramesHold(gr, y)
  /\ Confined(x, y) /\ Returned(x, fr, y, gr) /\ Risen(x, fr, y, gr)

LEMMA QuietView ==
  ASSUME NEW x, NEW y, Quiet(x, y)
  PROVE  /\ HostView(y) = HostView(x) /\ InGuest(y) = InGuest(x) /\ Rank(y) = Rank(x)
         /\ \A a : Aligned(y, a) = Aligned(x, a)
         /\ y.prv = x.prv /\ y.v = x.v /\ y.mstatus = x.mstatus /\ HostStatus(y) = HostStatus(x)
<1>1. /\ y.misa = x.misa /\ y.prv = x.prv /\ y.mstatus = x.mstatus /\ y.vsstatus = x.vsstatus
      /\ y.v = x.v /\ y.hstatus = x.hstatus /\ y.sepc = x.sepc /\ y.stvec = x.stvec
      /\ y.satp = x.satp /\ y.scause = x.scause /\ y.hgatp = x.hgatp /\ y.hideleg = x.hideleg
      /\ y.hedeleg = x.hedeleg /\ y.mtvec = x.mtvec /\ y.mepc = x.mepc /\ y.mcause = x.mcause
      /\ y.mideleg = x.mideleg /\ y.medeleg = x.medeleg /\ y.mie = x.mie /\ y.pmpcfg = x.pmpcfg
      /\ y.pmpaddr = x.pmpaddr /\ y.plain = x.plain
  BY DEF Quiet, Only, Soft
<1>2. HostView(y) = HostView(x)
  BY <1>1 DEF HostView
<1>3. InGuest(y) = InGuest(x) /\ Rank(y) = Rank(x) /\ HostStatus(y) = HostStatus(x)
  BY <1>1 DEF InGuest, Rank, HostStatus
<1>4. \A a : Aligned(y, a) = Aligned(x, a)
  BY <1>1 DEF Aligned, Has
<1> QED BY <1>1, <1>2, <1>3, <1>4

LEMMA MovesBefore ==
  ASSUME NEW w, NEW x, NEW y, NEW fr, NEW gr, Quiet(w, x), Moves(x, fr, y, gr)
  PROVE  Moves(w, fr, y, gr)
<1>1. /\ HostView(x) = HostView(w) /\ InGuest(x) = InGuest(w) /\ Rank(x) = Rank(w)
      /\ (\A a : Aligned(x, a) = Aligned(w, a)) /\ x.v = w.v
  BY QuietView
<1>2. Confined(w, y)
  BY <1>1 DEF Moves, Confined
<1>3. Returned(w, fr, y, gr)
  BY <1>1 DEF Moves, Returned, RestoredIn
<1>4. Risen(w, fr, y, gr)
  BY <1>1 DEF Moves, Risen
<1> QED BY <1>2, <1>3, <1>4 DEF Moves

LEMMA QuietHolds ==
  ASSUME NEW x, NEW y, NEW fr, Quiet(x, y), Sound(x), FramesHold(fr, x)
  PROVE  FramesHold(fr, y)
BY QuietSaved DEF FramesHold

LEMMA MovesAfter ==
  ASSUME NEW x, NEW y, NEW z, NEW fr, NEW gr, Moves(x, fr, y, gr), Only(y, z, {})
  PROVE  Moves(x, fr, z, gr)
<1>1. Quiet(y, z) /\ z.pc = y.pc
  BY DEF Quiet, Only, Soft
<1>2. /\ HostView(z) = HostView(y) /\ InGuest(z) = InGuest(y) /\ Rank(z) = Rank(y)
      /\ z.prv = y.prv /\ z.v = y.v /\ z.mstatus = y.mstatus /\ HostStatus(z) = HostStatus(y)
  BY <1>1, QuietView
<1>3. Sound(z) /\ FramesHold(gr, z)
  BY <1>1, QuietLegal, QuietHolds DEF Moves
<1>4. Confined(x, z)
  BY <1>2 DEF Moves, Confined
<1>5. Returned(x, fr, z, gr)
  BY <1>1, <1>2 DEF Moves, Returned, RestoredIn
<1>6. Risen(x, fr, z, gr)
  BY <1>2 DEF Moves, Risen
<1> QED BY <1>3, <1>4, <1>5, <1>6 DEF Moves

LEMMA QuietMoves ==
  ASSUME NEW x, NEW y, NEW fr, Quiet(x, y), Sound(x), FramesHold(fr, x)
  PROVE  Moves(x, fr, y, fr)
<1>1. Sound(y) /\ FramesHold(fr, y) /\ HostView(y) = HostView(x)
  BY QuietLegal, QuietHolds, QuietView
<1> QED BY <1>1 DEF Moves, Confined, Returned, Risen

\* debug mode is entered on a hart on which a trap may just have been taken
NoReturn(fr, gr) == \A m \in Modes : ~(fr[m].state = "saved" /\ gr[m].state = "returned")

LEMMA EnterDebugMoves ==
  ASSUME NEW x, NEW y, NEW fr, NEW gr, NEW cause, Moves(x, fr, y, gr), NoReturn(fr, gr)
  PROVE  Moves(x, fr, EnterDebugMode(y, cause), gr)
<1> DEFINE z == EnterDebugMode(y, cause)
<1>1. /\ Only(y, z, {"pc", "prv", "dcsr", "debug_mode"}) /\ Sound(z)
      /\ z.prv = PRV_M /\ z.debug_mode = TRUE /\ z.dcsr.prv = y.prv
  BY EnterDebugModeOnly DEF Moves
<1> HIDE DEF z
<1>2. /\ z.misa = y.misa /\ z.mstatus = y.mstatus /\ z.vsstatus = y.vsstatus /\ z.v = y.v
      /\ z.hstatus = y.hstatus /\ z.mepc = y.mepc /\ z.sepc = y.sepc /\ z.vsepc = y.vsepc
  BY <1>1 DEF Only, Soft
<1>3. \A f : LegalPrivilege(z, f.prv) = LegalPrivilege(y, f.prv)
  BY <1>2 DEF LegalPrivilege, Has
<1>4. \A f : SavedM(f, y) => SavedM(f, z)
  BY <1>1, <1>2 DEF SavedM
<1>5. \A f : SavedHS(f, y) => SavedHS(f, z)
  BY <1>2, <1>3 DEF SavedHS, SavedS, HostStatus, Has
<1>6. \A f : SavedVS(f, y) => SavedVS(f, z)
  BY <1>2, <1>3 DEF SavedVS, SavedS, GuestStatus
<1>7. FramesHold(gr, z)
  BY <1>4, <1>5, <1>6 DEF Moves, FramesHold
<1>8. ~InGuest(z)
  BY <1>1 DEF InGuest, PRV_M, PRV_S
<1>9. Rank(z) >= Rank(y) /\ Rank(z) \in 0..4 /\ Rank(y) \in 0..4 /\ Rank(x) \in 0..4
  BY <1>1 DEF Rank
<1>10. Risen(x, fr, z, gr)
  BY <1>2, <1>9 DEF Moves, Risen
<1> QED BY <1>1, <1>7, <1>8, <1>10 DEF Moves, Confined, Returned, NoReturn, z

----------------------------------------------------------------------------
\* a guest's own registers are all that differ
HostSame(x, y) ==
  /\ Only(x, y, {"pc", "prv", "v", "misa", "debug_mode", "dcsr", "mstatus", "plain", "mie", "vsepc"})
  /\ y.mie \ VSInts = x.mie \ VSInts
  /\ \A f \in MachineFields : y.mstatus[f] = x.mstatus[f]
  /\ \A c \in PlainNames : y.plain[c] = x.plain[c]

LEMMA HostSameView ==
  ASSUME NEW x, NEW y, HostSame(x, y)
  PROVE  HostView(y) = HostView(x)
<1>1. /\ y.vsstatus = x.vsstatus
      /\ y.hstatus = x.hstatus /\ y.sepc = x.sepc /\ y.stvec = x.stvec
      /\ y.satp = x.satp /\ y.scause = x.scause /\ y.hgatp = x.hgatp /\ y.hideleg = x.hideleg
      /\ y.hedeleg = x.hedeleg /\ y.mtvec = x.mtvec /\ y.mepc = x.mepc /\ y.mcause = x.mcause
      /\ y.mideleg = x.mideleg /\ y.medeleg = x.medeleg /\ y.pmpcfg = x.pmpcfg
      /\ y.pmpaddr = x.pmpaddr
  BY DEF HostSame, Only, Soft
<1>2. [f \in MachineFields |-> y.mstatus[f]] = [f \in MachineFields |-> x.mstatus[f]]
  BY DEF HostSame
<1>3. [c \in PlainNames |-> y.plain[c]] = [c \in PlainNames |-> x.plain[c]]
  BY DEF HostSame
<1>4. y.mie \ VSInts = x.mie \ VSInts
  BY DEF HostSame
<1> QED BY <1>1, <1>2, <1>3, <1>4 DEF HostView, PlainNames

LEMMA TakeTrapMoves ==
  ASSUME NEW x, NEW t, NEW epc, Sound(x), FramesHold(frames, x)
  PROVE  /\ Moves(x, frames, TakeTrap(x, t, epc), TrapFrames(x, t, epc))
         /\ NoReturn(frames, TrapFrames(x, t, epc))
<1> DEFINE y == TakeTrap(x, t, epc)
           gr == TrapFrames(x, t, epc)
           m == HandledIn(x, t)
<1>0. /\ x.prv \in 0..3 /\ x.v \in BOOLEAN /\ (x.v => HasMpv(x))
      /\ LegalPrivilege(x, x.prv) = x.prv
  BY DEF Sound, Legal
<1>1. NoReturn(frames, gr)
  BY DEF NoReturn, TrapFrames, FrameOf, FramesHold, Modes
<1>2. CASE m = "park"
  <2>1. gr = frames
    BY <1>2 DEF TrapFrames
  <2>2. Quiet(x, y)
    BY <1>2 DEF TakeTrap, Quiet, Only, Soft, Sound, Shaped
  <2> QED BY <1>1, <2>1, <2>2, QuietMoves
<1>3. CASE m = "debug"
  <2>1. gr = frames
    BY <1>3 DEF TrapFrames
  <2>2. y = EnterDebugMode(x, "SWBP")
    BY <1>3 DEF TakeTrap
  <2>3. Moves(x, frames, x, frames)
    BY QuietMoves DEF Quiet, Only
  <2>4. Moves(x, frames, EnterDebugMode(x, "SWBP"), frames)
    BY <1>1, <2>1, <2>3, EnterDebugMoves
  <2> QED BY <1>1, <2>1, <2>2, <2>4
<1>4. CASE m = "VS"
  <2>1. x.v /\ x.prv <= PRV_S /\ ~x.debug_mode
    BY <1>4 DEF HandledIn
  <2>2. y = TrapToVS(x, t, epc) /\ gr = [frames EXCEPT !["VS"] = FrameOf(x, "VS", epc)]
    BY <1>4 DEF TakeTrap, TrapFrames
  <2>3. Shaped(y) /\ IntoVS(x, y, epc)
    BY <2>1, <2>2, TrapToVSOnly
  <2> HIDE DEF y, gr, m
  <2>4. Sound(y) /\ FramesHold(gr, y)
    BY <2>1, <2>2, <2>3, IntoVSHolds
  <2>5. HostSame(x, y)
    BY <2>3 DEF IntoVS, HostSame, Only, Soft
  <2>6. Rank(y) >= Rank(x)
    <3>1. y.v = x.v
      BY <2>3 DEF IntoVS, Only, Soft
    <3>2. y.prv = PRV_S \/ y.prv = PRV_M
      BY <1>0, <2>1, <2>3 DEF IntoVS, LegalPrivilege, HasMpv, PRV_S, PRV_U, PRV_M
    <3> QED BY <1>0, <2>1, <3>1, <3>2 DEF Rank, PRV_S, PRV_M
  <2>7. \A k \in Modes : gr[k] # frames[k] => k = "VS"
    BY <2>2 DEF FramesHold
  <2>8. Confined(x, y)
    BY <2>5, HostSameView DEF Confined
  <2>9. Risen(x, frames, y, gr)
    BY <2>1, <2>6, <2>7 DEF Risen
  <2>10. Returned(x, frames, y, gr)
    BY <1>1 DEF gr, Returned, NoReturn
  <2> QED BY <1>1, <2>4, <2>8, <2>9, <2>10 DEF Moves, y, gr
<1>5. CASE m = "HS"
  <2>1. x.prv <= PRV_S /\ ~x.debug_mode
    BY <1>5 DEF HandledIn
  <2>2. y = TrapToHS(x, t, epc) /\ gr = [frames EXCEPT !["HS"] = FrameOf(x, "HS", epc)]
    BY <1>5 DEF TakeTrap, TrapFrames
  <2>3. x.prv # PRV_M
    BY <1>0, <2>1 DEF PRV_S, PRV_M
  <2>4. Shaped(y) /\ IntoHS(x, y, epc)
    BY <2>2, <2>3, TrapToHSOnly
  <2> HIDE DEF y, gr, m
  <2>5. Sound(y) /\ FramesHold(gr, y)
    BY <2>1, <2>2, <2>4, IntoHSHolds
  <2>6. y.v = FALSE /\ y.prv = LegalPrivilege(x, PRV_S)
    BY <2>4 DEF IntoHS
  <2>7. Rank(y) >= Rank(x)
    <3>1. CASE Has(x, "U") /\ ~Has(x, "S")
      <4>1. x.prv = PRV_U /\ x.v = FALSE
        BY <1>0, <2>1, <3>1 DEF LegalPrivilege, HasMpv, PRV_S, PRV_U, PRV_M
      <4>2. y.prv = PRV_U
        BY <2>6, <3>1 DEF LegalPrivilege
      <4> QED BY <2>6, <4>1, <4>2 DEF Rank, PRV_S, PRV_U, PRV_M
    <3>2. CASE ~(Has(x, "U") /\ ~Has(x, "S"))
      <4>1. y.prv = PRV_S \/ y.prv = PRV_M
        BY <2>6, <3>2 DEF LegalPrivilege, PRV_S, PRV_U, PRV_M
      <4> QED BY <1>0, <2>1, <2>6, <4>1 DEF Rank, PRV_S, PRV_U, PRV_M
    <3> QED BY <3>1, <3>2
  <2>8. \A k \in Modes : gr[k] # frames[k] => k = "HS"
    BY <2>2 DEF FramesHold
  <2>9. Confined(x, y)
    BY <2>6 DEF Confined, InGuest
  <2>10. Risen(x, frames, y, gr)
    BY <2>6, <2>7, <2>8 DEF Risen
  <2>11. Returned(x, frames, y, gr)
    BY <1>1 DEF gr, Returned, NoReturn
  <2> QED BY <1>1, <2>5, <2>9, <2>10, <2>11 DEF Moves, y, gr
<1>6. CASE m = "M"
  <2>1. ~x.debug_mode
    BY <1>6 DEF HandledIn
  <2>2. y = TrapToM(x, t, epc) /\ gr = [frames EXCEPT !["M"] = FrameOf(x, "M", epc)]
    BY <1>6 DEF TakeTrap, TrapFrames
  <2>3. Shaped(y) /\ IntoM(x, y, epc)
    BY <2>2, TrapToMOnly
  <2> HIDE DEF y, gr, m
  <2>4. Sound(y) /\ FramesHold(gr, y)
    BY <2>1, <2>2, <2>3, IntoMHolds
  <2>5. y.prv = PRV_M
    BY <2>3 DEF IntoM
  <2>6. Rank(y) >= Rank(x) /\ ~InGuest(y)
    BY <2>5 DEF Rank, InGuest, PRV_M, PRV_S
  <2>7. \A k \in Modes : gr[k] # frames[k] => k = "M"
    BY <2>2 DEF FramesHold
  <2>8. Risen(x, frames, y, gr)
    BY <2>6, <2>7 DEF Risen
  <2>9. Returned(x, frames, y, gr)
    BY <1>1 DEF gr, Returned, NoReturn
  <2> QED BY <1>1, <2>4, <2>6, <2>8, <2>9 DEF Moves, Confined, y, gr
<1>7. m \in {"park", "debug", "VS", "HS", "M"}
  BY DEF HandledIn
<1> QED BY <1>2, <1>3, <1>4, <1>5, <1>6, <1>7

----------------------------------------------------------------------------
(* Returns.                                                                *)

\* what a change of the virtualization mode leaves of both statuses
Exchanged(x, y) ==
  \A f \in SupFields : HostStatus(y)[f] = HostStatus(x)[f] /\ GuestStatus(y)[f] = GuestStatus(x)[f]

LEMMA SetVirtExchanges ==
  ASSUME NEW x, NEW virt \in BOOLEAN, Shaped(x), x.v \in BOOLEAN
  PROVE  LET y == SetVirt(x, virt) IN
         /\ Only(x, y, {"mstatus", "vsstatus", "v"}) /\ Shaped(y) /\ Exchanged(x, y)
         /\ y.v = IF x.prv = PRV_M THEN x.v ELSE virt
         /\ \A f \in MachineFields : y.mstatus[f] = x.mstatus[f]
         /\ y.mstatus.SPP \in {x.mstatus.SPP, x.vsstatus.SPP}
         /\ y.vsstatus.SPP \in {x.mstatus.SPP, x.vsstatus.SPP}
<1> DEFINE y == SetVirt(x, virt)
<1>1. IF x.prv = PRV_M \/ x.v = virt THEN y = x
      ELSE /\ Only(x, y, {"mstatus", "vsstatus", "v"}) /\ Shaped(y) /\ y.v = virt
           /\ \A f \in SupFields : y.mstatus[f] = x.vsstatus[f] /\ y.vsstatus[f] = x.mstatus[f]
           /\ \A f \in MachineFields : y.mstatus[f] = x.mstatus[f]
  BY SetVirtOnly
<1> HIDE DEF y
<1>2. CASE x.prv = PRV_M \/ x.v = virt
  BY <1>1, <1>2 DEF Only, Exchanged, y
<1>3. CASE ~(x.prv = PRV_M \/ x.v = virt)
  <2>1. Exchanged(x, y)
    BY <1>1, <1>3 DEF Exchanged, HostStatus, GuestStatus
  <2> QED BY <1>1, <1>3, <2>1 DEF SupFields, y
<1> QED BY <1>2, <1>3

Mreted(x, y) ==
  /\ Only(x, y, {"pc", "mstatus", "vsstatus", "prv", "v"}) /\ Exchanged(x, y)
  /\ y.pc = Aligned(x, x.mepc) /\ y.prv = x.mstatus.MPP
  /\ y.v = IF x.mstatus.MPP = PRV_M THEN x.v ELSE x.mstatus.MPV
  /\ y.mstatus.MIE = x.mstatus.MPIE /\ y.mstatus.MPV = x.mstatus.MPV
  /\ y.mstatus.MPP = LegalPrivilege(x, PRV_U)
  /\ y.mstatus.SPP \in 0..1 /\ y.vsstatus.SPP \in 0..1

LEMMA MretOnly ==
  ASSUME NEW x, Sound(x), ~(x.prv < PRV_M)
  PROVE  LET y == ExecMret(x).h IN Shaped(y) /\ Mreted(x, y)
<1> DEFINE s == [x.mstatus EXCEPT !.MIE = x.mstatus.MPIE, !.MPIE = TRUE, !.MPP = PRV_U]
           x1 == [x EXCEPT !.pc = Aligned(x, x.mepc)]
           x2 == SetMstatus(x1, s)
           x3 == SetPrivilege(x2, x.mstatus.MPP)
           x4 == SetVirt(x3, x.mstatus.MPV)
<1>0. ExecMret(x).h = x4
  BY DEF ExecMret, Out, Done, Result
<1>1. Only(x, x1, {"pc"}) /\ Shaped(x1) /\ x1.pc = Aligned(x, x.mepc)
  BY DEF Only, Soft, Sound, Shaped
<1> HIDE DEF x1
<1>2. x1.mstatus = x.mstatus /\ x1.misa = x.misa
  BY <1>1 DEF Only, Soft
<1>3. /\ Only(x1, x2, {"mstatus"}) /\ Shaped(x2)
      /\ \A f \in StatusNames : x2.mstatus[f] = StatusSet(x1, s, f)
  BY <1>1, SetMstatusOnly
<1>4. /\ StatusSet(x1, s, "MPP") = LegalPrivilege(x, PRV_U)
      /\ StatusSet(x1, s, "MIE") = x.mstatus.MPIE
      /\ StatusSet(x1, s, "MPV") = x.mstatus.MPV
      /\ \A f \in SupFields : StatusSet(x1, s, f) = x.mstatus[f]
  BY <1>2 DEF Sound, Shaped, StatusSet, StatusFields, StatusNames, MachineFields, SupFields,
              LegalPrivilege, Has
<1> HIDE DEF s
<1>5. /\ x2.mstatus.MPP = LegalPrivilege(x, PRV_U) /\ x2.mstatus.MIE = x.mstatus.MPIE
      /\ x2.mstatus.MPV = x.mstatus.MPV
      /\ \A f \in SupFields : x2.mstatus[f] = x.mstatus[f]
  BY <1>3, <1>4 DEF StatusNames, MachineFields
<1> HIDE DEF x2
<1>6. Only(x2, x3, {"prv"}) /\ x3.prv = LegalPrivilege(x2, x.mstatus.MPP) /\ Shaped(x3)
  BY <1>3, SetPrivilegeOnly
<1> HIDE DEF x3
<1>7. /\ x3.mstatus = x2.mstatus /\ x3.vsstatus = x.vsstatus /\ x3.v = x.v /\ x2.misa = x.misa
      /\ x3.pc = x1.pc
  BY <1>1, <1>3, <1>6 DEF Only, Soft
<1>8. x3.prv = x.mstatus.MPP
  BY <1>6, <1>7 DEF Sound, Legal, LegalPrivilege, Has
<1>9. /\ Only(x3, x4, {"mstatus", "vsstatus", "v"}) /\ Shaped(x4) /\ Exchanged(x3, x4)
      /\ x4.v = IF x3.prv = PRV_M THEN x3.v ELSE x.mstatus.MPV
      /\ \A f \in MachineFields : x4.mstatus[f] = x3.mstatus[f]
      /\ x4.mstatus.SPP \in {x3.mstatus.SPP, x3.vsstatus.SPP}
      /\ x4.vsstatus.SPP \in {x3.mstatus.SPP, x3.vsstatus.SPP}
  BY <1>6, <1>7, SetVirtExchanges DEF Sound, Legal
<1> HIDE DEF x4
<1>10. Exchanged(x, x4)
  BY <1>5, <1>7, <1>9 DEF Exchanged, HostStatus, GuestStatus
<1>11. Only(x, x4, {"pc", "mstatus", "vsstatus", "prv", "v"})
  BY <1>1, <1>3, <1>6, <1>9 DEF Only
<1>12. x4.pc = Aligned(x, x.mepc) /\ x4.prv = x.mstatus.MPP
  BY <1>1, <1>7, <1>8, <1>9 DEF Only, Soft
<1>13. /\ x4.mstatus.MPP = x2.mstatus.MPP /\ x4.mstatus.MIE = x2.mstatus.MIE
       /\ x4.mstatus.MPV = x2.mstatus.MPV
  BY <1>7, <1>9 DEF MachineFields
<1>14. x4.mstatus.SPP \in 0..1 /\ x4.vsstatus.SPP \in 0..1
  BY <1>5, <1>7, <1>9 DEF Sound, Legal, SupFields
<1> QED BY <1>0, <1>5, <1>7, <1>8, <1>9, <1>10, <1>11, <1>12, <1>13, <1>14 DEF Mreted

LEMMA MretSound ==
  ASSUME NEW x, Sound(x), ~(x.prv < PRV_M), ~x.debug_mode
  PROVE  Sound(ExecMret(x).h)
<1> DEFINE y == ExecMret(x).h
<1>1. Shaped(y) /\ Mreted(x, y)
  BY MretOnly
<1> HIDE DEF y
<1>2. y.misa = x.misa /\ y.dcsr = x.dcsr /\ y.debug_mode = x.debug_mode /\ y.hstatus = x.hstatus
  BY <1>1 DEF Mreted, Only, Soft
<1>3. \A p \in 0..3 : LegalPrivilege(y, p) = LegalPrivilege(x, p)
  BY <1>2, LegalPrivileges
<1>4. /\ y.prv = x.mstatus.MPP /\ y.mstatus.MPV = x.mstatus.MPV
      /\ y.mstatus.MPP = LegalPrivilege(x, PRV_U)
      /\ y.mstatus.SPP \in 0..1 /\ y.vsstatus.SPP \in 0..1
      /\ y.v = IF x.mstatus.MPP = PRV_M THEN x.v ELSE x.mstatus.MPV
  BY <1>1 DEF Mreted
<1>5. LegalPrivilege(x, PRV_U) \in 0..3
      /\ LegalPrivilege(x, LegalPrivilege(x, PRV_U)) = LegalPrivilege(x, PRV_U)
  BY LegalPrivileges DEF PRV_U
<1>6. Legal(y)
  BY <1>2, <1>3, <1>4, <1>5 DEF Sound, Legal, HasMpv, Has
<1> QED BY <1>1, <1>6 DEF Sound, y

LEMMA MretMoves ==
  ASSUME NEW x, Sound(x), FramesHold(frames, x), ~(x.prv < PRV_M), ~x.debug_mode,
         NEW insn, insn.op = "mret", NEW npc
  PROVE  Moves(x, frames, ExecMret(x).h, InsnFrames(x, insn, npc))
<1> DEFINE y == ExecMret(x).h
           gr == InsnFrames(x, insn, npc)
<1>1. Shaped(y) /\ Mreted(x, y)
  BY MretOnly
<1>2. /\ DOMAIN gr = Modes
      /\ gr["M"] = IF frames["M"] = NoFrame THEN NoFrame ELSE [frames["M"] EXCEPT !.state = "returned"]
      /\ gr["HS"] = frames["HS"] /\ gr["VS"] = frames["VS"]
  BY DEF InsnFrames, Returning, FramesHold, Modes
<1> HIDE DEF y, gr
<1>3. /\ y.misa = x.misa /\ y.dcsr = x.dcsr /\ y.debug_mode = x.debug_mode /\ y.hstatus = x.hstatus
      /\ y.sepc = x.sepc /\ y.vsepc = x.vsepc
  BY <1>1 DEF Mreted, Only, Soft
<1>4. \A p \in 0..3 : LegalPrivilege(y, p) = LegalPrivilege(x, p)
  BY <1>3, LegalPrivileges
<1>5. x.prv = PRV_M /\ x.v \in BOOLEAN
  BY DEF Sound, Legal, PRV_M
<1>6. Legal(y)
  <2>1. /\ y.prv = x.mstatus.MPP /\ y.mstatus.MPV = x.mstatus.MPV
        /\ y.mstatus.MPP = LegalPrivilege(x, PRV_U)
        /\ y.mstatus.SPP \in 0..1 /\ y.vsstatus.SPP \in 0..1
        /\ y.v \in {x.v, x.mstatus.MPV}
    BY <1>1 DEF Mreted
  <2>2. LegalPrivilege(x, PRV_U) \in 0..3
        /\ LegalPrivilege(x, LegalPrivilege(x, PRV_U)) = LegalPrivilege(x, PRV_U)
    BY LegalPrivileges DEF PRV_U
  <2> QED BY <1>3, <1>4, <2>1, <2>2 DEF Sound, Legal, HasMpv, Has
<1>11. gr["M"].state # "saved" /\ "state" \in DOMAIN gr["M"]
  <2>1. "state" \in DOMAIN frames["M"]
    BY DEF FramesHold, Modes
  <2>2. [frames["M"] EXCEPT !.state = "returned"].state = "returned"
    BY <2>1
  <2> QED BY <1>2, <2>1, <2>2 DEF NoFrame
<1>7. FramesHold(gr, y)
  <2>1. gr["HS"].state = "saved" => SavedHS(gr["HS"], y)
    BY <1>1, <1>2, <1>3 DEF FramesHold, Mreted, Exchanged, SupFields, SavedHS, SavedS, Has,
                            LegalPrivilege
  <2>2. gr["VS"].state = "saved" => SavedVS(gr["VS"], y)
    BY <1>1, <1>2, <1>3 DEF FramesHold, Mreted, Exchanged, SupFields, SavedVS, SavedS, Has,
                            LegalPrivilege
  <2> QED BY <1>2, <1>11, <2>1, <2>2 DEF FramesHold, Modes
<1>8. Confined(x, y)
  BY <1>5 DEF Confined, InGuest, PRV_M, PRV_S
<1>9. Risen(x, frames, y, gr)
  BY <1>2, <1>11 DEF Risen, Modes
<1>10. Returned(x, frames, y, gr)
  <2> SUFFICES ASSUME frames["M"].state = "saved" PROVE RestoredIn(x, frames["M"], "M", y)
    BY <1>2 DEF Returned, Modes
  <2> DEFINE f == frames["M"]
  <2>1. SavedM(f, x)
    BY DEF FramesHold
  <2> HIDE DEF f
  <2>2. y.prv = f.prv /\ y.pc = Aligned(x, f.pc) /\ y.mstatus.MIE = f.ie
    BY <1>1, <2>1 DEF Mreted, SavedM
  <2>3. y.v = f.v /\ f.sup = SupView(y.mstatus)
    <3>1. x.mstatus.MPV = f.v /\ x.mstatus.MPP = f.prv /\ f.v \in BOOLEAN
      BY <2>1 DEF SavedM, Sound, Legal
    <3>2. y.v = IF f.prv = PRV_M THEN x.v ELSE f.v
      BY <1>1, <3>1 DEF Mreted
    <3>3. y.v = f.v
      BY <2>1, <3>1, <3>2 DEF SavedM
    <3>4. f.sup = IF f.v /\ f.prv # PRV_M THEN SupView(x.vsstatus) ELSE SupView(x.mstatus)
      BY <2>1 DEF SavedM
    <3>5. \A k \in SupFields :
            y.mstatus[k] = IF f.v /\ f.prv # PRV_M THEN x.vsstatus[k] ELSE x.mstatus[k]
      BY <1>1, <1>5, <2>1, <3>1, <3>3 DEF Mreted, Exchanged, SavedM, HostStatus, GuestStatus
    <3>6. SupView(y.mstatus) = IF f.v /\ f.prv # PRV_M THEN SupView(x.vsstatus) ELSE SupView(x.mstatus)
      BY <3>5 DEF SupView
    <3> QED BY <3>3, <3>4, <3>6
  <2> QED BY <2>2, <2>3 DEF RestoredIn, f
<1> QED BY <1>1, <1>6, <1>7, <1>8, <1>9, <1>10 DEF Moves, Sound, y, gr

Sreted(x, y) ==
  /\ Only(x, y, {"pc", "mstatus", "vsstatus", "prv", "v"})
  /\ y.pc = Aligned(x, IF x.v THEN x.vsepc ELSE x.sepc)
  /\ y.prv = LegalPrivilege(x, x.mstatus.SPP)
  /\ y.v = IF x.v \/ y.prv = PRV_M THEN x.v ELSE x.hstatus.SPV
  /\ \A f \in MachineFields : y.mstatus[f] = x.mstatus[f]
  /\ x.v => y.vsstatus = x.vsstatus
  /\ IF x.v THEN y.mstatus.SIE = x.mstatus.SPIE
     ELSE /\ HostStatus(y).SIE = x.mstatus.SPIE
          /\ \A f \in SupFields : GuestStatus(y)[f] = x.vsstatus[f]
  /\ y.mstatus.SPP \in 0..1 /\ y.vsstatus.SPP \in 0..1

LEMMA SretOnly ==
  ASSUME NEW x, Sound(x), Has(x, "S"), ExecSret(x).trap = NoTrap
  PROVE  LET y == ExecSret(x).h IN Shaped(y) /\ Sreted(x, y)
<1> DEFINE s == [x.mstatus EXCEPT !.SIE = x.mstatus.SPIE, !.SPIE = TRUE, !.SPP = PRV_U]
           to == Aligned(x, IF x.v THEN x.vsepc ELSE x.sepc)
           x1 == [x EXCEPT !.pc = to]
           x2 == SetMstatus(x1, s)
           x3 == SetPrivilege(x2, x.mstatus.SPP)
           y == IF x.v THEN x3 ELSE SetVirt(x3, x.hstatus.SPV)
<1>0. ExecSret(x).h = y
  <2>1. \A t : Traps(x, t).trap = t
    BY DEF Traps, Out, Raises, Result
  <2>2. Illegal # NoTrap /\ VirtualInsn # NoTrap
    BY DEF Illegal, VirtualInsn, InsnTrap, NoTrap
  <2>3. ExecSret(x) = Out(Done(y, -1), "after")
    BY <2>1, <2>2 DEF ExecSret
  <2> QED BY <2>3 DEF Out, Done, Result
<1>1. Only(x, x1, {"pc"}) /\ Shaped(x1) /\ x1.pc = to
  BY DEF Only, Soft, Sound, Shaped
<1> HIDE DEF x1
<1>2. x1.mstatus = x.mstatus /\ x1.misa = x.misa
  BY <1>1 DEF Only, Soft
<1>3. /\ Only(x1, x2, {"mstatus"}) /\ Shaped(x2)
      /\ \A f \in StatusNames : x2.mstatus[f] = StatusSet(x1, s, f)
  BY <1>1, SetMstatusOnly
<1>4. /\ StatusSet(x1, s, "SIE") = x.mstatus.SPIE
      /\ StatusSet(x1, s, "SPP") = PRV_U
      /\ \A f \in MachineFields : StatusSet(x1, s, f) = x.mstatus[f]
  <2>1. LegalPrivilege(x1, x.mstatus.MPP) = x.mstatus.MPP
    BY <1>2 DEF Sound, Legal, LegalPrivilege, Has
  <2> QED BY <1>2, <2>1 DEF Sound, Shaped, StatusSet, StatusFields, StatusNames, MachineFields,
                            SupFields, Has
<1> HIDE DEF s
<1>5. /\ x2.mstatus.SIE = x.mstatus.SPIE /\ x2.mstatus.SPP = PRV_U
      /\ \A f \in MachineFields : x2.mstatus[f] = x.mstatus[f]
  BY <1>3, <1>4 DEF StatusNames, SupFields
<1> HIDE DEF x2
<1>6. Only(x2, x3, {"prv"}) /\ x3.prv = LegalPrivilege(x2, x.mstatus.SPP) /\ Shaped(x3)
  BY <1>3, SetPrivilegeOnly
<1> HIDE DEF x3, to
<1>7. /\ x3.mstatus = x2.mstatus /\ x3.vsstatus = x.vsstatus /\ x3.v = x.v /\ x2.misa = x.misa
      /\ x3.pc = to
  BY <1>1, <1>3, <1>6 DEF Only, Soft
<1>8. x3.prv = LegalPrivilege(x, x.mstatus.SPP)
  BY <1>6, <1>7 DEF LegalPrivilege, Has
<1>9. Only(x, x3, {"pc", "mstatus", "prv"})
  BY <1>1, <1>3, <1>6 DEF Only
<1>10. x.v \in BOOLEAN /\ x.hstatus.SPV \in BOOLEAN /\ x.mstatus.SPP \in 0..1 /\ x.vsstatus.SPP \in 0..1
  BY DEF Sound, Legal
<1>11. CASE x.v
  <2>1. y = x3
    BY <1>11
  <2> HIDE DEF y
  <2>2. Only(x, y, {"pc", "mstatus", "vsstatus", "prv", "v"})
    BY <1>9, <2>1 DEF Only
  <2>3. /\ y.mstatus = x2.mstatus /\ y.vsstatus = x.vsstatus /\ y.v = x.v
        /\ y.pc = Aligned(x, x.vsepc) /\ y.prv = LegalPrivilege(x, x.mstatus.SPP)
    BY <1>7, <1>8, <1>11, <2>1 DEF to
  <2>4. y.mstatus.SPP \in 0..1 /\ y.vsstatus.SPP \in 0..1
    BY <1>5, <1>10, <2>3 DEF PRV_U
  <2>5. Sreted(x, y)
    BY <1>5, <1>11, <2>2, <2>3, <2>4 DEF Sreted
  <2> QED BY <1>0, <1>6, <2>1, <2>5 DEF y
<1>12. CASE ~x.v
  <2>1. y = SetVirt(x3, x.hstatus.SPV)
    BY <1>12
  <2>2. /\ Only(x3, y, {"mstatus", "vsstatus", "v"}) /\ Shaped(y) /\ Exchanged(x3, y)
        /\ y.v = IF x3.prv = PRV_M THEN x3.v ELSE x.hstatus.SPV
        /\ \A f \in MachineFields : y.mstatus[f] = x3.mstatus[f]
        /\ y.mstatus.SPP \in {x3.mstatus.SPP, x3.vsstatus.SPP}
        /\ y.vsstatus.SPP \in {x3.mstatus.SPP, x3.vsstatus.SPP}
    BY <1>6, <1>7, <1>10, <2>1, SetVirtExchanges
  <2> HIDE DEF y
  <2>3. Only(x, y, {"pc", "mstatus", "vsstatus", "prv", "v"}) /\ y.prv = x3.prv /\ y.pc = to
    BY <1>7, <1>9, <2>2 DEF Only, Soft
  <2>4. HostStatus(x3) = x2.mstatus /\ GuestStatus(x3) = x.vsstatus
    BY <1>7, <1>12 DEF HostStatus, GuestStatus
  <2>5. HostStatus(y).SIE = x.mstatus.SPIE /\ \A f \in SupFields : GuestStatus(y)[f] = x.vsstatus[f]
    BY <1>5, <2>2, <2>4 DEF Exchanged, SupFields
  <2>6. y.mstatus.SPP \in 0..1 /\ y.vsstatus.SPP \in 0..1
    BY <1>5, <1>7, <1>10, <2>2 DEF PRV_U
  <2>7. Sreted(x, y)
    BY <1>5, <1>7, <1>8, <1>12, <2>2, <2>3, <2>5, <2>6 DEF Sreted, to
  <2> QED BY <1>0, <2>2, <2>7 DEF y
<1> QED BY <1>11, <1>12

LEMMA SretMoves ==
  ASSUME NEW x, Sound(x), FramesHold(frames, x), ~x.debug_mode, Has(x, "S"),
         ExecSret(x).trap = NoTrap, NEW insn, insn.op = "sret", NEW npc
  PROVE  Moves(x, frames, ExecSret(x).h, InsnFrames(x, insn, npc))
<1> DEFINE y == ExecSret(x).h
           gr == InsnFrames(x, insn, npc)
           m == IF x.v THEN "VS" ELSE "HS"
           other == IF x.v THEN "HS" ELSE "VS"
<1>1. Shaped(y) /\ Sreted(x, y)
  BY SretOnly
<1>2. /\ DOMAIN gr = Modes
      /\ gr[m] = IF frames[m] = NoFrame THEN NoFrame ELSE [frames[m] EXCEPT !.state = "returned"]
      /\ gr[other] = frames[other] /\ gr["M"] = NoFrame
  BY DEF InsnFrames, Returning, FramesHold, Modes
<1> HIDE DEF y, gr
<1>3. /\ y.misa = x.misa /\ y.dcsr = x.dcsr /\ y.debug_mode = x.debug_mode /\ y.hstatus = x.hstatus
      /\ y.sepc = x.sepc /\ y.vsepc = x.vsepc
  BY <1>1 DEF Sreted, Only, Soft
<1>4. \A p \in 0..3 : LegalPrivilege(y, p) = LegalPrivilege(x, p)
  BY <1>3, LegalPrivileges
<1>5. x.v \in BOOLEAN /\ y.v \in BOOLEAN /\ x.mstatus.SPP \in 0..3
  BY <1>1 DEF Sound, Legal, Sreted
<1>6. Legal(y)
  <2>1. /\ y.mstatus.MPV = x.mstatus.MPV /\ y.mstatus.MPP = x.mstatus.MPP
        /\ y.mstatus.SPP \in 0..1 /\ y.vsstatus.SPP \in 0..1
        /\ y.v \in {x.v, x.hstatus.SPV}
    BY <1>1 DEF Sreted, MachineFields
  <2>2. y.prv \in 0..3 /\ LegalPrivilege(x, y.prv) = y.prv
    BY <1>1, <1>5, LegalPrivileges DEF Sreted
  <2> QED BY <1>3, <1>4, <2>1, <2>2 DEF Sound, Legal, HasMpv, Has
<1>7. gr[m].state # "saved" /\ "state" \in DOMAIN gr[m]
  <2>1. "state" \in DOMAIN frames[m]
    BY DEF FramesHold, Modes
  <2>2. [frames[m] EXCEPT !.state = "returned"].state = "returned"
    BY <2>1
  <2> QED BY <1>2, <2>1, <2>2 DEF NoFrame
<1>8. x.v => y.v /\ HostStatus(y) = HostStatus(x)
  BY <1>1, <1>5 DEF Sreted, HostStatus
<1>9. FramesHold(gr, y)
  <2>1. x.v /\ gr["HS"].state = "saved" => SavedHS(gr["HS"], y)
    BY <1>2, <1>3, <1>8 DEF FramesHold, SavedHS, SavedS, Has, LegalPrivilege
  <2>2. ~x.v /\ gr["VS"].state = "saved" => SavedVS(gr["VS"], y)
    <3> SUFFICES ASSUME ~x.v, frames["VS"].state = "saved" PROVE SavedVS(frames["VS"], y)
      BY <1>2
    <3>1. SavedVS(frames["VS"], x)
      BY DEF FramesHold
    <3>2. GuestStatus(y).SPP = GuestStatus(x).SPP /\ GuestStatus(y).SPIE = GuestStatus(x).SPIE
      <4>1. GuestStatus(x) = x.vsstatus
        BY DEF GuestStatus
      <4> QED BY <1>1, <4>1 DEF Sreted, SupFields
    <3> QED BY <1>3, <3>1, <3>2 DEF SavedVS, SavedS, Has, LegalPrivilege
  <2> QED BY <1>2, <1>7, <2>1, <2>2 DEF FramesHold, Modes, NoFrame
<1>10. Confined(x, y)
  <2> SUFFICES ASSUME InGuest(x), InGuest(y) PROVE HostView(y) = HostView(x)
    BY DEF Confined
  <2>1. HostSame(x, y)
    <3>1. x.v
      BY DEF InGuest
    <3> QED BY <1>1, <3>1 DEF Sreted, HostSame, Only, Soft
  <2> QED BY <2>1, HostSameView
<1>11. Risen(x, frames, y, gr)
  BY <1>2, <1>7 DEF Risen, Modes, NoFrame
<1>12. Returned(x, frames, y, gr)
  <2> SUFFICES ASSUME frames[m].state = "saved" PROVE RestoredIn(x, frames[m], m, y)
    BY <1>2 DEF Returned, Modes, NoFrame
  <2>1. CASE x.v
    <3>1. SavedVS(frames["VS"], x)
      BY <2>1 DEF FramesHold
    <3> QED BY <1>1, <2>1, <3>1 DEF Sreted, SavedVS, SavedS, GuestStatus, RestoredIn
  <2>2. CASE ~x.v
    <3> DEFINE f == frames["HS"]
    <3>1. SavedHS(f, x) /\ HostStatus(x) = x.mstatus
      BY <2>2 DEF FramesHold, HostStatus
    <3> HIDE DEF f
    <3>2. x.sepc = f.pc /\ x.hstatus.SPV = f.v /\ x.mstatus.SPP = f.prv /\ x.mstatus.SPIE = f.ie
          /\ LegalPrivilege(x, f.prv) = f.prv
      BY <3>1 DEF SavedHS, SavedS
    <3>3. f.prv # PRV_M
      BY <3>2 DEF Sound, Legal, PRV_M
    <3>4. y.prv = f.prv /\ y.v = f.v /\ y.pc = Aligned(x, f.pc) /\ HostStatus(y).SIE = f.ie
      BY <1>1, <2>2, <3>2, <3>3 DEF Sreted
    <3> QED BY <2>2, <3>4 DEF RestoredIn, f
  <2> QED BY <2>1, <2>2
<1> QED BY <1>1, <1>6, <1>9, <1>10, <1>11, <1>12 DEF Moves, Sound, y, gr

LEMMA DretMoves ==
  ASSUME NEW x, Sound(x), FramesHold(frames, x), x.debug_mode
  PROVE  Moves(x, frames, ExecDret(x).h, frames)
<1> DEFINE x1 == [x EXCEPT !.pc = Aligned(x, x.dpc)]
           x2 == SetPrivilege(x1, x.dcsr.prv)
           y == [x2 EXCEPT !.debug_mode = FALSE,
                           !.single_step = IF x.dcsr.step THEN "STEPPING" ELSE @]
<1>0. ExecDret(x).h = y
  BY DEF ExecDret, Out, Done, Result
<1>1. Only(x, x1, {"pc"}) /\ Shaped(x1)
  BY DEF Only, Soft, Sound, Shaped
<1> HIDE DEF x1
<1>2. Only(x1, x2, {"prv"}) /\ x2.prv = LegalPrivilege(x1, x.dcsr.prv) /\ Shaped(x2)
  BY <1>1, SetPrivilegeOnly
<1>3. LegalPrivilege(x1, x.dcsr.prv) = LegalPrivilege(x, x.dcsr.prv)
  BY <1>1 DEF Only, Soft, LegalPrivilege, Has
<1> HIDE DEF x2
<1>4. Only(x2, y, {"debug_mode"}) /\ Shaped(y) /\ y.debug_mode = FALSE
  BY <1>2 DEF Only, Soft, Shaped
<1> HIDE DEF y
<1>5. Only(x, y, {"pc", "prv", "debug_mode"}) /\ y.prv = LegalPrivilege(x, x.dcsr.prv)
  BY <1>1, <1>2, <1>3, <1>4 DEF Only, Soft
<1>6. /\ y.misa = x.misa /\ y.mstatus = x.mstatus /\ y.vsstatus = x.vsstatus /\ y.v = x.v
      /\ y.hstatus = x.hstatus /\ y.mepc = x.mepc /\ y.sepc = x.sepc /\ y.vsepc = x.vsepc
      /\ y.dcsr = x.dcsr
  BY <1>5 DEF Only, Soft
<1>7. \A p \in 0..3 : LegalPrivilege(y, p) = LegalPrivilege(x, p)
  BY <1>6, LegalPrivileges
<1>8. y.prv \in 0..3 /\ LegalPrivilege(x, y.prv) = y.prv
  BY <1>5, LegalPrivileges DEF Sound, Legal
<1>9. Legal(y)
  BY <1>4, <1>6, <1>7, <1>8 DEF Sound, Legal, HasMpv, Has
<1>10. \A f : LegalPrivilege(y, f.prv) = LegalPrivilege(x, f.prv)
  BY <1>6 DEF LegalPrivilege, Has
<1>11. \A f : SavedM(f, x) => SavedM(f, y)
  <2>1. \A f : SavedM(f, x) => y.prv = PRV_M
    BY <1>5 DEF SavedM, LegalPrivilege, PRV_M, PRV_S, PRV_U
  <2> QED BY <1>4, <1>6, <2>1 DEF SavedM
<1>12. \A f : SavedHS(f, x) => SavedHS(f, y)
  BY <1>6, <1>10 DEF SavedHS, SavedS, HostStatus, Has
<1>13. \A f : SavedVS(f, x) => SavedVS(f, y)
  BY <1>6, <1>10 DEF SavedVS, SavedS, GuestStatus
<1>14. FramesHold(frames, y)
  BY <1>11, <1>12, <1>13 DEF FramesHold
<1>15. ~InGuest(x)
  BY DEF Sound, Legal, InGuest, PRV_M, PRV_S
<1> QED BY <1>0, <1>4, <1>9, <1>14, <1>15 DEF Moves, Sound, Confined, Returned, Risen

----------------------------------------------------------------------------
(* Writes of registers.                                                    *)
LEMMA SetCsrBy ==
  ASSUME NEW x, NEW which, NEW val
  PROVE  LET y == SetCsr(x, which, val) IN
         /\ which = "pmpaddr" => y = SetPmpAddr(x, val[1], val[2])
         /\ which = "pmpcfg" => y = SetPmpCfg(x, val)
         /\ which \in Plain => y = SetPlain(x, which, val)
         /\ which \in MachineCsrs => y = SetMachine(x, which, val)
         /\ which \in SupervisorCsrs => y = SetSupervisor(x, which, val)
         /\ which \in HypervisorCsrs => y = SetHypervisor(x, which, val)
         /\ which \in DebugCsrs => y = SetDebug(x, which, val)
BY DEF SetCsr, Plain, MachineCsrs, SupervisorCsrs, HypervisorCsrs, DebugCsrs

\* neither a saved context nor the mode of the hart depends on what differs
Loose == {"mie", "mideleg", "medeleg", "mtvec", "mcause", "satp", "stvec", "scause", "hedeleg",
          "hideleg", "hgatp", "plain", "pmpaddr", "pmpcfg", "mstatus"}
Loosely(x, y) ==
  /\ Only(x, y, Loose)
  /\ StatusNames \subseteq DOMAIN y.mstatus /\ \A f \in StatusNames : y.mstatus[f] = x.mstatus[f]
  /\ PlainNames \subseteq DOMAIN y.plain
\* the registers a saved context or the mode depends on
FramedCsrs == {"mstatus", "sstatus", "vsstatus", "hstatus", "mepc", "sepc", "vsepc", "dcsr", "misa"}

LEMMA LooselyHolds ==
  ASSUME NEW x, NEW y, NEW fr, Sound(x), FramesHold(fr, x), Loosely(x, y)
  PROVE  Sound(y) /\ FramesHold(fr, y)
<1>1. /\ y.misa = x.misa /\ y.prv = x.prv /\ y.vsstatus = x.vsstatus /\ y.v = x.v
      /\ y.dcsr = x.dcsr /\ y.debug_mode = x.debug_mode /\ y.hstatus = x.hstatus
      /\ y.mepc = x.mepc /\ y.sepc = x.sepc /\ y.vsepc = x.vsepc
  BY DEF Loosely, Only, Soft, Loose
<1>2. /\ y.mstatus.MPP = x.mstatus.MPP /\ y.mstatus.SPP = x.mstatus.SPP
      /\ y.mstatus.MPV = x.mstatus.MPV /\ y.mstatus.MPIE = x.mstatus.MPIE
      /\ y.mstatus.SPIE = x.mstatus.SPIE
  BY DEF Loosely, StatusNames, MachineFields, SupFields
<1>3. SupView(y.mstatus) = SupView(x.mstatus)
  BY DEF Loosely, StatusNames, SupView
<1>4. \A p : LegalPrivilege(y, p) = LegalPrivilege(x, p)
  BY <1>1 DEF LegalPrivilege, Has
<1>5. Shaped(y)
  BY DEF Loosely, Only, Soft, Loose, Sound, Shaped
<1>6. Legal(y)
  BY <1>1, <1>2, <1>4 DEF Sound, Legal, HasMpv, Has
<1>7. \A f : SavedM(f, x) => SavedM(f, y)
  BY <1>1, <1>2, <1>3 DEF SavedM
<1>8. \A f : SavedHS(f, x) => SavedHS(f, y)
  BY <1>1, <1>2, <1>4 DEF SavedHS, SavedS, HostStatus, Has
<1>9. \A f : SavedVS(f, x) => SavedVS(f, y)
  BY <1>1, <1>2, <1>4 DEF SavedVS, SavedS, GuestStatus
<1> QED BY <1>5, <1>6, <1>7, <1>8, <1>9 DEF Sound, FramesHold

LEMMA OnlyLoosely ==
  ASSUME NEW x, NEW y, Shaped(x), Only(x, y, Loose \ {"mstatus", "plain"})
  PROVE  Loosely(x, y)
BY DEF Only, Soft, Loose, Loosely, Shaped

LEMMA PlainLoosely ==
  ASSUME NEW x, NEW which \in Plain, NEW val, Shaped(x)
  PROVE  LET y == SetPlain(x, which, val) IN
         /\ Loosely(x, y)
         /\ x.v /\ which \in {"sscratch", "stval", "fflags", "frm", "vxsat", "vxrm", "vstart"}
              => HostSame(x, y)
<1> DEFINE banked == IF x.v /\ which = "sscratch" THEN "vsscratch"
                     ELSE IF x.v /\ which = "stval" THEN "vstval" ELSE which
           x1 == IF which \in {"fflags", "frm"} THEN DirtyFp(x)
                 ELSE IF which \in {"vxsat", "vxrm", "vstart"} THEN DirtyVs(x) ELSE x
           y == SetPlain(x, which, val)
<1>1. /\ Only(x, x1, {"mstatus"}) /\ DOMAIN x1.mstatus = DOMAIN x.mstatus
      /\ \A f \in StatusNames : x1.mstatus[f] = x.mstatus[f]
  BY DEF DirtyFp, DirtyVs, Only, Soft, Shaped, StatusNames, MachineFields, SupFields
<1>2. y = [x1 EXCEPT !.plain[banked] = val]
  BY DEF SetPlain
<1> HIDE DEF x1, y
<1>3. /\ Only(x1, y, {"plain"}) /\ y.mstatus = x1.mstatus /\ DOMAIN y.plain = DOMAIN x1.plain
      /\ \A c \in PlainNames : c # banked => y.plain[c] = x1.plain[c]
  BY <1>1, <1>2 DEF Only, Soft, Shaped
<1>4. x1.plain = x.plain /\ Only(x, y, {"mstatus", "plain"})
  BY <1>1, <1>3 DEF Only, Soft
<1>5. Loosely(x, y)
  BY <1>1, <1>3, <1>4 DEF Loosely, Loose, Only, Shaped
<1>6. ASSUME x.v, which \in {"sscratch", "stval", "fflags", "frm", "vxsat", "vxrm", "vstart"}
      PROVE  HostSame(x, y)
  <2>1. banked \notin PlainNames
    BY <1>6 DEF PlainNames
  <2>2. y.mie = x.mie
    BY <1>4 DEF Only, Soft
  <2> QED BY <1>1, <1>3, <1>4, <2>1, <2>2 DEF HostSame, Only, StatusNames
<1> QED BY <1>5, <1>6 DEF y

LEMMA PmpLoosely ==
  ASSUME NEW x, NEW i, NEW val, Shaped(x)
  PROVE  Loosely(x, SetPmpAddr(x, i, val)) /\ Loosely(x, SetPmpCfg(x, val))
<1>1. ASSUME NEW u PROVE /\ Loosely(x, FlushTlb([x EXCEPT !.pmpaddr = u]))
                         /\ Loosely(x, FlushTlb([x EXCEPT !.pmpcfg = u]))
  <2> DEFINE a == [x EXCEPT !.pmpaddr = u]
             b == [x EXCEPT !.pmpcfg = u]
  <2>1. Only(x, a, {"pmpaddr"}) /\ Only(x, b, {"pmpcfg"}) /\ Shaped(a) /\ Shaped(b)
    BY DEF Only, Soft, Shaped
  <2> HIDE DEF a, b
  <2>2. Only(a, FlushTlb(a), {}) /\ Only(b, FlushTlb(b), {})
    BY <2>1, FlushOnly
  <2>3. Only(x, FlushTlb(a), {"pmpaddr"}) /\ Only(x, FlushTlb(b), {"pmpcfg"})
    BY <2>1, <2>2 DEF Only
  <2>4. /\ Only(x, FlushTlb(a), Loose \ {"mstatus", "plain"})
        /\ Only(x, FlushTlb(b), Loose \ {"mstatus", "plain"})
    BY <2>3 DEF Only, Loose
  <2> QED BY <2>4, OnlyLoosely DEF a, b
<1>2. Loosely(x, x) /\ Loosely(x, FlushTlb(x))
  <2>1. Only(x, x, {}) /\ Only(x, FlushTlb(x), {})
    BY FlushOnly DEF Only
  <2> QED BY <2>1, OnlyLoosely DEF Only
<1>3. Loosely(x, SetPmpAddr(x, i, val))
  BY <1>1, <1>2 DEF SetPmpAddr
<1>4. Loosely(x, SetPmpCfg(x, val))
  BY <1>1, <1>2 DEF SetPmpCfg
<1> QED BY <1>3, <1>4

LEMMA MachineLoosely ==
  ASSUME NEW x, NEW which \in MachineCsrs \ FramedCsrs, NEW val, Shaped(x)
  PROVE  LET y == SetMachine(x, which, val) IN
         Loosely(x, y) /\ (which = "scounteren" => HostSame(x, y))
<1> DEFINE y == SetMachine(x, which, val)
<1>1. Only(x, y, {"mie", "mideleg", "medeleg", "mtvec", "mcause"})
  BY DEF MachineCsrs, FramedCsrs, SetMachine, SetMip, SetMie, SetMideleg, SetMinstret, Only, Soft,
         Shaped
<1>2. which = "scounteren" => Only(x, y, {})
  BY DEF SetMachine, Only, Soft, Shaped
<1> HIDE DEF y
<1>3. Loosely(x, y)
  <2>1. Only(x, y, Loose \ {"mstatus", "plain"})
    BY <1>1 DEF Only, Loose
  <2> QED BY <2>1, OnlyLoosely
<1>4. which = "scounteren" => HostSame(x, y)
  BY <1>2 DEF HostSame, Only, Soft
<1> QED BY <1>3, <1>4 DEF y

LEMMA SupervisorLoosely ==
  ASSUME NEW x, NEW which \in SupervisorCsrs \ FramedCsrs, NEW val, Shaped(x)
  PROVE  LET y == SetSupervisor(x, which, val) IN Loosely(x, y) /\ (x.v => HostSame(x, y))
<1> DEFINE y == SetSupervisor(x, which, val)
<1>1. CASE which = "sip"
  <2>1. Only(x, y, {})
    BY <1>1 DEF SetSupervisor, SetSip, Only, Soft, Shaped
  <2> QED BY <2>1, OnlyLoosely DEF Only, HostSame, Soft
<1>2. CASE which = "sie"
  <2>1. Only(x, y, {"mie"})
    BY <1>2 DEF SetSupervisor, SetSie, Only, Soft, Shaped
  <2>2. x.v => y.mie \ VSInts = x.mie \ VSInts
    <3>1. x.v => y = [x EXCEPT !.mie = Masked(@, Up(val), x.hideleg \cap VSInts)]
      BY <1>2 DEF SetSupervisor, SetSie
    <3>2. x.v => y.mie = Masked(x.mie, Up(val), x.hideleg \cap VSInts)
      BY <3>1 DEF Shaped, Soft
    <3> QED BY <3>2 DEF Masked
  <2>3. Only(x, y, Loose \ {"mstatus", "plain"})
    BY <2>1 DEF Only, Loose
  <2> QED BY <2>1, <2>2, <2>3, OnlyLoosely DEF Only, HostSame, Soft
<1>3. CASE which = "satp"
  <2> DEFINE x1 == FlushTlb(x)
  <2>1. Only(x, x1, {}) /\ Shaped(x1)
    BY FlushOnly DEF Only, Soft, Shaped
  <2>2. y = IF x.v THEN [x1 EXCEPT !.vsatp = Satp(val)] ELSE [x1 EXCEPT !.satp = Satp(val)]
    BY <1>3 DEF SetSupervisor, SetSatp
  <2> HIDE DEF x1
  <2>3. Only(x1, y, {"satp"}) /\ (x.v => Only(x1, y, {}))
    BY <2>1, <2>2 DEF Only, Soft, Shaped
  <2>4. Only(x, y, {"satp"}) /\ (x.v => Only(x, y, {}))
    BY <2>1, <2>3 DEF Only
  <2>5. Only(x, y, Loose \ {"mstatus", "plain"})
    BY <2>4 DEF Only, Loose
  <2> QED BY <2>4, <2>5, OnlyLoosely DEF Only, HostSame, Soft
<1>4. CASE which \in {"stvec", "scause"}
  <2>1. Only(x, y, {"stvec", "scause"}) /\ (x.v => Only(x, y, {}))
    BY <1>4 DEF SetSupervisor, SetStvec, SetScause, Only, Soft, Shaped
  <2>2. Only(x, y, Loose \ {"mstatus", "plain"})
    BY <2>1 DEF Only, Loose
  <2> QED BY <2>1, <2>2, OnlyLoosely DEF Only, HostSame, Soft
<1> QED BY <1>1, <1>2, <1>3, <1>4 DEF SupervisorCsrs, FramedCsrs

LEMMA HypervisorLoosely ==
  ASSUME NEW x, NEW which \in HypervisorCsrs \ FramedCsrs, NEW val, Shaped(x)
  PROVE  Loosely(x, SetHypervisor(x, which, val))
<1> DEFINE y == SetHypervisor(x, which, val)
<1>1. CASE which \in {"hgatp", "vsatp"}
  <2> DEFINE x1 == FlushTlb(x)
  <2>1. Only(x, x1, {}) /\ Shaped(x1)
    BY FlushOnly DEF Only, Soft, Shaped
  <2>2. y \in {[x1 EXCEPT !.vsatp = Satp(val)], [x1 EXCEPT !.hgatp = Satp(val)]}
    BY <1>1 DEF SetHypervisor
  <2> HIDE DEF x1
  <2>3. Only(x1, y, {"hgatp"})
    BY <2>1, <2>2 DEF Only, Soft, Shaped
  <2>4. Only(x, y, Loose \ {"mstatus", "plain"})
    BY <2>1, <2>3 DEF Only, Loose
  <2> QED BY <2>4, OnlyLoosely
<1>2. CASE which = "htval"
  <2>1. y = [x EXCEPT !.plain["htinst"] = val]
    BY <1>2 DEF SetHypervisor
  <2> QED BY <2>1 DEF Loosely, Loose, Only, Soft, Shaped
<1>3. CASE which \in {"hedeleg", "hideleg", "hie", "hcounteren", "hip", "hvip", "vsie", "vsip",
                      "vstvec", "vscause"}
  <2>1. Only(x, y, {"mie", "hedeleg", "hideleg"})
    BY <1>3 DEF SetHypervisor, SetHie, SetHip, SetHvip, SetVsie, SetVsip, Only, Soft, Shaped
  <2>2. Only(x, y, Loose \ {"mstatus", "plain"})
    BY <2>1 DEF Only, Loose
  <2> QED BY <2>2, OnlyLoosely
<1> QED BY <1>1, <1>2, <1>3 DEF HypervisorCsrs, FramedCsrs

LEMMA DebugLoosely ==
  ASSUME NEW x, NEW which \in DebugCsrs \ FramedCsrs, NEW val, Shaped(x)
  PROVE  Loosely(x, SetDebug(x, which, val))
<1> DEFINE y == SetDebug(x, which, val)
<1>1. Only(x, y, {})
  <2>1. CASE which = "tdata1"
    <3>1. ASSUME NEW u PROVE Only(x, TriggerUpdated([x EXCEPT !.mcontrol = u]), {})
      <4> DEFINE x1 == [x EXCEPT !.mcontrol = u]
                 x2 == FlushTlb(x1)
      <4>1. Only(x, x1, {}) /\ Shaped(x1)
        BY DEF Only, Soft, Shaped
      <4> HIDE DEF x1
      <4>2. Only(x1, x2, {})
        BY <4>1, FlushOnly
      <4>3. PICK c : TriggerUpdated(x1) = [x2 EXCEPT !.checks = c]
        BY DEF TriggerUpdated
      <4> HIDE DEF x2
      <4>4. Only(x, TriggerUpdated(x1), {})
        BY <4>1, <4>2, <4>3 DEF Only, Soft, Shaped
      <4> QED BY <4>4 DEF x1
    <3>2. Only(x, x, {})
      BY DEF Only
    <3> QED BY <2>1, <3>1, <3>2 DEF SetDebug, SetTdata1
  <2>2. CASE which \in {"tselect", "tdata2", "dpc"}
    BY <2>2 DEF SetDebug, SetTselect, SetTdata2, Only, Soft, Shaped
  <2> QED BY <2>1, <2>2 DEF DebugCsrs, FramedCsrs
<1>2. Only(x, y, Loose \ {"mstatus", "plain"})
  BY <1>1 DEF Only
<1> QED BY <1>2, OnlyLoosely

----------------------------------------------------------------------------
(* Writes that a saved context depends on.                                 *)

\* the modes that may write what a saved context depends on
LEMMA FramedPrivileges ==
  ASSUME NEW which \in FramedCsrs
  PROVE  CsrPrivilege(which) <= PRV_S <=> which \in {"sstatus", "sepc"}
<1> DEFINE machine == MachineCsrs \ {"scounteren"}
           others == {"pmpaddr", "pmpcfg", "mscratch", "mtval", "mtval2", "mtinst", "dscratch0"}
                       \union DebugCsrs
           hypervisor == HypervisorCsrs \union {"htinst", "vsscratch", "vstval"}
           supervisor == SupervisorCsrs \union {"scounteren", "sscratch", "stval"}
<1>0. CsrPrivilege(which) = CASE which \in machine -> PRV_M [] which \in others -> PRV_M
                              [] which \in hypervisor -> 2 [] which \in supervisor -> PRV_S
                              [] OTHER -> PRV_U
  BY DEF CsrPrivilege
<1>1. CASE which \in {"sstatus", "sepc"}
  <2>1. which \notin machine /\ which \notin others /\ which \notin hypervisor /\ which \in supervisor
    BY <1>1 DEF MachineCsrs, HypervisorCsrs, DebugCsrs, SupervisorCsrs
  <2> HIDE DEF machine, others, hypervisor, supervisor
  <2>2. CsrPrivilege(which) = PRV_S
    BY <1>0, <2>1, Zenon
  <2> QED BY <1>1, <2>2 DEF PRV_S
<1>2. CASE which \in {"mstatus", "mepc", "misa", "dcsr"}
  <2>1. /\ which \in machine \/ which \in others
        /\ which \notin hypervisor /\ which \notin supervisor
    BY <1>2 DEF MachineCsrs, HypervisorCsrs, DebugCsrs, SupervisorCsrs
  <2> HIDE DEF machine, others, hypervisor, supervisor
  <2>2. CsrPrivilege(which) = PRV_M
    BY <1>0, <2>1, Zenon
  <2> QED BY <1>2, <2>2 DEF PRV_M, PRV_S
<1>3. CASE which \in {"vsstatus", "hstatus", "vsepc"}
  <2>1. which \notin machine /\ which \notin others /\ which \in hypervisor /\ which \notin supervisor
    BY <1>3 DEF MachineCsrs, HypervisorCsrs, DebugCsrs, SupervisorCsrs
  <2> HIDE DEF machine, others, hypervisor, supervisor
  <2>2. CsrPrivilege(which) = 2
    BY <1>0, <2>1, Zenon
  <2> QED BY <1>3, <2>2 DEF PRV_S
<1> QED BY <1>1, <1>2, <1>3 DEF FramedCsrs

\* a value that fits the fields of a register, and does not take H away
Fits(which, val) ==
  /\ which \in {"mstatus", "sstatus", "vsstatus"} =>
       val.MPP \in 0..3 /\ val.SPP \in 0..1 /\ val.MPV \in BOOLEAN
  /\ which = "hstatus" => "SPV" \in DOMAIN val /\ val.SPV \in BOOLEAN
  /\ which = "dcsr" => "prv" \in DOMAIN val /\ val.prv \in 0..3
  /\ which = "misa" => "H" \in val \/ "H" \notin MaxIsa

\* the frames after a write of the register
Voided(x, fr, which) ==
  [m \in DOMAIN fr |-> IF which \in Voids(x)[m] THEN NoFrame ELSE fr[m]]

\* what a write of a register does to a hart
Wrote(x, fr, which, y) ==
  /\ Sound(y) /\ FramesHold(Voided(x, fr, which), y) /\ y.debug_mode = x.debug_mode
  /\ x.v /\ CsrPrivilege(which) <= PRV_S => HostSame(x, y)

LEMMA VoidedHolds ==
  ASSUME NEW x, NEW y, NEW which, NEW fr, FramesHold(fr, x),
         which \notin Voids(x)["M"] => (\A f : SavedM(f, x) => SavedM(f, y)),
         which \notin Voids(x)["HS"] => (\A f : SavedHS(f, x) => SavedHS(f, y)),
         which \notin Voids(x)["VS"] => (\A f : SavedVS(f, x) => SavedVS(f, y))
  PROVE  FramesHold(Voided(x, fr, which), y)
<1> DEFINE gr == Voided(x, fr, which)
<1>1. /\ DOMAIN gr = Modes /\ DOMAIN fr = Modes
      /\ \A m \in Modes : gr[m] = IF which \in Voids(x)[m] THEN NoFrame ELSE fr[m]
  BY DEF Voided, FramesHold
<1> HIDE DEF gr
<1>2. \A m \in Modes : "state" \in DOMAIN gr[m]
  BY <1>1 DEF FramesHold, NoFrame
<1>3. \A m \in Modes : gr[m].state = "saved" => which \notin Voids(x)[m] /\ gr[m] = fr[m]
  BY <1>1 DEF NoFrame
<1>4. gr["M"].state = "saved" => SavedM(gr["M"], y)
  BY <1>3 DEF FramesHold, Modes
<1>5. gr["HS"].state = "saved" => SavedHS(gr["HS"], y)
  BY <1>3 DEF FramesHold, Modes
<1>6. gr["VS"].state = "saved" => SavedVS(gr["VS"], y)
  BY <1>3 DEF FramesHold, Modes
<1> QED BY <1>1, <1>2, <1>4, <1>5, <1>6 DEF FramesHold, gr

\* mstatus and the view of it that is sstatus
LEMMA StatusWrites ==
  ASSUME NEW x, NEW which \in {"mstatus", "sstatus"}, NEW val, NEW fr, Sound(x), FramesHold(fr, x),
         Fits(which, val)
  PROVE  Wrote(x, fr, which, SetCsr(x, which, val))
<1> DEFINE new == IF which = "mstatus" THEN val ELSE Fields(x.mstatus, val, SstatusFields(x))
           y == SetMstatus(x, new)
<1>1. SetCsr(x, which, val) = y
  BY SetCsrBy DEF MachineCsrs, SupervisorCsrs, SetMachine, SetSupervisor, SetSstatus
<1>2. /\ Only(x, y, {"mstatus"}) /\ Shaped(y)
      /\ \A f \in StatusNames : y.mstatus[f] = StatusSet(x, new, f)
  BY SetMstatusOnly DEF Sound
<1> HIDE DEF y
<1>3. new.MPP \in 0..3 /\ new.SPP \in 0..1 /\ new.MPV \in BOOLEAN
  BY DEF Fits, Sound, Shaped, Legal, Fields, SstatusFields, StatusNames, MachineFields, SupFields
<1>4. which = "sstatus" => \A f \in MachineFields : new[f] = x.mstatus[f]
  BY DEF Sound, Shaped, Fields, SstatusFields, StatusNames, MachineFields
<1> HIDE DEF new
<1>5. /\ y.misa = x.misa /\ y.prv = x.prv /\ y.vsstatus = x.vsstatus /\ y.v = x.v
      /\ y.dcsr = x.dcsr /\ y.debug_mode = x.debug_mode /\ y.hstatus = x.hstatus
      /\ y.sepc = x.sepc /\ y.vsepc = x.vsepc /\ y.mie = x.mie /\ y.plain = x.plain
  BY <1>2 DEF Only, Soft
<1>6. \A p : LegalPrivilege(y, p) = LegalPrivilege(x, p)
  BY <1>5 DEF LegalPrivilege, Has
<1>7. /\ y.mstatus.MPP = LegalPrivilege(x, new.MPP)
      /\ y.mstatus.SPP \in {new.SPP, x.mstatus.SPP}
      /\ y.mstatus.MPV = IF HasMpv(x) THEN new.MPV ELSE x.mstatus.MPV
  BY <1>2 DEF StatusNames, MachineFields, SupFields, StatusSet, StatusFields
<1>8. Legal(y)
  <2>1. y.mstatus.MPP \in 0..3 /\ LegalPrivilege(x, y.mstatus.MPP) = y.mstatus.MPP
    BY <1>3, <1>7, LegalPrivileges
  <2>2. y.mstatus.SPP \in 0..1 /\ y.mstatus.MPV \in BOOLEAN /\ (y.mstatus.MPV => HasMpv(x))
    BY <1>3, <1>7 DEF Sound, Legal
  <2> QED BY <1>5, <1>6, <2>1, <2>2 DEF Sound, Legal, HasMpv, Has
<1>9. which \in Voids(x)["M"]
  BY DEF Voids
<1>10. which \notin Voids(x)["HS"] => \A f : SavedHS(f, x) => SavedHS(f, y)
  <2>1. which \notin Voids(x)["HS"] => x.v
    BY DEF Voids
  <2> QED BY <1>5, <1>6, <2>1 DEF SavedHS, SavedS, HostStatus, Has
<1>11. which \notin Voids(x)["VS"] => \A f : SavedVS(f, x) => SavedVS(f, y)
  <2>1. which \notin Voids(x)["VS"] => ~x.v
    BY DEF Voids
  <2> QED BY <1>5, <1>6, <2>1 DEF SavedVS, SavedS, GuestStatus
<1>12. FramesHold(Voided(x, fr, which), y)
  BY <1>9, <1>10, <1>11, VoidedHolds
<1>13. CsrPrivilege(which) <= PRV_S => HostSame(x, y)
  <2> SUFFICES ASSUME CsrPrivilege(which) <= PRV_S PROVE HostSame(x, y)
    OBVIOUS
  <2>1. which = "sstatus"
    BY FramedPrivileges DEF FramedCsrs
  <2>2. \A f \in MachineFields : StatusSet(x, new, f) = x.mstatus[f]
    BY <1>4, <2>1 DEF StatusSet, MachineFields, Sound, Legal
  <2> QED BY <1>2, <1>5, <2>2 DEF HostSame, Only, StatusNames
<1> QED BY <1>1, <1>2, <1>5, <1>8, <1>12, <1>13 DEF Wrote, Sound

\* a hart that is the same but for registers no mode depends on
LEMMA LegalOnly ==
  ASSUME NEW x, NEW y, Sound(x), Shaped(y), Only(x, y, {"mepc", "sepc", "vsepc"})
  PROVE  /\ Sound(y)
         /\ (\A f : SavedM(f, x) /\ y.mepc = x.mepc => SavedM(f, y))
         /\ (\A f : SavedHS(f, x) /\ y.sepc = x.sepc => SavedHS(f, y))
         /\ (\A f : SavedVS(f, x) /\ y.vsepc = x.vsepc => SavedVS(f, y))
<1>1. /\ y.misa = x.misa /\ y.prv = x.prv /\ y.vsstatus = x.vsstatus /\ y.v = x.v
      /\ y.dcsr = x.dcsr /\ y.debug_mode = x.debug_mode /\ y.hstatus = x.hstatus
      /\ y.mstatus = x.mstatus
  BY DEF Only, Soft
<1>2. \A p : LegalPrivilege(y, p) = LegalPrivilege(x, p)
  BY <1>1 DEF LegalPrivilege, Has
<1>3. Legal(y)
  BY <1>1, <1>2 DEF Sound, Legal, HasMpv, Has
<1>4. (\A f : SavedM(f, x) /\ y.mepc = x.mepc => SavedM(f, y))
  BY <1>1 DEF SavedM
<1>5. (\A f : SavedHS(f, x) /\ y.sepc = x.sepc => SavedHS(f, y))
  BY <1>1, <1>2 DEF SavedHS, SavedS, HostStatus, Has
<1>6. (\A f : SavedVS(f, x) /\ y.vsepc = x.vsepc => SavedVS(f, y))
  BY <1>1, <1>2 DEF SavedVS, SavedS, GuestStatus
<1> QED BY <1>3, <1>4, <1>5, <1>6 DEF Sound

LEMMA EpcWrites ==
  ASSUME NEW x, NEW which \in {"mepc", "sepc", "vsepc"}, NEW val, NEW fr, Sound(x), FramesHold(fr, x)
  PROVE  Wrote(x, fr, which, SetCsr(x, which, val))
<1> DEFINE y == SetCsr(x, which, val)
<1>1. y = IF which = "mepc" THEN [x EXCEPT !.mepc = EpcOf(val)]
          ELSE IF which = "vsepc" \/ x.v THEN [x EXCEPT !.vsepc = EvenOf(val)]
          ELSE [x EXCEPT !.sepc = EpcOf(val)]
  BY SetCsrBy DEF MachineCsrs, SupervisorCsrs, HypervisorCsrs, SetMachine, SetSupervisor,
                  SetHypervisor, SetSepc
<1> HIDE DEF y
<1>2. Shaped(y) /\ Only(x, y, {"mepc", "sepc", "vsepc"})
  BY <1>1 DEF Sound, Shaped, Only, Soft
<1>3. /\ which # "mepc" => y.mepc = x.mepc
      /\ which # "sepc" \/ x.v => y.sepc = x.sepc
      /\ which = "mepc" \/ (which = "sepc" /\ ~x.v) => y.vsepc = x.vsepc
  BY <1>1 DEF Sound, Shaped, Soft
<1>4. /\ which \notin Voids(x)["M"] => which # "mepc"
      /\ which \notin Voids(x)["HS"] => which # "sepc" \/ x.v
      /\ which \notin Voids(x)["VS"] => which = "mepc" \/ (which = "sepc" /\ ~x.v)
  BY DEF Voids
<1>5. Sound(y) /\ FramesHold(Voided(x, fr, which), y)
  BY <1>2, <1>3, <1>4, LegalOnly, VoidedHolds
<1>6. CsrPrivilege(which) <= PRV_S /\ x.v => HostSame(x, y)
  <2>1. CsrPrivilege(which) <= PRV_S => which = "sepc"
    BY FramedPrivileges DEF FramedCsrs
  <2> QED BY <1>2, <1>3, <2>1 DEF HostSame, Only, Soft
<1>7. y.debug_mode = x.debug_mode
  BY <1>2 DEF Only, Soft
<1> QED BY <1>5, <1>6, <1>7 DEF Wrote, y

LEMMA HstatusWrites ==
  ASSUME NEW x, NEW val, NEW fr, Sound(x), FramesHold(fr, x), Fits("hstatus", val), Has(x, "H")
  PROVE  Wrote(x, fr, "hstatus", SetCsr(x, "hstatus", val))
<1> DEFINE y == SetCsr(x, "hstatus", val)
<1>1. y = [x EXCEPT !.hstatus = val]
  BY SetCsrBy DEF HypervisorCsrs, SetHypervisor
<1> HIDE DEF y
<1>2. Shaped(y) /\ Only(x, y, {"hstatus"}) /\ y.hstatus = val
  BY <1>1 DEF Sound, Shaped, Only, Soft, Fits
<1>3. /\ y.misa = x.misa /\ y.prv = x.prv /\ y.vsstatus = x.vsstatus /\ y.v = x.v
      /\ y.dcsr = x.dcsr /\ y.debug_mode = x.debug_mode /\ y.mepc = x.mepc
      /\ y.mstatus = x.mstatus /\ y.vsepc = x.vsepc
  BY <1>2 DEF Only, Soft
<1>4. \A p : LegalPrivilege(y, p) = LegalPrivilege(x, p)
  BY <1>3 DEF LegalPrivilege, Has
<1>5. Legal(y)
  BY <1>2, <1>3, <1>4 DEF Sound, Legal, HasMpv, Has, Fits
<1>6. \A f : SavedM(f, x) => SavedM(f, y)
  BY <1>3 DEF SavedM
<1>7. \A f : SavedVS(f, x) => SavedVS(f, y)
  BY <1>3, <1>4 DEF SavedVS, SavedS, GuestStatus
<1>8. "hstatus" \in Voids(x)["HS"]
  BY DEF Voids
<1>9. FramesHold(Voided(x, fr, "hstatus"), y)
  BY <1>6, <1>7, <1>8, VoidedHolds
<1>10. ~(CsrPrivilege("hstatus") <= PRV_S)
  BY FramedPrivileges DEF FramedCsrs
<1> QED BY <1>2, <1>3, <1>5, <1>9, <1>10 DEF Wrote, Sound, y

LEMMA VsstatusWrites ==
  ASSUME NEW x, NEW val, NEW fr, Sound(x), FramesHold(fr, x), Fits("vsstatus", val)
  PROVE  Wrote(x, fr, "vsstatus", SetCsr(x, "vsstatus", val))
<1> DEFINE y == SetCsr(x, "vsstatus", val)
           s == Fields(x.vsstatus, val, VsstatusFields(x))
<1>1. y = [x EXCEPT !.vsstatus = s]
  BY SetCsrBy DEF HypervisorCsrs, SetHypervisor
<1> HIDE DEF y
<1>2. StatusNames \subseteq DOMAIN s /\ s.SPP \in 0..1
  BY DEF Fields, VsstatusFields, Sound, Shaped, StatusNames, SupFields, Fits
<1> HIDE DEF s
<1>3. Shaped(y) /\ Only(x, y, {"vsstatus"}) /\ y.vsstatus = s
  BY <1>1, <1>2 DEF Sound, Shaped, Only, Soft
<1>4. /\ y.misa = x.misa /\ y.prv = x.prv /\ y.hstatus = x.hstatus /\ y.v = x.v
      /\ y.dcsr = x.dcsr /\ y.debug_mode = x.debug_mode /\ y.mstatus = x.mstatus
  BY <1>3 DEF Only, Soft
<1>5. \A p : LegalPrivilege(y, p) = LegalPrivilege(x, p)
  BY <1>4 DEF LegalPrivilege, Has
<1>6. Legal(y)
  BY <1>2, <1>3, <1>4, <1>5 DEF Sound, Legal, HasMpv, Has
<1>7. \A m \in Modes : "vsstatus" \in Voids(x)[m]
  BY DEF Voids, Modes
<1>8. FramesHold(Voided(x, fr, "vsstatus"), y)
  BY <1>7, VoidedHolds DEF Modes
<1>9. ~(CsrPrivilege("vsstatus") <= PRV_S)
  BY FramedPrivileges DEF FramedCsrs
<1> QED BY <1>3, <1>4, <1>6, <1>8, <1>9 DEF Wrote, Sound, y

LEMMA DcsrWrites ==
  ASSUME NEW x, NEW val, NEW fr, Sound(x), FramesHold(fr, x), Fits("dcsr", val)
  PROVE  Wrote(x, fr, "dcsr", SetCsr(x, "dcsr", val))
<1> DEFINE y == SetCsr(x, "dcsr", val)
           d == [val EXCEPT !.cause = x.dcsr.cause]
<1>1. y = [x EXCEPT !.dcsr = d]
  BY SetCsrBy DEF DebugCsrs, SetDebug, SetDcsr
<1> HIDE DEF y
<1>2. "prv" \in DOMAIN d /\ d.prv \in 0..3
  BY DEF Fits
<1> HIDE DEF d
<1>3. Shaped(y) /\ Only(x, y, {"dcsr"}) /\ y.dcsr = d
  BY <1>1, <1>2 DEF Sound, Shaped, Only, Soft
<1>4. /\ y.misa = x.misa /\ y.prv = x.prv /\ y.vsstatus = x.vsstatus /\ y.v = x.v
      /\ y.hstatus = x.hstatus /\ y.debug_mode = x.debug_mode /\ y.sepc = x.sepc
      /\ y.mstatus = x.mstatus /\ y.vsepc = x.vsepc
  BY <1>3 DEF Only, Soft
<1>5. \A p : LegalPrivilege(y, p) = LegalPrivilege(x, p)
  BY <1>4 DEF LegalPrivilege, Has
<1>6. Legal(y)
  BY <1>2, <1>3, <1>4, <1>5 DEF Sound, Legal, HasMpv, Has
<1>7. \A f : SavedHS(f, x) => SavedHS(f, y)
  BY <1>4, <1>5 DEF SavedHS, SavedS, HostStatus, Has
<1>8. \A f : SavedVS(f, x) => SavedVS(f, y)
  BY <1>4, <1>5 DEF SavedVS, SavedS, GuestStatus
<1>9. "dcsr" \in Voids(x)["M"]
  BY DEF Voids
<1>10. FramesHold(Voided(x, fr, "dcsr"), y)
  BY <1>7, <1>8, <1>9, VoidedHolds
<1>11. ~(CsrPrivilege("dcsr") <= PRV_S)
  BY FramedPrivileges DEF FramedCsrs
<1> QED BY <1>3, <1>4, <1>6, <1>10, <1>11 DEF Wrote, Sound, y

LEMMA MisaWrites ==
  ASSUME NEW x, NEW val, NEW fr, Sound(x), FramesHold(fr, x), Fits("misa", val)
  PROVE  Wrote(x, fr, "misa", SetCsr(x, "misa", val))
<1> DEFINE y == SetCsr(x, "misa", val)
           asked == IF "F" \in val THEN val ELSE val \ {"D"}
           misa == Masked(x.misa, asked, MisaMask \cap MaxIsa)
<1>1. y = SetMisa(x, val)
  BY SetCsrBy DEF MachineCsrs, SetMachine
<1>2. PICK d : y = x \/ y = [x EXCEPT !.misa = misa, !.mideleg = d]
  BY <1>1 DEF SetMisa
<1> HIDE DEF y
<1>3. \A e \in {"S", "U", "H"} : e \in misa <=> e \in x.misa
  <2>1. "S" \in misa <=> "S" \in x.misa
    BY DEF Masked, MisaMask
  <2>2. "U" \in misa <=> "U" \in x.misa
    BY DEF Masked, MisaMask
  <2>3. "H" \in misa <=> "H" \in x.misa
    BY DEF Masked, MisaMask, Fits, Sound, Legal, Has
  <2> QED BY <2>1, <2>2, <2>3
<1> HIDE DEF misa
<1>4. Shaped(y) /\ Only(x, y, {"misa", "mideleg"})
  BY <1>2 DEF Sound, Shaped, Only, Soft
<1>12. \A e \in {"S", "U", "H"} : Has(y, e) <=> Has(x, e)
  <2>1. y.misa = x.misa \/ y.misa = misa
    BY <1>2 DEF Sound, Shaped, Soft
  <2> QED BY <1>3, <2>1 DEF Has
<1>5. /\ y.prv = x.prv /\ y.vsstatus = x.vsstatus /\ y.hstatus = x.hstatus /\ y.v = x.v
      /\ y.dcsr = x.dcsr /\ y.debug_mode = x.debug_mode /\ y.mstatus = x.mstatus
  BY <1>4 DEF Only, Soft
<1>6. \A p : LegalPrivilege(y, p) = LegalPrivilege(x, p)
  BY <1>12 DEF LegalPrivilege
<1>7. (HasMpv(y) <=> HasMpv(x)) /\ (Has(y, "H") <=> Has(x, "H"))
  BY <1>12 DEF HasMpv
<1>8. Legal(y)
  BY <1>5, <1>6, <1>7 DEF Sound, Legal
<1>9. \A m \in Modes : "misa" \in Voids(x)[m]
  BY DEF Voids, Modes
<1>10. FramesHold(Voided(x, fr, "misa"), y)
  BY <1>9, VoidedHolds DEF Modes
<1>11. ~(CsrPrivilege("misa") <= PRV_S)
  BY FramedPrivileges DEF FramedCsrs
<1> QED BY <1>4, <1>5, <1>8, <1>10, <1>11 DEF Wrote, Sound, y

\* the registers a guest may write at all
LEMMA GuestWrites ==
  ASSUME NEW which \in WritableCsrs, CsrPrivilege(which) <= PRV_S
  PROVE  \/ which \in SupervisorCsrs \union {"scounteren"}
         \/ which \in {"sscratch", "stval", "fflags", "frm", "vxsat", "vxrm", "vstart"}
<1> DEFINE machine == MachineCsrs \ {"scounteren"}
           others == {"pmpaddr", "pmpcfg", "mscratch", "mtval", "mtval2", "mtinst", "dscratch0"}
                       \union DebugCsrs
           hypervisor == HypervisorCsrs \union {"htinst", "vsscratch", "vstval"}
           supervisor == SupervisorCsrs \union {"scounteren", "sscratch", "stval"}
<1>0. CsrPrivilege(which) = CASE which \in machine -> PRV_M [] which \in others -> PRV_M
                              [] which \in hypervisor -> 2 [] which \in supervisor -> PRV_S
                              [] OTHER -> PRV_U
  BY DEF CsrPrivilege
<1>1. \/ which \in SupervisorCsrs \union {"scounteren"}
      \/ which \in {"sscratch", "stval", "fflags", "frm", "vxsat", "vxrm", "vstart"}
      \/ which \in machine \/ which \in others \/ which \in hypervisor
  BY DEF WritableCsrs, Plain
<1>2. CASE which \in machine \/ which \in others
  <2>1. which \notin hypervisor /\ which \notin supervisor
    BY <1>2 DEF MachineCsrs, HypervisorCsrs, DebugCsrs, SupervisorCsrs
  <2> HIDE DEF machine, others, hypervisor, supervisor
  <2>2. CsrPrivilege(which) = PRV_M
    BY <1>0, <1>2, <2>1, Zenon
  <2> QED BY <2>2 DEF PRV_M, PRV_S
<1>3. CASE which \in hypervisor
  <2>1. which \notin machine /\ which \notin others /\ which \notin supervisor
    BY <1>3 DEF MachineCsrs, HypervisorCsrs, DebugCsrs, SupervisorCsrs
  <2> HIDE DEF machine, others, hypervisor, supervisor
  <2>2. CsrPrivilege(which) = 2
    BY <1>0, <1>3, <2>1, Zenon
  <2> QED BY <2>2 DEF PRV_S
<1> QED BY <1>1, <1>2, <1>3

LEMMA LooselyWrites ==
  ASSUME NEW x, NEW y, NEW fr, NEW which, which \notin FramedCsrs, Sound(x), FramesHold(fr, x),
         Loosely(x, y), x.v /\ CsrPrivilege(which) <= PRV_S => HostSame(x, y)
  PROVE  Wrote(x, fr, which, y)
<1>1. \A m \in Modes : which \notin Voids(x)[m]
  BY DEF FramedCsrs, Voids, Modes
<1>2. FramesHold(Voided(x, fr, which), y)
  <2> DEFINE gr == Voided(x, fr, which)
  <2>1. DOMAIN gr = Modes /\ \A m \in Modes : gr[m] = fr[m]
    BY <1>1 DEF Voided, FramesHold
  <2>2. FramesHold(fr, y)
    BY LooselyHolds
  <2> HIDE DEF gr
  <2>3. FramesHold(gr, y)
    BY <2>1, <2>2 DEF FramesHold, Modes
  <2> QED BY <2>3 DEF gr
<1>3. y.debug_mode = x.debug_mode
  BY DEF Loosely, Loose, Only, Soft
<1> QED BY <1>2, <1>3, LooselyHolds DEF Wrote

LEMMA WriteMoves ==
  ASSUME NEW x, NEW fr, NEW which \in WritableCsrs, NEW val, Sound(x), FramesHold(fr, x),
         Fits(which, val), which = "hstatus" => Has(x, "H")
  PROVE  Wrote(x, fr, which, SetCsr(x, which, val))
<1> DEFINE y == SetCsr(x, which, val)
<1>0. Shaped(x)
  BY DEF Sound
<1>1. CASE which \in FramedCsrs
  <2>1. CASE which \in {"mstatus", "sstatus"}
    BY <2>1, StatusWrites
  <2>2. CASE which \in {"mepc", "sepc", "vsepc"}
    BY <2>2, EpcWrites
  <2>3. CASE which = "hstatus"
    BY <2>3, HstatusWrites
  <2>4. CASE which = "vsstatus"
    BY <2>4, VsstatusWrites
  <2>5. CASE which = "dcsr"
    BY <2>5, DcsrWrites
  <2>6. CASE which = "misa"
    BY <2>6, MisaWrites
  <2> QED BY <1>1, <2>1, <2>2, <2>3, <2>4, <2>5, <2>6 DEF FramedCsrs
<1>2. CASE which \in {"pmpaddr", "pmpcfg"}
  <2>1. Loosely(x, y)
    BY <1>0, <1>2, SetCsrBy, PmpLoosely
  <2>2. ~(CsrPrivilege(which) <= PRV_S)
    BY <1>2, GuestWrites DEF SupervisorCsrs
  <2> QED BY <1>2, <2>1, <2>2, LooselyWrites DEF FramedCsrs
<1>3. CASE which \in Plain
  <2>1. Loosely(x, y)
    BY <1>0, <1>3, SetCsrBy, PlainLoosely
  <2>2. CsrPrivilege(which) <= PRV_S
          => which \in {"sscratch", "stval", "fflags", "frm", "vxsat", "vxrm", "vstart"}
    BY <1>3, GuestWrites DEF SupervisorCsrs, Plain
  <2>3. x.v /\ CsrPrivilege(which) <= PRV_S => HostSame(x, y)
    BY <1>0, <1>3, <2>2, SetCsrBy, PlainLoosely
  <2>4. which \notin FramedCsrs
    BY <1>3 DEF Plain, FramedCsrs
  <2> QED BY <2>1, <2>3, <2>4, LooselyWrites
<1>4. CASE which \in MachineCsrs \ FramedCsrs
  <2>1. Loosely(x, y) /\ (which = "scounteren" => HostSame(x, y))
    BY <1>0, <1>4, SetCsrBy, MachineLoosely
  <2>2. CsrPrivilege(which) <= PRV_S => which = "scounteren"
    BY <1>4, GuestWrites DEF SupervisorCsrs, MachineCsrs
  <2> QED BY <1>4, <2>1, <2>2, LooselyWrites
<1>5. CASE which \in SupervisorCsrs \ FramedCsrs
  <2>1. Loosely(x, y) /\ (x.v => HostSame(x, y))
    BY <1>0, <1>5, SetCsrBy, SupervisorLoosely
  <2> QED BY <1>5, <2>1, LooselyWrites
<1>6. CASE which \in HypervisorCsrs \ FramedCsrs
  <2>1. Loosely(x, y)
    BY <1>0, <1>6, SetCsrBy, HypervisorLoosely
  <2>2. ~(CsrPrivilege(which) <= PRV_S)
    BY <1>6, GuestWrites DEF SupervisorCsrs, HypervisorCsrs
  <2> QED BY <1>6, <2>1, <2>2, LooselyWrites
<1>7. CASE which \in DebugCsrs \ FramedCsrs
  <2>1. Loosely(x, y)
    BY <1>0, <1>7, SetCsrBy, DebugLoosely
  <2>2. ~(CsrPrivilege(which) <= PRV_S)
    BY <1>7, GuestWrites DEF SupervisorCsrs, DebugCsrs
  <2> QED BY <1>7, <2>1, <2>2, LooselyWrites
<1> QED BY <1>1, <1>2, <1>3, <1>4, <1>5, <1>6, <1>7 DEF WritableCsrs

----------------------------------------------------------------------------
(* What a pass leaves of the program and of the retried instruction.       *)

LEMMA RunAfter ==
  ASSUME RunParts, UNCHANGED program, NEW x, NEW k, Ended(x, k), Kept \subseteq DOMAIN x, ~x.matched,
         retry' # NoInsn => retry' \in Code[program] /\ retry'.op = "csr"
  PROVE  RunParts'
BY DEF RunParts, Ended

LEMMA AdvanceRuns ==
  ASSUME RunParts, at = "pass", NEW insn \in Runnable, NEW f, NEW r, Ran(insn, f, r),
         NEW wrote, Keeps(r.h, wrote), NEW h1, UNCHANGED program,
         IsDone(r), Advance(h1, insn, [r EXCEPT !.h = wrote])
  PROVE  RunParts'
<1> DEFINE r3 == [r EXCEPT !.h = wrote]
<1>1. IsResult(r) /\ DOMAIN r.h = DOMAIN h /\ r.h.matched = h.matched
  <2>1. CASE insn.op = "csr" /\ IsDone(f)
    BY <2>1, RanCsr
  <2>2. CASE ~(insn.op = "csr" /\ IsDone(f))
    BY <2>2, RanPlainly DEF Leaves, KeepsCount, IsDone
  <2> QED BY <2>1, <2>2
<1>2. r3.h = wrote /\ r3.npc = r.npc /\ Kept \subseteq DOMAIN wrote /\ ~wrote.matched
  BY <1>1 DEF IsResult, Keeps, KeepsCount, RunParts
<1>3. retry' = IF r.npc = "before" THEN insn ELSE NoInsn
  BY <1>2 DEF Advance
<1>4. r.npc = "before" => insn.op = "csr"
  BY RanPlainly DEF Sequels
<1>5. insn \in Code[program]
  BY RunnableCode
<1>6. PICK y, k, left : /\ h' = y \/ EndBatch(y, k, left)
                        /\ Keeps(wrote, y) \/ y = [wrote EXCEPT !.serialized = TRUE]
  <2>1. Keeps(wrote, Advanced(h1, r3)) /\ Keeps(wrote, wrote)
    BY <1>2, KeepsSelf DEF Advanced, Keeps, KeepsCount, Kept
  <2> QED BY <1>2, <2>1 DEF Advance
<1>7. Kept \subseteq DOMAIN y /\ ~y.matched
  BY <1>2, <1>6 DEF Keeps, KeepsCount, Kept
<1>8. Kept \subseteq DOMAIN h' /\ ~h'.matched
  BY <1>6, <1>7, EndBatchEnds DEF Ended
<1> QED BY <1>3, <1>4, <1>5, <1>8 DEF RunParts

LEMMA TriggeredRuns ==
  ASSUME RunParts, NEW insn \in Runnable, NEW f, NEW r, Ran(insn, f, r), UNCHANGED program,
         r.trig # -1, Triggered(r.h, insn, r.trig), at' # "terminated"
  PROVE  RunParts'
<1>1. insn.op # "csr" \/ ~IsDone(f)
  BY RanCsr
<1>2. KeepsCount(h, r.h) /\ Kept \subseteq DOMAIN r.h
  BY <1>1, RanPlainly DEF Leaves, KeepsCount, RunParts
<1> DEFINE a == IF insn.op \in {"load", "store", "amo", "lr", "sc", "hlv", "hsv"}
                THEN insn.a ELSE r.h.pc
<1>3. PICK w, k : TriggerAction(w, r.trig, k, a) /\ Kept \subseteq DOMAIN w /\ ~w.matched
  <2>1. CASE ~r.h.matched
    BY <1>2, <2>1 DEF Triggered
  <2>2. CASE r.h.matched
    <3>1. IsDone(f) /\ insn.op \in Operations \ {"csr"}
      BY <1>1, <2>2, RanPlainly, RunnableCode DEF Keeps, RunParts
    <3>2. PICK again, e : /\ again = LoadInsn(r.h, r.h.pc, insn.bits)
                          /\ e = Execute(again.h, insn, (r.h.pc + 4) % 2^XBits)
                          /\ TriggerAction([DeviceWrites(Advanced(r.h, e), insn, e.pa)
                                              EXCEPT !.matched = FALSE], r.trig, instret + 1, a)
      BY <2>2 DEF Triggered
    <3>3. Keeps(r.h, again.h) /\ Kept \subseteq DOMAIN again.h
      BY <1>2, <3>2, InsnFetches, SameKeeps DEF Fetches
    <3>4. KeepsCount(again.h, e.h)
      BY <3>1, <3>2, <3>3, ExecuteLeaves DEF Leaves
    <3> DEFINE y == Advanced(r.h, e)
               z == DeviceWrites(y, insn, e.pa)
               v == [z EXCEPT !.matched = FALSE]
    <3>5. Kept \subseteq DOMAIN y
      BY <3>3, <3>4 DEF Advanced, Keeps, KeepsCount, Kept
    <3> HIDE DEF y
    <3>6. Kept \subseteq DOMAIN z
      BY <3>5, DevicesSame, SameKeeps
    <3> HIDE DEF z
    <3>7. Kept \subseteq DOMAIN v /\ ~v.matched
      BY <3>6 DEF Kept
    <3> QED BY <3>2, <3>7 DEF z, y
  <2> QED BY <2>1, <2>2
<1>4. Ended(w, k) /\ retry' = NoInsn
  BY <1>3, TriggerEnds
<1> QED BY <1>3, <1>4, RunAfter

LEMMA PassRuns ==
  ASSUME RunParts, NEW insn \in Runnable, Pass(insn), at' # "terminated"
  PROVE  RunParts'
<1>1. at = "pass" /\ UNCHANGED program
  BY DEF Pass
<1>2. PICK h1, f, r, wrote : Passed(insn, h1, f, r, wrote)
  BY PassRan
<1>3. Keeps(r.h, wrote) /\ Kept \subseteq DOMAIN wrote
  BY <1>2, SameKeeps DEF Passed
<1>4. CASE r.trig # -1 /\ Triggered(r.h, insn, r.trig)
  BY <1>1, <1>2, <1>4, TriggeredRuns DEF Passed
<1>5. CASE r.trig = -1 /\ r.trap # NoTrap /\ AfterTrap(wrote, r.trap, h1.pc, instret)
  <2>1. r.h.matched = h.matched
    <3>1. CASE insn.op = "csr" /\ IsDone(f)
      BY <1>2, <3>1, RanCsr DEF Passed
    <3>2. CASE ~(insn.op = "csr" /\ IsDone(f))
      BY <1>2, <1>5, <3>2, RanPlainly DEF Passed, Leaves
    <3> QED BY <3>1, <3>2
  <2>2. ~wrote.matched
    BY <1>3, <2>1 DEF Keeps, RunParts
  <2>3. Ended(wrote, instret) /\ retry' = NoInsn
    BY <1>3, <1>5, AfterTrapEnds
  <2> QED BY <1>1, <1>3, <2>2, <2>3, RunAfter
<1>6. CASE IsDone(r) /\ Advance(h1, insn, [r EXCEPT !.h = wrote])
  BY <1>1, <1>2, <1>3, <1>6, AdvanceRuns DEF Passed
<1> QED BY <1>2, <1>4, <1>5, <1>6 DEF Passed

----------------------------------------------------------------------------
(* What an instruction does to the contexts the modes have put aside.      *)

\* what an instruction of the code writes to a register fits it
LEMMA WrittenFits ==
  ASSUME NEW code \in DOMAIN Code, NEW insn \in Code[code], insn.op = "csr", insn.write,
         NEW x, Sound(x)
  PROVE  Fits(insn.csr, Written(x, insn))
<1>1. insn.form = "rw" => Written(x, insn) = insn.val
  BY DEF Written, csrrw
<1>2. CASE insn.csr = "misa"
  <2>1. insn.form \in {"rw", "rs", "rc"}
    BY CodeAssumption
  <2>2. GetCsr(x, "misa") = x.misa
    <3>1. /\ "misa" \notin Plain /\ "misa" \notin SupervisorCsrs /\ "misa" \notin HypervisorCsrs
          /\ "misa" \notin {"minstret", "mcycle", "instret", "cycle"} /\ "misa" \notin {"mepc", "dpc"}
          /\ "misa" # "tdata1" /\ "misa" # "pmpaddr" /\ "misa" # "tdata2" /\ "misa" # "dcsr"
      BY DEF Plain, SupervisorCsrs, HypervisorCsrs
    <3> QED BY <3>1, Zenon DEF GetCsr
  <2>3. IF insn.form = "rc" THEN "H" \notin insn.val ELSE "H" \in insn.val \/ "H" \notin MaxIsa
    BY <1>2, FieldsAssumption
  <2>4. "H" \in x.misa <=> "H" \in MaxIsa
    BY DEF Sound, Legal, Has
  <2>5. insn.form = "rs" => Written(x, insn) = x.misa \union insn.val
    BY <1>2, <2>2 DEF Written, csrrs
  <2>6. insn.form = "rc" => Written(x, insn) = x.misa \ insn.val
    BY <1>2, <2>2 DEF Written, csrrc
  <2>7. "H" \in Written(x, insn) \/ "H" \notin MaxIsa
    <3>1. CASE insn.form = "rw"
      BY <1>1, <2>3, <3>1
    <3>2. CASE insn.form = "rs"
      BY <2>3, <2>5, <3>2
    <3>3. CASE insn.form = "rc"
      BY <2>3, <2>4, <2>6, <3>3
    <3> QED BY <2>1, <3>1, <3>2, <3>3
  <2> QED BY <1>2, <2>7 DEF Fits
<1>3. CASE insn.csr \in {"mstatus", "sstatus", "vsstatus"}
  BY <1>1, <1>3, FieldsAssumption DEF Fits
<1>4. CASE insn.csr = "hstatus"
  <2>1. DOMAIN insn.val = DOMAIN HstatusZero /\ insn.val.SPV \in BOOLEAN /\ insn.form = "rw"
    BY <1>4, FieldsAssumption
  <2> QED BY <1>1, <1>4, <2>1 DEF Fits, HstatusZero
<1>5. CASE insn.csr = "dcsr"
  <2>1. DOMAIN insn.val = DOMAIN DcsrZero /\ insn.val.prv \in 0..3 /\ insn.form = "rw"
    BY <1>5, FieldsAssumption
  <2> QED BY <1>1, <1>5, <2>1 DEF Fits, DcsrZero
<1>6. CASE insn.csr \notin {"misa", "mstatus", "sstatus", "vsstatus", "hstatus", "dcsr"}
  BY <1>6 DEF Fits
<1> QED BY <1>2, <1>3, <1>4, <1>5, <1>6

\* who may write a register
LEMMA WriteAllowed ==
  ASSUME NEW x, Sound(x), NEW which, AccessTrap(x, which, TRUE) = "none"
  PROVE  /\ which \notin {"instret", "cycle"} /\ (which = "hstatus" => Has(x, "H"))
         /\ InGuest(x) => CsrPrivilege(which) <= PRV_S
<1> DEFINE priv == CsrPrivilege(which)
           state == IF x.prv = PRV_S /\ ~x.v THEN 2 ELSE x.prv
<1>1. /\ ~(priv = 2 /\ ~Has(x, "H"))
      /\ ~(which \in {"instret", "cycle"}) /\ ~(state < priv)
  BY DEF AccessTrap
<1>2. CsrPrivilege("hstatus") = 2
  <2>1. /\ "hstatus" \notin MachineCsrs \ {"scounteren"} /\ "hstatus" \notin DebugCsrs
        /\ "hstatus" \in HypervisorCsrs /\ "hstatus" \notin SupervisorCsrs
    BY DEF MachineCsrs, DebugCsrs, HypervisorCsrs, SupervisorCsrs
  <2> QED BY <2>1, Zenon DEF CsrPrivilege
<1>3. priv \in 0..3
  <2>1. priv \in {PRV_M, 2, PRV_S, PRV_U}
    BY Zenon DEF CsrPrivilege
  <2> QED BY <2>1 DEF PRV_M, PRV_S, PRV_U
<1> HIDE DEF priv
<1>4. InGuest(x) => priv <= PRV_S
  BY <1>1, <1>3 DEF InGuest, Sound, Legal, PRV_S
<1> QED BY <1>1, <1>2, <1>4 DEF priv

\* the contexts after an instruction that came to its end
LEMMA FramesAfter ==
  ASSUME NEW x, NEW insn, NEW npc, DOMAIN frames = Modes, insn.op \notin {"mret", "sret"}
  PROVE  LET gr == InsnFrames(x, insn, npc) IN
         /\ DOMAIN gr = Modes
         /\ insn.op = "csr" /\ npc = "after" /\ insn.write => gr = Voided(x, frames, insn.csr)
         /\ ~(insn.op = "csr" /\ npc = "after" /\ insn.write) => \A m \in Modes : gr[m] = frames[m]
<1>1. Returning(x, insn) = "none"
  BY DEF Returning
<1>2. \A m \in Modes : m # "none"
  BY DEF Modes
<1> QED BY <1>1, <1>2 DEF InsnFrames, Voided

\* contexts that are the same for each mode
LEMMA SameFrames ==
  ASSUME NEW x, NEW y, NEW gr, FramesHold(frames, x), Moves(x, frames, y, frames),
         DOMAIN gr = Modes, \A m \in Modes : gr[m] = frames[m]
  PROVE  Moves(x, frames, y, gr)
<1>1. FramesHold(gr, y)
  BY DEF Moves, FramesHold, Modes
<1>2. Returned(x, frames, y, gr)
  BY DEF Moves, Returned
<1>3. Risen(x, frames, y, gr)
  BY DEF Risen
<1> QED BY <1>1, <1>2, <1>3 DEF Moves

Accessing == {"load", "store", "amo", "lr", "sc"} \union GuestOps

\* what an instruction does to a hart and to the contexts saved in it
Does(x, insn, r) ==
  /\ IsResult(r) /\ IF insn.op \in Accessing THEN r.npc = "next" ELSE r.trig = -1
  /\ ~IsDone(r) \/ r.npc # "after" => Quiet(x, r.h)
  /\ IsDone(r) => IF r.npc = "after" THEN Moves(x, frames, r.h, InsnFrames(x, insn, "after"))
                  ELSE insn.op \notin {"mret", "sret"}

LEMMA QuietDoes ==
  ASSUME NEW x, NEW y, NEW insn, Quiet(x, y)
  PROVE  /\ \A trap : trap # NoTrap => Does(x, insn, Traps(y, trap))
         /\ insn.op \notin {"mret", "sret"} =>
              \A npc : npc # "after" /\ (insn.op \in Accessing => npc = "next") => Does(x, insn, Out(Done(y, -1), npc))
BY DEF Does, Traps, Out, Raises, Done, Result, IsResult, IsDone

LEMMA CsrDoes ==
  ASSUME NEW x, Sound(x), FramesHold(frames, x), NEW code \in DOMAIN Code, NEW insn \in Code[code],
         insn.op = "csr", NEW npc
  PROVE  Does(x, insn, ExecCsr(x, insn, npc))
<1> DEFINE x1 == [x EXCEPT !.serialized = FALSE]
           x2 == IF insn.write THEN SetCsr(x1, insn.csr, Written(x1, insn)) ELSE x1
<1>1. Only(x, x1, {}) /\ Quiet(x, x1)
  BY DEF Only, Quiet, Soft, Sound, Shaped
<1>2. \/ ExecCsr(x, insn, npc) = Out(Done(x, -1), "before")
      \/ \E name : ExecCsr(x, insn, npc) = Traps(x1, TrapNamed(name))
      \/ /\ ExecCsr(x, insn, npc) = Serialized(x2, npc)
         /\ AccessTrap(x, insn.csr, insn.write) = "none"
  BY DEF ExecCsr
<1>3. CASE ExecCsr(x, insn, npc) = Out(Done(x, -1), "before")
  <2>1. Quiet(x, x)
    BY DEF Quiet, Only
  <2> QED BY <1>3, <2>1, QuietDoes DEF Accessing, GuestOps
<1>4. CASE \E name : ExecCsr(x, insn, npc) = Traps(x1, TrapNamed(name))
  <2> HIDE DEF x1
  <2> QED BY <1>1, <1>4, QuietDoes, TrapNames
<1>5. CASE /\ ExecCsr(x, insn, npc) = Serialized(x2, npc)
           /\ AccessTrap(x, insn.csr, insn.write) = "none"
  <2> DEFINE y == [x2 EXCEPT !.pc = Aligned(x2, npc)]
             gr == InsnFrames(x, insn, "after")
  <2>1. Sound(x1) /\ FramesHold(frames, x1)
    BY <1>1, QuietLegal, QuietHolds
  <2> HIDE DEF x1
  <2>2. DOMAIN frames = Modes
    BY DEF FramesHold
  <2>3. Sound(x2) /\ FramesHold(gr, x2) /\ Confined(x, x2)
    <3>1. CASE insn.write
      <4>1. /\ insn.csr \in WritableCsrs /\ (insn.csr = "hstatus" => Has(x, "H"))
            /\ InGuest(x) => CsrPrivilege(insn.csr) <= PRV_S
        <5>1. AccessTrap(x, insn.csr, TRUE) = "none"
          <6>1. insn.write = TRUE \/ AccessTrap(x, insn.csr, insn.write)
                                       = AccessTrap(x, insn.csr, TRUE)
            BY <3>1 DEF AccessTrap
          <6> QED BY <1>5, <6>1
        <5> QED BY <3>1, <5>1, WriteAllowed, CodeAssumption
      <4>2. Has(x1, "H") <=> Has(x, "H")
        BY <1>1 DEF Only, Soft, Has
      <4>3. Wrote(x1, frames, insn.csr, x2)
        BY <2>1, <3>1, <4>1, <4>2, WriteMoves, WrittenFits
      <4>4. gr = Voided(x1, frames, insn.csr)
        <5>1. Voids(x1) = Voids(x)
          BY <1>1 DEF Voids, Only, Soft
        <5> QED BY <2>2, <3>1, <5>1, FramesAfter DEF Voided
      <4>5. InGuest(x) => HostSame(x1, x2)
        BY <1>1, <4>1, <4>3 DEF Wrote, InGuest, Only, Soft
      <4>6. InGuest(x) => HostView(x2) = HostView(x)
        BY <1>1, <4>5, HostSameView, QuietView
      <4> QED BY <4>3, <4>4, <4>6 DEF Wrote, Confined
    <3>2. CASE ~insn.write
      <4>1. x2 = x1
        BY <3>2
      <4>2. Moves(x, frames, x1, frames)
        BY <1>1, QuietMoves
      <4>3. DOMAIN gr = Modes /\ \A m \in Modes : gr[m] = frames[m]
        BY <2>2, <3>2, FramesAfter
      <4>4. Moves(x, frames, x1, gr)
        BY <4>2, <4>3, SameFrames
      <4> QED BY <4>1, <4>4 DEF Moves
    <3> QED BY <3>1, <3>2
  <2> HIDE DEF x2, gr
  <2>4. Only(x2, y, {"pc"})
    BY <2>3 DEF Only, Soft, Sound, Shaped
  <2>5. Quiet(x2, y)
    BY <2>4 DEF Quiet
  <2>6. Sound(y) /\ FramesHold(gr, y) /\ Confined(x, y)
    BY <2>3, <2>5, QuietLegal, QuietHolds, QuietView DEF Confined
  <2>7. \A m \in Modes : gr[m] = frames[m] \/ gr[m] = NoFrame
    BY <2>2, FramesAfter DEF gr, Voided
  <2>8. Moves(x, frames, y, gr)
    BY <2>6, <2>7 DEF Moves, Returned, Risen, NoFrame
  <2>9. ExecCsr(x, insn, npc) = Out(Done(y, -1), "after")
    BY <1>5 DEF Serialized
  <2> HIDE DEF y
  <2> QED BY <2>8, <2>9 DEF gr, Does, Accessing, GuestOps, Out, Done, Result, IsResult, IsDone
<1> QED BY <1>2, <1>3, <1>4, <1>5

LEMMA AccessDoes ==
  ASSUME NEW x, Shaped(x), NEW r, Accesses(x, r), NEW insn, insn.op \in Accessing
  PROVE  Does(x, insn, Out(r, "next")) /\ Does(x, insn, GuestAccess(x, insn, r))
<1>1. Quiet(x, r.h) /\ Quiet(x, x)
  BY SameQuiet DEF Accesses, Quiet, Only
<1>2. Does(x, insn, Out(r, "next"))
  BY <1>1 DEF Does, Accessing, GuestOps, Out, IsResult, IsDone, Accesses
<1> QED BY <1>1, <1>2, QuietDoes, TrapNames DEF GuestAccess

LEMMA ReturnDoes ==
  ASSUME NEW x, Sound(x), FramesHold(frames, x), NEW insn, insn.op \in {"mret", "sret", "dret"},
         x.debug_mode => insn.op = "dret"
  PROVE  /\ insn.op = "mret" => Does(x, insn, ExecMret(x))
         /\ insn.op = "sret" => Does(x, insn, ExecSret(x))
         /\ insn.op = "dret" => Does(x, insn, ExecDret(x))
<1>1. Quiet(x, x)
  BY DEF Quiet, Only
<1>2. \A trap : trap # NoTrap => Does(x, insn, Traps(x, trap))
  BY <1>1, QuietDoes
<1>3. ASSUME NEW y, Moves(x, frames, y, InsnFrames(x, insn, "after"))
      PROVE  Does(x, insn, Out(Done(y, -1), "after"))
  BY <1>3 DEF Does, Accessing, GuestOps, Out, Done, Result, IsResult, IsDone
<1>4. CASE insn.op = "mret"
  <2>1. CASE x.prv < PRV_M
    BY <1>2, <1>4, <2>1, TrapNames DEF ExecMret
  <2>2. CASE ~(x.prv < PRV_M)
    <3>1. ExecMret(x) = Out(Done(ExecMret(x).h, -1), "after")
      <4> DEFINE s  == [x.mstatus EXCEPT !.MIE = x.mstatus.MPIE, !.MPIE = TRUE, !.MPP = PRV_U]
                 x1 == SetPrivilege(SetMstatus([x EXCEPT !.pc = Aligned(x, x.mepc)], s),
                                    x.mstatus.MPP)
                 y == SetVirt(x1, x.mstatus.MPV)
      <4>1. ExecMret(x) = Out(Done(y, -1), "after")
        BY <2>2 DEF ExecMret
      <4> HIDE DEF y
      <4> QED BY <4>1 DEF Out, Done, Result
    <3>2. Moves(x, frames, ExecMret(x).h, InsnFrames(x, insn, "after"))
      BY <1>4, <2>2, MretMoves
    <3> QED BY <1>3, <1>4, <3>1, <3>2
  <2> QED BY <2>1, <2>2
<1>5. CASE insn.op = "sret"
  <2>1. CASE ExecSret(x) \in {Traps(x, Illegal), Traps(x, VirtualInsn)}
    BY <1>2, <1>5, <2>1, TrapNames
  <2>2. CASE ExecSret(x) \notin {Traps(x, Illegal), Traps(x, VirtualInsn)}
    <3>1. Has(x, "S") /\ ExecSret(x) = Out(Done(ExecSret(x).h, -1), "after")
          /\ ExecSret(x).trap = NoTrap
      <4> DEFINE s == [x.mstatus EXCEPT !.SIE = x.mstatus.SPIE, !.SPIE = TRUE, !.SPP = PRV_U]
                 to == Aligned(x, IF x.v THEN x.vsepc ELSE x.sepc)
                 x1 == SetPrivilege(SetMstatus([x EXCEPT !.pc = to], s), x.mstatus.SPP)
                 y == IF x.v THEN x1 ELSE SetVirt(x1, x.hstatus.SPV)
      <4>1. Has(x, "S") /\ ExecSret(x) = Out(Done(y, -1), "after")
        BY <2>2 DEF ExecSret
      <4> HIDE DEF y
      <4> QED BY <4>1 DEF Out, Done, Result
    <3>2. Moves(x, frames, ExecSret(x).h, InsnFrames(x, insn, "after"))
      BY <1>5, <3>1, SretMoves
    <3> QED BY <1>3, <1>5, <3>1, <3>2
  <2> QED BY <2>1, <2>2
<1>6. CASE insn.op = "dret"
  <2>1. CASE ~x.debug_mode
    BY <1>2, <1>6, <2>1, TrapNames DEF ExecDret
  <2>2. CASE x.debug_mode
    <3>1. ExecDret(x) = Out(Done(ExecDret(x).h, -1), "after")
      <4> DEFINE x1 == SetPrivilege([x EXCEPT !.pc = Aligned(x, x.dpc)], x.dcsr.prv)
                 y == [x1 EXCEPT !.debug_mode = FALSE,
                                 !.single_step = IF x.dcsr.step THEN "STEPPING" ELSE @]
      <4>1. ExecDret(x) = Out(Done(y, -1), "after")
        BY <2>2 DEF ExecDret
      <4> HIDE DEF y
      <4> QED BY <4>1 DEF Out, Done, Result
    <3>2. Moves(x, frames, ExecDret(x).h, frames)
      BY <2>2, DretMoves
    <3>3. /\ DOMAIN InsnFrames(x, insn, "after") = Modes
          /\ \A m \in Modes : InsnFrames(x, insn, "after")[m] = frames[m]
      BY <1>6, FramesAfter DEF FramesHold
    <3>4. Moves(x, frames, ExecDret(x).h, InsnFrames(x, insn, "after"))
      BY <3>2, <3>3, SameFrames
    <3> QED BY <1>3, <1>6, <3>1, <3>4
  <2> QED BY <2>1, <2>2
<1> QED BY <1>4, <1>5, <1>6

LEMMA ExecuteDoes ==
  ASSUME NEW x, Sound(x), FramesHold(frames, x), Kept \subseteq DOMAIN x,
         NEW code \in DOMAIN Code, NEW insn \in Code[code],
         x.debug_mode => insn.op \in DebugOps, NEW npc
  PROVE  Does(x, insn, Execute(x, insn, npc))
<1> USE DEF Operations, GuestOps, Accessing
<1>0. insn.op \in Operations /\ Shaped(x)
  BY CodeAssumption DEF Sound
<1>11. Quiet(x, x)
  BY DEF Quiet, Only
<1>12. \A trap : trap # NoTrap => Does(x, insn, Traps(x, trap))
  BY <1>11, QuietDoes
<1>1. CASE insn.op \in {"load", "hlv", "hlvx"}
  <2>1. Execute(x, insn, npc)
          = GuestAccess(x, insn, Load(x, insn.a, insn.len, insn.data, Xlate(insn.op)))
    BY <1>1 DEF Execute
  <2> QED BY <1>0, <1>1, <2>1, LoadAccesses, AccessDoes
<1>2. CASE insn.op \in {"store", "hsv"}
  <2>1. Execute(x, insn, npc)
          = GuestAccess(x, insn, Store(x, insn.a, insn.len, insn.data, Xlate(insn.op)))
    BY <1>2 DEF Execute
  <2> QED BY <1>0, <1>2, <2>1, StoreAccesses, AccessDoes
<1>3. CASE insn.op \in {"amo", "lr", "sc"}
  BY <1>0, <1>3, AmoAccesses, LoadReservedAccesses, StoreConditionalAccesses, AccessDoes DEF Execute
<1>4. CASE insn.op \in {"mret", "sret", "dret"}
  <2>1. x.debug_mode => insn.op = "dret"
    BY <1>4 DEF DebugOps
  <2> QED BY <1>4, <2>1, ReturnDoes DEF Execute
<1>5. CASE insn.op = "csr"
  BY <1>5, CsrDoes DEF Execute
<1>6. CASE insn.op \in {"ecall", "ebreak", "illegal"}
  <2>1. \E trap : trap # NoTrap /\ Execute(x, insn, npc) = Traps(x, trap)
    <3>1. CASE insn.op = "ecall"
      <4>1. PICK cause \in {8, 11, 10, 9} : ExecEcall(x) = Traps(x, [NoTrap EXCEPT !.cause = cause])
        BY DEF ExecEcall
      <4>2. [NoTrap EXCEPT !.cause = cause] # NoTrap
        BY DEF NoTrap
      <4> QED BY <3>1, <4>1, <4>2 DEF Execute
    <3>2. CASE insn.op = "ebreak"
      <4>1. InsnTrap(BREAKPOINT, 0) # NoTrap
        BY DEF InsnTrap, NoTrap, BREAKPOINT
      <4> QED BY <3>2, <4>1 DEF Execute
    <3>3. CASE insn.op = "illegal"
      BY <3>3, TrapNames DEF Execute
    <3> QED BY <1>6, <3>1, <3>2, <3>3
  <2> QED BY <1>12, <2>1
<1>7. CASE insn.op = "wfi"
  <2> DEFINE y == [x EXCEPT !.pc = Aligned(x, npc)]
  <2>1. Quiet(x, y)
    BY <1>0 DEF Quiet, Only, Soft, Shaped
  <2>2. Execute(x, insn, npc) \in {Traps(x, Illegal), Traps(x, VirtualInsn), Out(Done(y, -1), "wfi")}
    BY <1>7 DEF Execute, ExecWfi
  <2> HIDE DEF y
  <2> QED BY <1>7, <1>12, <2>1, <2>2, QuietDoes, TrapNames
<1>8. CASE insn.op \in {"sfence", "hfence", "fence_i"}
  <2>1. Execute(x, insn, npc) \in {Traps(x, Illegal), Traps(x, VirtualInsn),
          Out(Done(FlushTlb(x), -1), "next"), Out(Done(FlushIcache(x), -1), "next")}
    BY <1>8 DEF Execute, ExecSfence, ExecHfence
  <2>2. Quiet(x, FlushTlb(x)) /\ Quiet(x, FlushIcache(x))
    BY <1>0, FlushSame, SameQuiet DEF Same
  <2> QED BY <1>8, <1>12, <2>1, <2>2, QuietDoes, TrapNames
<1>9. CASE insn.op = "jump"
  <2> DEFINE y == [x EXCEPT !.pc = insn.target]
  <2>1. Quiet(x, y)
    BY <1>0 DEF Quiet, Only, Soft, Shaped
  <2>2. \/ Execute(x, insn, npc) = Traps(x, MemTrap(0, insn.target, 0))
        \/ Execute(x, insn, npc) = Out(Done(y, -1), "jump")
    BY <1>9 DEF Execute, ExecJump
  <2>3. MemTrap(0, insn.target, 0) # NoTrap
    BY DEF MemTrap, NoTrap
  <2> HIDE DEF y
  <2> QED BY <1>9, <1>12, <2>1, <2>2, <2>3, QuietDoes
<1>10. CASE insn.op = "nop"
  BY <1>10, <1>11, QuietDoes DEF Execute
<1> QED BY <1>0, <1>1, <1>2, <1>3, <1>4, <1>5, <1>6, <1>7, <1>8, <1>9, <1>10

----------------------------------------------------------------------------
(* Steps.                                                                  *)
PrivParts == RunParts /\ Sound(h) /\ FramesHold(frames, h)
PrivIInv == at # "terminated" => PrivParts

LEMMA QuietSelf ==
  ASSUME NEW x
  PROVE  Quiet(x, x) /\ Only(x, x, {})
BY DEF Quiet, Only

\* the end of a batch, on a hart on which a trap or a return was taken or nothing happened
LEMMA EndBatchMoves ==
  ASSUME NEW x, NEW y, NEW gr, NEW k, NEW left, Moves(x, frames, y, gr), EndBatch(y, k, left)
  PROVE  Moves(x, frames, h', gr)
<1>1. Shaped(y)
  BY DEF Moves, Sound
<1>2. h' = [y EXCEPT !.minstret = @ + k]
  BY DEF EndBatch
<1>3. Only(y, h', {})
  BY <1>1, <1>2 DEF Only, Soft, Shaped
<1> QED BY <1>3, MovesAfter

LEMMA AfterTrapMoves ==
  ASSUME NEW x, Sound(x), FramesHold(frames, x), NEW t, NEW epc, NEW k, AfterTrap(x, t, epc, k)
  PROVE  Moves(x, frames, h', frames')
<1> DEFINE y == TakeTrap(x, t, epc)
           gr == TrapFrames(x, t, epc)
           y1 == [y EXCEPT !.single_step = "NONE"]
<1>1. Moves(x, frames, y, gr) /\ NoReturn(frames, gr)
  BY TakeTrapMoves
<1>2. frames' = gr /\ EndBatch(Stopped(y), k, k)
  BY DEF AfterTrap
<1> HIDE DEF y, gr
<1>3. Only(y, y1, {})
  BY <1>1 DEF Moves, Sound, Shaped, Only, Soft
<1> HIDE DEF y1
<1>4. Moves(x, frames, y1, gr)
  BY <1>1, <1>3, MovesAfter
<1>5. Moves(x, frames, EnterDebugMode(y1, "STEP"), gr)
  BY <1>1, <1>4, EnterDebugMoves
<1>6. Stopped(y) = EnterDebugMode(y1, "STEP") \/ Stopped(y) = y
  BY DEF Stopped, y1
<1>7. Moves(x, frames, Stopped(y), gr)
  BY <1>1, <1>5, <1>6
<1> QED BY <1>2, <1>7, EndBatchMoves

LEMMA TriggerMoves ==
  ASSUME NEW x, Sound(x), FramesHold(frames, x), NEW i, NEW k, NEW a, TriggerAction(x, i, k, a)
  PROVE  Moves(x, frames, h', frames')
<1> DEFINE t == InsnTrap(BREAKPOINT, a)
<1>1. CASE x.mcontrol[i].action = "debug"
  <2>1. Moves(x, frames, x, frames) /\ NoReturn(frames, frames)
    BY QuietSelf, QuietMoves DEF NoReturn
  <2>2. Moves(x, frames, EnterDebugMode(x, "HWBP"), frames)
    BY <2>1, EnterDebugMoves
  <2>3. frames' = frames /\ EndBatch(EnterDebugMode(x, "HWBP"), k, n)
    BY <1>1 DEF TriggerAction
  <2> QED BY <2>2, <2>3, EndBatchMoves
<1>2. CASE x.mcontrol[i].action # "debug"
  <2>1. frames' = TrapFrames(x, t, x.pc) /\ EndBatch(TakeTrap(x, t, x.pc), k, n)
    BY <1>2 DEF TriggerAction
  <2>2. Moves(x, frames, TakeTrap(x, t, x.pc), TrapFrames(x, t, x.pc))
    BY TakeTrapMoves
  <2> HIDE DEF t
  <2> QED BY <2>1, <2>2, EndBatchMoves
<1> QED BY <1>1, <1>2


LEMMA InsnDoes ==
  ASSUME PrivParts, NEW insn \in Runnable, NEW h1, NEW f, NEW r, NEW wrote, NEW npc,
         NEW s, h1 = [h EXCEPT !.single_step = s], Fetches(h1, f), r = Executed(f, insn, npc)
  PROVE  /\ Quiet(h, h1) /\ Quiet(h, f.h) /\ Sound(f.h) /\ FramesHold(frames, f.h)
         /\ Kept \subseteq DOMAIN f.h
         /\ IF IsDone(f) THEN Does(f.h, insn, r) ELSE ~IsDone(r) /\ r.h = f.h
<1> USE DEF PrivParts
<1>1. Quiet(h, h1) /\ Shaped(h1) /\ Kept \subseteq DOMAIN h1
  BY DEF Quiet, Only, Soft, Sound, Shaped, RunParts
<1>2. Quiet(h, f.h)
  BY <1>1, SameQuiet, QuietTrans DEF Same, Fetches
<1>3. Sound(f.h) /\ FramesHold(frames, f.h)
  BY <1>2, QuietLegal, QuietHolds
<1>4. Kept \subseteq DOMAIN f.h
  BY <1>1 DEF Same, Alike, Fetches
<1>5. f.h.debug_mode = h.debug_mode
  BY <1>2 DEF Quiet, Only, Soft
<1>6. h.debug_mode => insn.op \in DebugOps
  BY DEF Runnable, RunParts, DebugOps
<1>7. CASE IsDone(f)
  <2>1. insn \in Code[program] /\ program \in DOMAIN Code
    BY RunnableCode DEF RunParts
  <2>2. Does(f.h, insn, Execute(f.h, insn, npc))
    BY <1>3, <1>4, <1>5, <1>6, <2>1, ExecuteDoes
  <2> QED BY <1>1, <1>2, <1>3, <1>4, <1>7, <2>2 DEF Executed
<1>8. CASE ~IsDone(f)
  BY <1>1, <1>2, <1>3, <1>4, <1>8 DEF Executed, Out, IsDone
<1> QED BY <1>7, <1>8

\* the instruction whose trigger fired runs a second time
LEMMA AgainQuiet ==
  ASSUME PrivParts, NEW insn \in Runnable, NEW x, Quiet(h, x), Kept \subseteq DOMAIN x,
         insn.op \in Accessing, NEW again, again = LoadInsn(x, x.pc, insn.bits),
         NEW npc, NEW e, e = Execute(again.h, insn, npc), e.trap = NoTrap
  PROVE  Quiet(h, [DeviceWrites(Advanced(x, e), insn, e.pa) EXCEPT !.matched = FALSE])
<1> USE DEF PrivParts
<1>1. Sound(x) /\ FramesHold(frames, x)
  BY QuietLegal, QuietHolds
<1>2. Same(x, again.h) /\ Kept \subseteq DOMAIN again.h
  BY InsnFetches DEF Fetches, Same, Alike
<1>3. Quiet(x, again.h)
  BY <1>1, <1>2, SameQuiet DEF Same, Sound
<1>4. Sound(again.h) /\ FramesHold(frames, again.h)
  BY <1>1, <1>3, QuietLegal, QuietHolds
<1>5. again.h.debug_mode = h.debug_mode
  BY <1>3 DEF Quiet, Only, Soft
<1>6. h.debug_mode => insn.op \in DebugOps
  BY DEF Runnable, RunParts, DebugOps
<1>7. insn \in Code[program] /\ program \in DOMAIN Code
  BY RunnableCode DEF RunParts
<1>8. Does(again.h, insn, e)
  BY <1>2, <1>4, <1>5, <1>6, <1>7, ExecuteDoes
<1>9. Quiet(again.h, e.h)
  BY <1>8 DEF Does
<1>10. Quiet(h, e.h) /\ Sound(e.h)
  BY <1>3, <1>4, <1>9, QuietTrans, QuietLegal
<1> DEFINE y == Advanced(x, e)
           z == DeviceWrites(y, insn, e.pa)
           w == [z EXCEPT !.matched = FALSE]
<1>11. Quiet(e.h, y)
  BY <1>10 DEF Advanced, Quiet, Only, Soft, Sound, Shaped
<1> HIDE DEF y
<1>12. Shaped(y) /\ Quiet(h, y)
  BY <1>10, <1>11, QuietShaped, QuietTrans DEF Sound
<1>13. Quiet(y, z)
  BY <1>12 DEF DeviceWrites, Quiet, Only, Soft, Shaped
<1> HIDE DEF z
<1>14. Shaped(z) /\ Quiet(h, z)
  BY <1>12, <1>13, QuietShaped, QuietTrans
<1>15. Quiet(z, w)
  BY <1>14 DEF Quiet, Only, Soft, Shaped
<1> QED BY <1>14, <1>15, QuietTrans DEF y, z

LEMMA TriggeredMoves ==
  ASSUME PrivParts, NEW insn \in Runnable, NEW x, Quiet(h, x), Kept \subseteq DOMAIN x,
         x.matched => insn.op \in Accessing, NEW i, Triggered(x, insn, i)
  PROVE  Moves(h, frames, h', frames')
<1> USE DEF PrivParts
<1>0. Sound(x) /\ FramesHold(frames, x)
  BY QuietLegal, QuietHolds
<1>1. ASSUME NEW w, Quiet(h, w), NEW k, NEW a, TriggerAction(w, i, k, a)
      PROVE  Moves(h, frames, h', frames')
  <2>1. Sound(w) /\ FramesHold(frames, w)
    BY <1>1, QuietLegal, QuietHolds
  <2>2. Moves(w, frames, h', frames')
    BY <1>1, <2>1, TriggerMoves
  <2> QED BY <1>1, <2>2, MovesBefore
<1>2. CASE ~x.matched
  BY <1>1, <1>2 DEF Triggered
<1>3. CASE x.matched
  <2>1. PICK again, e, a :
          /\ again = LoadInsn(x, x.pc, insn.bits)
          /\ e = Execute(again.h, insn, (x.pc + 4) % 2^XBits)
          /\ \/ /\ e.trap = NoTrap
                /\ TriggerAction([DeviceWrites(Advanced(x, e), insn, e.pa) EXCEPT !.matched = FALSE],
                                 i, instret + 1, a)
             \/ h' = x /\ frames' = frames
    BY <1>3 DEF Triggered
  <2>2. CASE h' = x /\ frames' = frames
    <3>1. Moves(h, frames, x, frames)
      BY QuietMoves
    <3> QED BY <2>2, <3>1
  <2>3. CASE e.trap = NoTrap
              /\ TriggerAction([DeviceWrites(Advanced(x, e), insn, e.pa) EXCEPT !.matched = FALSE],
                               i, instret + 1, a)
    <3> DEFINE w == [DeviceWrites(Advanced(x, e), insn, e.pa) EXCEPT !.matched = FALSE]
    <3>1. Quiet(h, w)
      BY <1>3, <2>1, <2>3, AgainQuiet
    <3>2. TriggerAction(w, i, instret + 1, a)
      BY <2>3
    <3> HIDE DEF w
    <3> QED BY <1>1, <3>1, <3>2
  <2> QED BY <2>1, <2>2, <2>3
<1> QED BY <1>2, <1>3

LEMMA EndBatchOnly ==
  ASSUME NEW y, NEW k, NEW left, Shaped(y), EndBatch(y, k, left)
  PROVE  Only(y, h', {})
BY DEF EndBatch, Only, Soft, Shaped

LEMMA AdvanceMoves ==
  ASSUME PrivParts, NEW insn \in Runnable, NEW h1, NEW x, NEW r, NEW wrote,
         Quiet(h, h1), Quiet(h, x), Sound(x), FramesHold(frames, x), Does(x, insn, r), IsDone(r),
         Same(r.h, wrote), Advance(h1, insn, [r EXCEPT !.h = wrote])
  PROVE  Moves(h, frames, h', frames')
<1> USE DEF PrivParts
<1> DEFINE r3 == [r EXCEPT !.h = wrote]
<1>1. r3.h = wrote /\ r3.npc = r.npc
  BY DEF Does, IsResult
<1>2. frames' = InsnFrames(h1, insn, r.npc)
  BY <1>1 DEF Advance
<1>3. CASE r.npc = "after"
  <2> DEFINE gr == InsnFrames(x, insn, "after")
  <2>1. Moves(x, frames, r.h, gr)
    BY <1>3 DEF Does
  <2>2. Only(r.h, wrote, {})
    BY <2>1, SameQuiet DEF Same, Moves, Sound
  <2>3. EndBatch(wrote, instret + 1, n)
    BY <1>1, <1>3 DEF Advance
  <2>4. h1.v = x.v
    BY DEF Quiet, Only, Soft
  <2>5. InsnFrames(h1, insn, "after") = gr
    <3>1. Voids(h1) = Voids(x) /\ Returning(h1, insn) = Returning(x, insn)
      BY <2>4 DEF Voids, Returning
    <3> QED BY <3>1 DEF InsnFrames
  <2> HIDE DEF gr
  <2>6. Moves(x, frames, wrote, gr)
    BY <2>1, <2>2, MovesAfter
  <2>7. Moves(x, frames, h', gr)
    BY <2>3, <2>6, EndBatchMoves
  <2>8. Moves(h, frames, h', gr)
    BY <2>7, MovesBefore
  <2> QED BY <1>2, <1>3, <2>5, <2>8
<1>4. CASE r.npc # "after"
  <2>1. Quiet(x, r.h) /\ insn.op \notin {"mret", "sret"}
    BY <1>4 DEF Does
  <2>2. Sound(r.h)
    BY <2>1, QuietLegal
  <2>3. Quiet(r.h, wrote)
    BY <2>2, SameQuiet DEF Same, Sound
  <2>4. Quiet(h, wrote) /\ Shaped(wrote)
    BY <2>1, <2>2, <2>3, QuietTrans, QuietShaped DEF Sound
  <2> DEFINE a == [wrote EXCEPT !.serialized = TRUE]
             b == Advanced(h1, r3)
  <2>5. Quiet(wrote, a) /\ Quiet(wrote, b) /\ Quiet(wrote, wrote)
    BY <1>1, <2>4 DEF Advanced, Quiet, Only, Soft, Shaped
  <2>6. PICK y, k, left : y \in {a, b, wrote} /\ (h' = y \/ EndBatch(y, k, left))
    <3>1. \/ EndBatch(a, instret, n)
          \/ EndBatch(wrote, instret, instret)
          \/ h' = b
          \/ EndBatch(b, instret + 1, n)
      BY <1>1, <1>4 DEF Advance
    <3> HIDE DEF a, b
    <3> QED BY <3>1
  <2> HIDE DEF a, b
  <2>7. Quiet(h, y) /\ Shaped(y)
    BY <2>4, <2>5, <2>6, QuietTrans, QuietShaped
  <2>8. Quiet(y, h')
    BY <2>6, <2>7, EndBatchOnly, QuietSelf DEF Quiet, Only
  <2>9. Quiet(h, h')
    BY <2>7, <2>8, QuietTrans
  <2>10. Moves(h, frames, h', frames)
    BY <2>9, QuietMoves
  <2>11. DOMAIN frames' = Modes /\ \A m \in Modes : frames'[m] = frames[m]
    BY <1>2, <1>4, <2>1, FramesAfter DEF FramesHold
  <2> QED BY <2>10, <2>11, SameFrames
<1> QED BY <1>3, <1>4

LEMMA PassMoves ==
  ASSUME PrivParts, NEW insn \in Runnable, Pass(insn)
  PROVE  Moves(h, frames, h', frames')
<1> USE DEF PrivParts
<1>1. PICK h1, f, r, wrote : Passed(insn, h1, f, r, wrote)
  BY PassRan
<1>2. /\ \E s : h1 = [h EXCEPT !.single_step = s]
      /\ Fetches(h1, f) /\ Kept \subseteq DOMAIN r.h /\ Same(r.h, wrote)
  BY <1>1 DEF Passed
<1>3. /\ Quiet(h, h1) /\ Quiet(h, f.h) /\ Sound(f.h) /\ FramesHold(frames, f.h)
      /\ IF IsDone(f) THEN Does(f.h, insn, r) ELSE ~IsDone(r) /\ r.h = f.h
  BY <1>1, <1>2, InsnDoes DEF Passed, Ran
<1>4. ~IsDone(r) => Quiet(h, r.h)
  BY <1>3, QuietTrans DEF Does
<1>5. CASE r.trig # -1 /\ Triggered(r.h, insn, r.trig)
  <2>1. r.h.matched => insn.op \in Accessing
    BY <1>3, <1>5, <1>2 DEF Does, Fetches, Same, RunParts, Kept
  <2>2. Quiet(h, r.h)
    BY <1>4, <1>5 DEF IsDone
  <2> QED BY <1>5, <1>2, <2>1, <2>2, TriggeredMoves
<1>6. CASE r.trig = -1 /\ r.trap # NoTrap /\ AfterTrap(wrote, r.trap, h1.pc, instret)
  <2>1. Quiet(h, r.h)
    BY <1>4, <1>6 DEF IsDone
  <2>2. Shaped(r.h)
    BY <2>1, QuietShaped DEF Sound
  <2>3. Quiet(h, wrote)
    BY <1>2, <2>1, <2>2, SameQuiet, QuietTrans DEF Same
  <2>4. Sound(wrote) /\ FramesHold(frames, wrote)
    BY <2>3, QuietLegal, QuietHolds
  <2>5. Moves(wrote, frames, h', frames')
    BY <1>6, <2>4, AfterTrapMoves
  <2> QED BY <2>3, <2>5, MovesBefore
<1>7. CASE IsDone(r) /\ Advance(h1, insn, [r EXCEPT !.h = wrote])
  BY <1>3, <1>7, <1>2, AdvanceMoves
<1> QED BY <1>1, <1>5, <1>6, <1>7 DEF Passed

\* a step of the hart, but for the parts that say which program runs
LEMMA StepMoves ==
  ASSUME PrivParts, HartNext
  PROVE  Moves(h, frames, h', frames')
<1> USE DEF PrivParts
<1>0. /\ Moves(h, frames, h, frames) /\ NoReturn(frames, frames)
      /\ \A y : Only(h, y, {}) => Moves(h, frames, y, frames)
  BY QuietSelf, QuietMoves, MovesAfter DEF NoReturn
<1>1. CASE BeginStep
  <2>1. frames' = frames /\ (h' = EnterDebugMode(h, HaltCause) \/ h' = h)
    BY <1>1 DEF BeginStep
  <2> QED BY <1>0, <2>1, EnterDebugMoves
<1>2. CASE LoopHead
  <2>1. AfterTrap(h, InterruptTrap(h), h.pc, 0) \/ (h' = h /\ frames' = frames)
    BY <1>2 DEF LoopHead
  <2> QED BY <1>0, <2>1, AfterTrapMoves
<1>3. CASE StepMade
  <2> DEFINE x == [h EXCEPT !.single_step = "NONE"]
  <2>1. Only(h, x, {})
    BY DEF Only, Soft, Sound, Shaped
  <2>2. frames' = frames /\ (EndBatch(EnterDebugMode(x, "STEP"), instret, n) \/ EndBatch(x, instret, n))
    BY <1>3 DEF StepMade
  <2> HIDE DEF x
  <2>3. Moves(h, frames, x, frames) /\ Moves(h, frames, EnterDebugMode(x, "STEP"), frames)
    BY <1>0, <2>1, EnterDebugMoves
  <2> QED BY <2>2, <2>3, EndBatchMoves
<1>4. ASSUME NEW insn \in Runnable, Pass(insn) PROVE Moves(h, frames, h', frames')
  BY <1>4, PassMoves
<1>5. CASE \E i \in Lines[program] : SetLine(i)
  <2>1. frames' = frames /\ Only(h, h', {})
    BY <1>5 DEF SetLine, Only, Soft, Sound, Shaped
  <2> QED BY <1>0, <2>1
<1>6. CASE \E kind \in HaltKinds[program] : RequestHalt(kind)
  <2>1. frames' = frames /\ h' = h
    BY <1>6 DEF RequestHalt
  <2> QED BY <1>0, <2>1
<1>7. CASE SwitchHart
  <2>1. frames' = frames /\ Only(h, h', {})
    BY <1>7 DEF SwitchHart, YieldReservation, Only, Soft, Sound, Shaped
  <2> QED BY <1>0, <2>1
<1> QED BY <1>1, <1>2, <1>3, <1>4, <1>5, <1>6, <1>7 DEF HartNext

LEMMA StepRuns ==
  ASSUME RunParts, HartNext, at' # "terminated"
  PROVE  RunParts'
<1>1. ASSUME NEW y, Keeps(h, y), h' = y \/ \E k, left : EndBatch(y, k, left),
             UNCHANGED <<program, retry>>
      PROVE  RunParts'
  <2>1. Kept \subseteq DOMAIN y
    BY <1>1 DEF Keeps, KeepsCount, RunParts
  <2> QED BY <1>1, <2>1, EndBatchEnds DEF RunParts, Ended, Keeps, KeepsCount
<1>2. CASE BeginStep
  <2>1. /\ UNCHANGED program /\ (retry' = retry \/ retry' = NoInsn)
        /\ h' = EnterDebugMode(h, HaltCause) \/ h' = h
    BY <1>2 DEF BeginStep
  <2>2. Keeps(h, h')
    <3>1. Keeps(h, EnterDebugMode(h, HaltCause)) /\ Keeps(h, h)
      BY EnterDebugModeKeeps, KeepsSelf DEF RunParts
    <3> QED BY <2>1, <3>1
  <2> QED BY <2>1, <2>2 DEF RunParts, Keeps, KeepsCount
<1>3. CASE LoopHead
  <2>1. /\ UNCHANGED program
        /\ \/ AfterTrap(h, InterruptTrap(h), h.pc, 0)
           \/ h' = h /\ UNCHANGED retry
    BY <1>3 DEF LoopHead
  <2>2. CASE AfterTrap(h, InterruptTrap(h), h.pc, 0)
    <3>1. Ended(h, 0) /\ retry' = NoInsn
      BY <2>2, AfterTrapEnds DEF RunParts
    <3> QED BY <2>1, <3>1, RunAfter DEF RunParts
  <2>3. CASE h' = h /\ UNCHANGED retry
    BY <2>1, <2>3 DEF RunParts
  <2> QED BY <2>1, <2>2, <2>3
<1>4. CASE StepMade
  <2> DEFINE x == [h EXCEPT !.single_step = "NONE"]
  <2>1. Keeps(h, x) /\ Kept \subseteq DOMAIN x
    BY DEF Keeps, KeepsCount, Kept, RunParts
  <2>2. /\ UNCHANGED <<program, retry>>
        /\ EndBatch(EnterDebugMode(x, "STEP"), instret, n) \/ EndBatch(x, instret, n)
    BY <1>4 DEF StepMade
  <2> HIDE DEF x
  <2>3. Keeps(h, EnterDebugMode(x, "STEP"))
    BY <2>1, EnterDebugModeKeeps, KeepsTrans
  <2> QED BY <1>1, <2>1, <2>2, <2>3
<1>5. ASSUME NEW insn \in Runnable, Pass(insn) PROVE RunParts'
  BY <1>5, PassRuns
<1>6. CASE \E i \in Lines[program] : SetLine(i)
  <2>1. Keeps(h, h') /\ UNCHANGED <<program, retry>>
    BY <1>6 DEF SetLine, Keeps, KeepsCount, Kept, RunParts
  <2> QED BY <1>1, <2>1
<1>7. CASE \E kind \in HaltKinds[program] : RequestHalt(kind)
  BY <1>7 DEF RequestHalt, RunParts
<1>8. CASE SwitchHart
  <2>1. Keeps(h, h') /\ UNCHANGED <<program, retry>>
    BY <1>8 DEF SwitchHart, YieldReservation, Keeps, KeepsCount, Kept, RunParts
  <2> QED BY <1>1, <2>1
<1> QED BY <1>2, <1>3, <1>4, <1>5, <1>6, <1>7, <1>8 DEF HartNext

LEMMA StepTerminated ==
  ASSUME HartNext
  PROVE  at # "terminated"
BY DEF HartNext, BeginStep, LoopHead, StepMade, Pass, SetLine, RequestHalt, SwitchHart

LEMMA StepPrivileges ==
  ASSUME PrivIInv, [HartNext]_vars
  PROVE  PrivIInv'
<1>1. CASE HartNext
  <2>1. PrivParts
    BY <1>1, StepTerminated DEF PrivIInv
  <2>2. Sound(h') /\ FramesHold(frames', h')
    BY <1>1, <2>1, StepMoves DEF Moves
  <2>3. at' # "terminated" => RunParts'
    BY <1>1, <2>1, StepRuns DEF PrivParts
  <2>4. Sound(h)' /\ FramesHold(frames, h)'
    BY <2>2 DEF Sound, Shaped, Legal, FramesHold, LegalPrivilege, HasMpv, Has, SavedM, SavedHS,
                SavedVS, SavedS, HostStatus, GuestStatus
  <2> QED BY <2>3, <2>4 DEF PrivIInv, PrivParts
<1>2. CASE UNCHANGED vars
  <2>1. UNCHANGED <<h, frames, at, program, retry>>
    BY <1>2 DEF vars
  <2>2. Sound(h) => Sound(h)'
    BY <2>1 DEF Sound, Shaped, Legal, LegalPrivilege, HasMpv, Has
  <2>3. FramesHold(frames, h) => FramesHold(frames, h)'
    BY <2>1 DEF FramesHold, LegalPrivilege, HasMpv, Has, SavedM, SavedHS,
                SavedVS, SavedS, HostStatus, GuestStatus
  <2>4. RunParts => RunParts'
    BY <2>1 DEF RunParts
  <2> QED BY <2>1, <2>2, <2>3, <2>4 DEF PrivIInv, PrivParts
<1> QED BY <1>1, <1>2

LEMMA StepReturns ==
  ASSUME PrivIInv, [HartNext]_vars
  PROVE  /\ [\A m \in DOMAIN frames :
               frames[m].state = "saved" /\ frames'[m].state = "returned" => Restored(frames[m], m)]_vars
         /\ [InGuest(h) /\ InGuest(h') => HostView(h') = HostView(h)]_vars
         /\ [\A m \in DOMAIN frames :
               frames'[m] # frames[m] /\ frames'[m].state = "saved"
                 => Rank(h') >= Rank(h) /\ (m = "VS" => h.v) /\ (m = "HS" => ~h'.v)]_vars
<1>1. CASE UNCHANGED vars
  BY <1>1
<1>2. CASE HartNext
  <2>1. PrivParts
    BY <1>2, StepTerminated DEF PrivIInv
  <2>2. Moves(h, frames, h', frames') /\ DOMAIN frames = Modes
    BY <1>2, <2>1, StepMoves DEF PrivParts, FramesHold
  <2>3. \A m \in Modes : frames[m].state = "saved" /\ frames'[m].state = "returned"
                           => Restored(frames[m], m)
    BY <2>2 DEF Moves, Returned, RestoredIn, Restored
  <2>4. InGuest(h) /\ InGuest(h') => HostView(h') = HostView(h)
    BY <2>2 DEF Moves, Confined
  <2>5. \A m \in Modes : frames'[m] # frames[m] /\ frames'[m].state = "saved"
                           => Rank(h') >= Rank(h) /\ (m = "VS" => h.v) /\ (m = "HS" => ~h'.v)
    BY <2>2 DEF Moves, Risen
  <2> QED BY <2>2, <2>3, <2>4, <2>5
<1> QED BY <1>1, <1>2

----------------------------------------------------------------------------
(* The hart a program starts on.                                           *)

\* the hart a program starts on has its privileges in order
NoFrames == [m \in Modes |-> NoFrame]

LEMMA NoFramesHold == \A x : FramesHold(NoFrames, x)
BY DEF FramesHold, NoFrames, NoFrame, Modes

LEMMA LooselySound ==
  ASSUME NEW x, NEW y, Sound(x), Loosely(x, y)
  PROVE  Sound(y) /\ y.debug_mode = x.debug_mode
<1>1. y.debug_mode = x.debug_mode
  BY DEF Loosely, Loose, Only, Soft
<1> QED BY <1>1, LooselyHolds, NoFramesHold

LEMMA ResetSound ==
  ASSUME NEW haltOnReset \in BOOLEAN
  PROVE  Sound(Reset(haltOnReset)) /\ ~Reset(haltOnReset).debug_mode
<1> DEFINE h0 == [StateReset EXCEPT !.mideleg = IF "H" \in MaxIsa THEN HSInts ELSE {},
                                    !.dcsr.halt = haltOnReset]
           h1 == SetMstatus(h0, h0.mstatus)
           h2 == SetPmpAddr(h1, 1, 2^(PaddrBits - PmpShift) - 1)
           h3 == SetPmpCfg(h2, [i \in 1..NPmp |-> IF i = 1 THEN AllOfMemory ELSE PmpOff])
<1>1. Reset(haltOnReset) = IF NPmp = 0 THEN h1 ELSE h3
  BY DEF Reset
<1>2. /\ h0.prv = PRV_M /\ h0.v = FALSE /\ h0.misa = MaxIsa /\ h0.debug_mode = FALSE
      /\ h0.mstatus = StatusZero /\ h0.vsstatus = StatusZero /\ h0.hstatus = HstatusZero
      /\ DOMAIN h0.dcsr = DOMAIN DcsrZero /\ h0.dcsr.prv = 0
      /\ DOMAIN h0 = DOMAIN StateReset /\ h0.plain = [c \in Plain \union {"htval"} |-> 0]
  BY DEF StateReset, DcsrZero
<1>3. Soft \subseteq DOMAIN h0
  BY <1>2 DEF Soft, StateReset
<1> HIDE DEF h0
<1>4. PlainNames \subseteq DOMAIN h0.plain /\ "prv" \in DOMAIN h0.dcsr
  BY <1>2 DEF PlainNames, Plain, DcsrZero
<1>5. StatusNames \subseteq DOMAIN StatusZero /\ "SPV" \in DOMAIN HstatusZero
  BY DEF StatusNames, MachineFields, SupFields, StatusZero, HstatusZero
<1>6. Shaped(h0)
  BY <1>2, <1>3, <1>4, <1>5 DEF Shaped
<1>7. /\ Only(h0, h1, {"mstatus"}) /\ Shaped(h1)
      /\ \A f \in StatusNames : h1.mstatus[f] = StatusSet(h0, h0.mstatus, f)
  BY <1>6, SetMstatusOnly
<1> HIDE DEF h1
<1>8. /\ h1.prv = PRV_M /\ h1.v = FALSE /\ h1.misa = MaxIsa /\ h1.debug_mode = FALSE
      /\ h1.vsstatus = StatusZero /\ h1.hstatus = HstatusZero /\ h1.dcsr.prv = 0
  BY <1>2, <1>7 DEF Only, Soft
<1>9. h1.mstatus.MPP = LegalPrivilege(h0, 0) /\ h1.mstatus.SPP = 0 /\ h1.mstatus.MPV = FALSE
  <2>1. /\ StatusSet(h0, StatusZero, "MPP") = LegalPrivilege(h0, 0)
        /\ StatusSet(h0, StatusZero, "SPP") = 0 /\ StatusSet(h0, StatusZero, "MPV") = FALSE
    BY <1>2 DEF StatusSet, StatusZero
  <2>2. \A f \in {"MPP", "SPP", "MPV"} : h1.mstatus[f] = StatusSet(h0, StatusZero, f)
    BY <1>2, <1>7 DEF StatusNames, MachineFields, SupFields
  <2> QED BY <2>1, <2>2
<1>10. \A p \in 0..3 : LegalPrivilege(h1, p) = LegalPrivilege(h0, p)
  BY <1>2, <1>8, LegalPrivileges
<1>11. /\ h1.mstatus.MPP \in 0..3 /\ LegalPrivilege(h1, h1.mstatus.MPP) = h1.mstatus.MPP
       /\ LegalPrivilege(h1, PRV_M) = PRV_M
  BY <1>9, <1>10, LegalPrivileges
<1>12. Legal(h1)
  <2>1. StatusZero.SPP = 0 /\ HstatusZero.SPV = FALSE
    BY DEF StatusZero, HstatusZero
  <2>2. LegalPrivilege(h1, h1.prv) = h1.prv /\ h1.prv \in 0..3
    BY <1>8, <1>11 DEF PRV_M
  <2>3. h1.vsstatus.SPP = 0 /\ h1.hstatus.SPV = FALSE
    BY <1>8, <2>1
  <2>4. h1.misa = MaxIsa /\ h1.v = FALSE /\ h1.debug_mode = FALSE /\ h1.dcsr.prv = 0
    BY <1>8
  <2>5. /\ ~h1.v /\ h1.v \in BOOLEAN /\ ~h1.mstatus.MPV /\ h1.mstatus.MPV \in BOOLEAN
        /\ ~h1.hstatus.SPV /\ h1.hstatus.SPV \in BOOLEAN /\ ~h1.debug_mode
    BY <1>9, <2>3, <2>4
  <2>6. Has(h1, "H") <=> "H" \in MaxIsa
    BY <2>4 DEF Has
  <2>7. h1.mstatus.SPP \in 0..1 /\ h1.vsstatus.SPP \in 0..1 /\ h1.dcsr.prv \in 0..3
    BY <1>9, <2>3, <2>4
  <2> QED BY <1>11, <2>2, <2>5, <2>6, <2>7, Zenon DEF Legal
<1>13. Sound(h1)
  BY <1>7, <1>12 DEF Sound
<1>14. Sound(h2) /\ ~h2.debug_mode
  BY <1>8, <1>13, PmpLoosely, LooselySound DEF Sound
<1> HIDE DEF h2
<1>15. Sound(h3) /\ ~h3.debug_mode
  <2>1. \A val : Loosely(h2, SetPmpCfg(h2, val))
    BY <1>14, PmpLoosely DEF Sound
  <2> QED BY <1>14, <2>1, LooselySound
<1> QED BY <1>1, <1>8, <1>13, <1>15

LEMMA WriteSound ==
  ASSUME NEW x, NEW which \in WritableCsrs, NEW val, Sound(x), Fits(which, val),
         which = "hstatus" => Has(x, "H")
  PROVE  Sound(SetCsr(x, which, val)) /\ SetCsr(x, which, val).debug_mode = x.debug_mode
<1>1. Wrote(x, NoFrames, which, SetCsr(x, which, val))
  BY NoFramesHold, WriteMoves
<1> QED BY <1>1 DEF Wrote

LEMMA BootMretSound ==
  ASSUME NEW x, Sound(x), ~x.debug_mode
  PROVE  Sound(ExecMret(x).h)
<1>1. CASE x.prv < PRV_M
  BY <1>1 DEF ExecMret, Traps, Out, Raises, Result
<1>2. CASE ~(x.prv < PRV_M)
  BY <1>2, MretSound
<1> QED BY <1>1, <1>2

LEMMA InitPrivileges ==
  ASSUME NEW x, NEW code \in DOMAIN Code, Ready(x), Sound(x), HartInit(x, code)
  PROVE  PrivIInv
<1>1. h = x /\ frames = NoFrames
  BY DEF HartInit, NoFrames, Modes
<1>2. FramesHold(frames, h)
  BY <1>1, NoFramesHold
<1>3. RunParts
  BY DEF HartInit, Ready, RunParts
<1> QED BY <1>1, <1>2, <1>3 DEF PrivIInv, PrivParts

(* The start of a program on a hart with its modes in order; that the hart *)
(* is one is shown above for a hart out of reset, whatever its boot code   *)
(* writes that fits (ResetSound, WriteSound, BootMretSound).               *)
SoundInit == \E x : \E code \in DOMAIN Code : Ready(x) /\ Sound(x) /\ HartInit(x, code)
SoundSpec == SoundInit /\ [][HartNext]_vars

(* The strengthening of PrivilegeMoves is kept by every step of a hart: its*)
(* modes exist, and the context that each mode has put aside is where its  *)
(* handler will look for it, whichever trap, return, register write, debug *)
(* entry or turn of the simulator comes in between.                        *)
THEOREM PrivilegesInductive == SoundSpec => []PrivIInv
<1>1. SoundInit => PrivIInv
  BY InitPrivileges DEF SoundInit
<1>2. PrivIInv /\ [HartNext]_vars => PrivIInv'
  BY StepPrivileges
<1> QED BY <1>1, <1>2, PTL DEF SoundSpec

(* Every change of privilege is up on a trap or back on a return, and a    *)
(* guest changes nothing of its host: a handler's MRET or SRET restores the*)
(* privilege, the guest, the pc and the interrupt enable that take_trap put*)
(* aside, and for M the supervisor's status that set_virt exchanges; no    *)
(* register of the host or of the machine changes while a guest runs; and  *)
(* no trap lowers the privilege.  For any program whose writes fit their   *)
(* registers, any extensions, delegation, interrupts and debugger, any     *)
(* number of steps and any memory.                                         *)
THEOREM PrivilegesMove == SoundSpec => PrivilegeMoves
<1>1. PrivIInv /\ [HartNext]_vars =>
        [\A m \in DOMAIN frames :
           frames[m].state = "saved" /\ frames'[m].state = "returned" => Restored(frames[m], m)]_vars
  BY StepReturns
<1>2. PrivIInv /\ [HartNext]_vars => [InGuest(h) /\ InGuest(h') => HostView(h') = HostView(h)]_vars
  BY StepReturns
<1>3. PrivIInv /\ [HartNext]_vars =>
        [\A m \in DOMAIN frames :
           frames'[m] # frames[m] /\ frames'[m].state = "saved"
             => Rank(h') >= Rank(h) /\ (m = "VS" => h.v) /\ (m = "HS" => ~h'.v)]_vars
  BY StepReturns
<1>4. SoundSpec => ReturnsRestore
  BY <1>1, PrivilegesInductive, PTL DEF SoundSpec, ReturnsRestore
<1>5. SoundSpec => GuestConfined
  BY <1>2, PrivilegesInductive, PTL DEF SoundSpec, GuestConfined
<1>6. SoundSpec => TrapsRise
  BY <1>3, PrivilegesInductive, PTL DEF SoundSpec, TrapsRise
<1> QED BY <1>4, <1>5, <1>6 DEF PrivilegeMoves

----------------------------------------------------------------------------
(* One step of the debugger's.                                             *)

\* From its DRET until debug mode, the hart is about to make the step, is between the two passes
\* of it, or has made it; from then on dpc is where the program goes on.
InStep(x, res, again) ==
  IF x.debug_mode THEN res.count \in {0, 1} /\ x.single_step = "NONE" /\ x.dpc = res.pc
  ELSE /\ x.pc = res.pc
       /\ \/ x.single_step = "STEPPING" /\ res.count = 0 /\ ~x.serialized
          \/ /\ x.single_step = "STEPPED"
             /\ IF x.serialized THEN res.count = 0 /\ again # NoInsn ELSE res.count = 1
InTurn(x, res, again) ==
  /\ DOMAIN res = DOMAIN NotResumed
  /\ res.on /\ ~res.broke => InStep(x, res, again)
StepParts == RunParts /\ InTurn(h, resumed, retry)
StepIInv == StepsOnce /\ (at # "terminated" => StepParts)

\* what InStep depends on
Steady(x, y) == KeepsStep(x, y) /\ y.pc = x.pc /\ y.serialized = x.serialized

LEMMA SteadyTurn ==
  ASSUME NEW x, NEW y, NEW res, NEW again, Steady(x, y), InTurn(x, res, again)
  PROVE  InTurn(y, res, again)
BY DEF Steady, KeepsStep, KeepsMode, InTurn, InStep

LEMMA TurnOnce ==
  ASSUME InTurn(h, resumed, retry)
  PROVE  StepsOnce
<1>1. \A c \in {0, 1} : c <= 1
  OBVIOUS
<1> QED BY <1>1 DEF InTurn, InStep, StepsOnce

LEMMA EndBatchSteady ==
  ASSUME NEW y, NEW k, NEW left, Kept \subseteq DOMAIN y, EndBatch(y, k, left)
  PROVE  Steady(y, h')
BY DEF EndBatch, Kept, Steady, KeepsStep, KeepsMode

LEMMA SameSteady ==
  ASSUME NEW x, NEW y, Kept \subseteq DOMAIN x, Same(x, y)
  PROVE  Steady(x, y) /\ Kept \subseteq DOMAIN y
BY DEF Same, Alike, Unseen, Kept, Steady, KeepsStep, KeepsMode

\* a trap ends the step, or is what the program goes on with
LEMMA AfterTrapTurn ==
  ASSUME NEW x, Kept \subseteq DOMAIN x, NEW t, NEW epc, NEW k, AfterTrap(x, t, epc, k),
         DOMAIN resumed = DOMAIN NotResumed,
         resumed.on /\ ~resumed.broke =>
           IF x.debug_mode THEN resumed.count \in {0, 1} /\ x.single_step = "NONE" /\ x.dpc = resumed.pc
           ELSE \/ x.single_step = "STEPPING" /\ resumed.count = 0 /\ ~x.serialized /\ t.int
                \/ x.single_step = "STEPPED" /\ (resumed.count = 0 \/ (resumed.count = 1 /\ t.int))
  PROVE  InTurn(h', resumed', retry')
<1> DEFINE y == TakeTrap(x, t, epc)
           z == Stopped(y)
<1>1. Keeps(x, y) /\ (HandledIn(x, t) = "debug" \/ KeepsStep(x, y)) /\ Kept \subseteq DOMAIN y
  BY TakeTrapKeeps DEF Keeps, KeepsCount
<1>2. /\ EndBatch(z, k, k)
      /\ resumed' = IF x.debug_mode THEN resumed
                    ELSE [Counted(IF t.int THEN 0 ELSE 1, y.pc) EXCEPT
                            !.broke = @ \/ HandledIn(x, t) = "debug"]
  BY DEF AfterTrap
<1>3. z = IF y.single_step = "STEPPED"
          THEN EnterDebugMode([y EXCEPT !.single_step = "NONE"], "STEP") ELSE y
  BY DEF Stopped
<1>4. x.debug_mode => HandledIn(x, t) = "park"
  BY DEF HandledIn
<1> HIDE DEF y, z
<1>5. DOMAIN resumed' = DOMAIN NotResumed
  BY <1>2 DEF Counted
<1>6. Kept \subseteq DOMAIN z /\ (y.single_step # "STEPPED" => z = y)
      /\ (y.single_step = "STEPPED" => z.debug_mode = TRUE /\ z.single_step = "NONE" /\ z.dpc = y.pc)
  <2> DEFINE y1 == [y EXCEPT !.single_step = "NONE"]
  <2>1. Kept \subseteq DOMAIN y1 /\ y1.single_step = "NONE" /\ y1.pc = y.pc
    BY <1>1 DEF Kept
  <2>2. z = IF y.single_step = "STEPPED" THEN EnterDebugMode(y1, "STEP") ELSE y
    BY <1>3
  <2> HIDE DEF y1
  <2>3. LET e == EnterDebugMode(y1, "STEP")
        IN Keeps(y1, e) /\ e.debug_mode = TRUE /\ e.single_step = y1.single_step /\ e.dpc = y1.pc
    BY <2>1, EnterDebugModeKeeps
  <2> QED BY <1>1, <2>1, <2>2, <2>3 DEF Keeps, KeepsCount
<1>7. Steady(z, h')
  BY <1>2, <1>6, EndBatchSteady
<1>8. ASSUME resumed'.on, ~resumed'.broke PROVE InStep(z, resumed', retry')
  <2>1. CASE x.debug_mode
    <3>1. resumed' = resumed /\ KeepsStep(x, y)
      BY <1>1, <1>2, <1>4, <2>1
    <3>2. resumed.count \in {0, 1} /\ x.single_step = "NONE" /\ x.dpc = resumed.pc
      BY <1>8, <2>1, <3>1
    <3>3. z = y
      BY <1>6, <3>1, <3>2 DEF KeepsStep, KeepsMode
    <3> QED BY <2>1, <3>1, <3>2, <3>3 DEF InStep, KeepsStep, KeepsMode
  <2>2. CASE ~x.debug_mode
    <3>1. resumed.on
      BY <1>2, <1>8, <2>2 DEF Counted, NotResumed
    <3>2. resumed' = [resumed EXCEPT !.count = @ + (IF t.int THEN 0 ELSE 1), !.pc = y.pc,
                                     !.broke = @ \/ HandledIn(x, t) = "debug"]
      BY <1>2, <2>2, <3>1 DEF Counted
    <3>3. /\ ~resumed.broke /\ HandledIn(x, t) # "debug" /\ resumed'.pc = y.pc
          /\ resumed'.count = resumed.count + (IF t.int THEN 0 ELSE 1)
      BY <1>8, <3>2 DEF NotResumed
    <3>4. KeepsStep(x, y) /\ y.serialized = x.serialized
      BY <1>1, <3>3 DEF Keeps, KeepsCount
    <3>5. CASE x.single_step = "STEPPING"
      <4>1. resumed.count = 0 /\ ~x.serialized /\ t.int
        BY <2>2, <3>1, <3>3, <3>5
      <4>2. z = y
        BY <1>6, <3>4, <3>5 DEF KeepsStep, KeepsMode
      <4> QED BY <2>2, <3>3, <3>4, <3>5, <4>1, <4>2 DEF InStep, KeepsStep, KeepsMode
    <3>6. CASE x.single_step # "STEPPING"
      <4>1. x.single_step = "STEPPED" /\ (resumed.count = 0 \/ (resumed.count = 1 /\ t.int))
        BY <2>2, <3>1, <3>3, <3>6
      <4>2. z.debug_mode = TRUE /\ z.single_step = "NONE" /\ z.dpc = y.pc
        BY <1>6, <3>4, <4>1 DEF KeepsStep, KeepsMode
      <4>3. resumed'.count \in {0, 1}
        BY <3>3, <4>1
      <4> QED BY <3>3, <4>2, <4>3 DEF InStep
    <3> QED BY <3>5, <3>6
  <2> QED BY <2>1, <2>2
<1>9. InTurn(z, resumed', retry')
  BY <1>5, <1>8 DEF InTurn
<1> QED BY <1>7, <1>9, SteadyTurn

(* A pass.                                                                 *)

\* what the fetch and the execution leave of the hart x a pass starts on
LEMMA RanSteps ==
  ASSUME RunParts, NEW insn \in Runnable, NEW x, NEW f, NEW r, Kept \subseteq DOMAIN x,
         Fetches(x, f), Ran(insn, f, r)
  PROVE  /\ ~IsDone(r) => KeepsStep(x, r.h)
         /\ IsDone(r) /\ insn.op = "dret" =>
              /\ x.debug_mode /\ r.npc = "after" /\ ~r.h.debug_mode /\ r.h.serialized = x.serialized
              /\ x.dcsr.step => r.h.single_step = "STEPPING"
         /\ IsDone(r) /\ insn.op # "dret" =>
              /\ KeepsMode(x, r.h) /\ (Redirects(insn) \/ r.h.dpc = x.dpc)
              /\ IF r.npc = "before" THEN insn.op = "csr" /\ r.h.pc = x.pc /\ r.h.dpc = x.dpc
                 ELSE ~r.h.serialized \/ (insn.op # "csr" /\ r.h.serialized = x.serialized)
<1>1. Steady(x, f.h) /\ Kept \subseteq DOMAIN f.h /\ f.h.dcsr = x.dcsr
  BY SameSteady DEF Fetches, Same, Alike, Unseen, Kept
<1>2. CASE ~IsDone(f)
  <2>1. r = Out(f, "next")
    BY <1>2 DEF Ran, Executed
  <2> QED BY <1>1, <1>2, <2>1 DEF Out, IsDone, Steady
<1>3. CASE IsDone(f) /\ insn.op = "csr"
  <2>1. /\ KeepsMode(f.h, r.h) /\ (~IsDone(r) \/ ~Redirects(insn) => r.h.dpc = f.h.dpc)
        /\ h.serialized => ~r.h.serialized
    BY <1>3, RanCsr
  <2>2. f.h.serialized = h.serialized /\ Writes(insn)
    BY <1>3, RanFetched, RunnableCode DEF Keeps, KeepsCount
  <2>3. ~f.h.serialized => r = Out(Done(f.h, -1), "before")
    BY <1>3 DEF Ran, Executed, Execute, ExecCsr
  <2>4. ~f.h.serialized => r.npc = "before" /\ r.h = f.h
    BY <2>3 DEF Out, Done, Result
  <2>5. f.h.serialized /\ IsDone(r) => r.npc = "after"
    BY <1>3, <2>2, RanCsr DEF IsDone
  <2>6. KeepsMode(x, r.h) /\ (~IsDone(r) \/ ~Redirects(insn) => r.h.dpc = x.dpc)
    BY <1>1, <2>1 DEF Steady, KeepsStep, KeepsMode
  <2>7. IsDone(r) => IF r.npc = "before" THEN r.h.pc = x.pc /\ r.h.dpc = x.dpc ELSE ~r.h.serialized
    <3>1. CASE ~f.h.serialized
      BY <1>1, <2>4, <3>1 DEF Steady, KeepsStep
    <3>2. CASE f.h.serialized
      BY <2>1, <2>2, <2>5, <3>2
    <3> QED BY <3>1, <3>2
  <2>8. ~IsDone(r) => KeepsStep(x, r.h)
    BY <2>6 DEF KeepsStep
  <2> QED BY <1>3, <2>6, <2>7, <2>8
<1>4. CASE IsDone(f) /\ insn.op = "dret"
  <2>1. r = ExecDret(f.h)
    BY <1>4 DEF Ran, Executed, Execute
  <2>2. \/ Plainly(f.h, r) /\ r.trap # NoTrap
        \/ /\ Leaves(f.h, r) /\ f.h.debug_mode /\ IsDone(r) /\ r.npc = "after" /\ ~r.h.debug_mode
           /\ f.h.dcsr.step => r.h.single_step = "STEPPING"
    BY <1>1, <2>1, DretLeaves
  <2> QED BY <1>1, <1>4, <2>2
          DEF Plainly, Calm, Leaves, KeepsCount, IsDone, Steady, KeepsStep, KeepsMode
<1>5. CASE IsDone(f) /\ insn.op \notin {"csr", "dret"}
  <2>1. Plainly(f.h, r)
    BY <1>1, <1>5, RunnableCode, ExecutePlainly DEF Ran, Executed
  <2> QED BY <1>1, <1>5, <2>1
          DEF Plainly, Calm, Leaves, KeepsCount, Sequels, Steady, KeepsStep, KeepsMode
<1> QED BY <1>2, <1>3, <1>4, <1>5

\* the instruction came to its end, or asked to start a batch
LEMMA AdvanceTurn ==
  ASSUME StepParts, at = "pass", NEW insn \in Runnable, NEW x, NEW f, NEW r, NEW wrote,
         Kept \subseteq DOMAIN x, Fetches(x, f), Ran(insn, f, r), Kept \subseteq DOMAIN r.h,
         Same(r.h, wrote), IsDone(r), Advance(x, insn, [r EXCEPT !.h = wrote]),
         resumed.on /\ ~resumed.broke =>
           IF x.debug_mode THEN resumed.count \in {0, 1} /\ x.single_step = "NONE" /\ x.dpc = resumed.pc
           ELSE /\ x.pc = resumed.pc /\ x.single_step = "STEPPED" /\ resumed.count = 0
                /\ x.serialized => insn.op = "csr"
  PROVE  InTurn(h', resumed', retry')
<1> USE DEF StepParts
<1> DEFINE r3 == [r EXCEPT !.h = wrote]
           pc == NextPc(x, r3)
<1>1. IsResult(r)
  <2>1. CASE insn.op = "csr" /\ IsDone(f)
    BY <2>1, RanCsr
  <2>2. CASE ~(insn.op = "csr" /\ IsDone(f))
    BY <2>2, RanPlainly DEF Leaves
  <2> QED BY <2>1, <2>2
<1>2. r3.h = wrote /\ r3.npc = r.npc
  BY <1>1 DEF IsResult
<1>3. Steady(r.h, wrote) /\ Kept \subseteq DOMAIN wrote
  BY SameSteady
<1>4. /\ IsDone(r) /\ insn.op = "dret" =>
              /\ x.debug_mode /\ r.npc = "after" /\ ~r.h.debug_mode /\ r.h.serialized = x.serialized
              /\ x.dcsr.step => r.h.single_step = "STEPPING"
      /\ IsDone(r) /\ insn.op # "dret" =>
              /\ KeepsMode(x, r.h) /\ (Redirects(insn) \/ r.h.dpc = x.dpc)
              /\ IF r.npc = "before" THEN insn.op = "csr" /\ r.h.pc = x.pc /\ r.h.dpc = x.dpc
                 ELSE ~r.h.serialized \/ (insn.op # "csr" /\ r.h.serialized = x.serialized)
  BY RanSteps
<1>5. /\ retry' = IF r.npc = "before" THEN insn ELSE NoInsn
      /\ resumed' = IF insn.op = "dret" THEN Resumed(x, r3)
                    ELSE IF r.npc = "before" THEN resumed
                    ELSE IF x.debug_mode THEN [resumed EXCEPT !.broke = @ \/ Redirects(insn)]
                    ELSE Counted(1, pc)
  BY <1>2 DEF Advance
<1>6. DOMAIN resumed' = DOMAIN NotResumed
  BY <1>5 DEF InTurn, Resumed, NotResumed, Counted
<1>7. CASE r.npc = "before"
  <2> DEFINE y == [wrote EXCEPT !.serialized = TRUE]
  <2>1. EndBatch(y, instret, n)
    BY <1>2, <1>7 DEF Advance
  <2>2. KeepsStep(wrote, y) /\ y.pc = wrote.pc /\ y.serialized = TRUE /\ Kept \subseteq DOMAIN y
    BY <1>3 DEF KeepsStep, KeepsMode, Kept
  <2> HIDE DEF y
  <2>3. insn.op # "dret" /\ resumed' = resumed /\ retry' = insn
    BY <1>4, <1>5, <1>7
  <2>4. insn # NoInsn /\ KeepsStep(x, y) /\ y.pc = x.pc
    BY <1>3, <1>4, <1>7, <2>2, <2>3, RunnableCode DEF Steady, KeepsStep, KeepsMode
  <2>5. resumed.on /\ ~resumed.broke => InStep(y, resumed, insn)
    BY <2>2, <2>4 DEF InStep, KeepsStep, KeepsMode
  <2>6. InTurn(y, resumed', retry')
    BY <1>6, <2>3, <2>5 DEF InTurn
  <2> QED BY <2>1, <2>2, <2>6, EndBatchSteady, SteadyTurn
<1>8. CASE r.npc # "before"
  <2>1. PICK y : /\ KeepsStep(wrote, y) /\ y.serialized = wrote.serialized /\ y.pc = pc
                 /\ Kept \subseteq DOMAIN y /\ (h' = y \/ \E k, left : EndBatch(y, k, left))
    <3> DEFINE z == Advanced(x, r3)
    <3>1. KeepsStep(wrote, z) /\ z.serialized = wrote.serialized /\ z.pc = pc /\ Kept \subseteq DOMAIN z
      BY <1>2, <1>3 DEF Advanced, KeepsStep, KeepsMode, Kept
    <3>2. r.npc # "next" => pc = wrote.pc
      BY <1>2 DEF NextPc
    <3>3. KeepsStep(wrote, wrote)
      BY DEF KeepsStep, KeepsMode
    <3>4. \/ r.npc \in {"after", "wfi"} /\ \E k, left : EndBatch(wrote, k, left)
          \/ h' = z \/ EndBatch(z, instret + 1, n)
      BY <1>2, <1>8 DEF Advance
    <3> HIDE DEF z, pc
    <3> QED BY <1>3, <3>1, <3>2, <3>3, <3>4
  <2>2. InTurn(y, resumed', retry')
    <3> SUFFICES ASSUME resumed'.on, ~resumed'.broke PROVE InStep(y, resumed', retry')
      BY <1>6 DEF InTurn
    <3>1. CASE insn.op = "dret"
      <4>1. x.dcsr.step /\ resumed' = [on |-> TRUE, count |-> 0, pc |-> wrote.pc, broke |-> x.serialized]
        BY <1>2, <1>5, <3>1 DEF Resumed, NotResumed
      <4>2. /\ ~y.debug_mode /\ y.single_step = "STEPPING" /\ ~y.serialized /\ y.pc = wrote.pc
        <5>1. r.npc = "after" /\ ~r.h.debug_mode /\ r.h.single_step = "STEPPING" /\ ~r.h.serialized
          BY <1>4, <3>1, <4>1
        <5> QED BY <1>2, <1>3, <2>1, <5>1 DEF NextPc, Steady, KeepsStep, KeepsMode
      <4> QED BY <4>1, <4>2 DEF InStep
    <3>2. CASE insn.op # "dret" /\ x.debug_mode
      <4>1. resumed' = [resumed EXCEPT !.broke = @ \/ Redirects(insn)]
        BY <1>5, <1>8, <3>2
      <4>2. /\ resumed.on /\ ~resumed.broke /\ ~Redirects(insn)
            /\ resumed'.count = resumed.count /\ resumed'.pc = resumed.pc
        BY <4>1 DEF InTurn, NotResumed
      <4>3. KeepsStep(x, y)
        BY <1>3, <1>4, <2>1, <3>2, <4>2 DEF Steady, KeepsStep, KeepsMode
      <4> QED BY <3>2, <4>2, <4>3 DEF InStep, KeepsStep, KeepsMode
    <3>3. CASE insn.op # "dret" /\ ~x.debug_mode
      <4>1. resumed' = Counted(1, pc) /\ retry' = NoInsn
        BY <1>5, <1>8, <3>3
      <4> HIDE DEF pc
      <4>2. resumed.on /\ resumed' = [resumed EXCEPT !.count = @ + 1, !.pc = pc]
        BY <4>1 DEF Counted
      <4>3. ~resumed.broke /\ resumed'.count = resumed.count + 1 /\ resumed'.pc = pc
        BY <4>2 DEF InTurn, NotResumed
      <4>4. x.single_step = "STEPPED" /\ resumed.count = 0 /\ (x.serialized => insn.op = "csr")
        BY <3>3, <4>2, <4>3
      <4>5. ~r.h.serialized /\ KeepsMode(x, r.h)
        BY <1>4, <1>8, <3>3, <4>4
      <4>6. ~y.debug_mode /\ y.single_step = "STEPPED" /\ ~y.serialized
        BY <1>3, <2>1, <3>3, <4>4, <4>5 DEF Steady, KeepsStep, KeepsMode
      <4> QED BY <2>1, <4>3, <4>4, <4>6 DEF InStep
    <3> QED BY <3>1, <3>2, <3>3
  <2> QED BY <2>1, <2>2, EndBatchSteady, SteadyTurn
<1> QED BY <1>7, <1>8

\* whichever way a pass ends
LEMMA PassTurn ==
  ASSUME StepParts, NEW insn \in Runnable, Pass(insn)
  PROVE  IF at' = "terminated" THEN StepsOnce' ELSE InTurn(h', resumed', retry')
<1> USE DEF StepParts
<1>1. /\ at = "pass" /\ RunParts
      /\ ~h.serialized => h.single_step # "STEPPED"
  BY DEF Pass, SlowPath
<1>2. PICK x, f, r, wrote : Passed(insn, x, f, r, wrote)
  BY <1>1, PassRan
<1>3. /\ x = [h EXCEPT !.single_step = IF @ = "STEPPING" THEN "STEPPED" ELSE @]
      /\ Fetches(x, f) /\ Ran(insn, f, r) /\ Kept \subseteq DOMAIN r.h /\ Same(r.h, wrote)
  BY <1>2 DEF Passed
<1>4. Kept \subseteq DOMAIN x
  BY <1>3 DEF RunParts, Kept
<1>5. resumed.on /\ ~resumed.broke =>
        IF x.debug_mode THEN resumed.count \in {0, 1} /\ x.single_step = "NONE" /\ x.dpc = resumed.pc
        ELSE /\ x.pc = resumed.pc /\ x.single_step = "STEPPED" /\ resumed.count = 0
             /\ x.serialized => insn.op = "csr"
  <2> SUFFICES ASSUME resumed.on, ~resumed.broke
               PROVE  IF x.debug_mode
                      THEN resumed.count \in {0, 1} /\ x.single_step = "NONE" /\ x.dpc = resumed.pc
                      ELSE /\ x.pc = resumed.pc /\ x.single_step = "STEPPED" /\ resumed.count = 0
                           /\ x.serialized => insn.op = "csr"
    OBVIOUS
  <2>1. InStep(h, resumed, retry)
    BY DEF InTurn
  <2>2. /\ x.debug_mode = h.debug_mode /\ x.dpc = h.dpc /\ x.pc = h.pc /\ x.serialized = h.serialized
        /\ x.single_step = IF h.single_step = "STEPPING" THEN "STEPPED" ELSE h.single_step
    BY <1>3 DEF RunParts, Kept
  <2>3. retry # NoInsn => insn.op = "csr"
    BY DEF Runnable, RunParts
  <2> QED BY <1>1, <2>1, <2>2, <2>3 DEF InStep
<1>6. CASE r.trig # -1 /\ Triggered(r.h, insn, r.trig)
  <2>1. KeepsStep(x, r.h)
    BY <1>1, <1>3, <1>4, <1>6, RanSteps DEF IsDone
  <2>2. \/ at' = "terminated" /\ h' = r.h /\ resumed' = resumed
        \/ \E w, k, a : TriggerAction(w, r.trig, k, a)
    BY <1>6 DEF Triggered
  <2>3. CASE at' = "terminated" /\ h' = r.h /\ resumed' = resumed
    <3>1. \A c \in {0, 1} : c <= 1
      OBVIOUS
    <3>2. resumed.on /\ ~resumed.broke => resumed.count \in {0, 1} /\ (r.h.debug_mode => r.h.dpc = resumed.pc)
      BY <1>5, <2>1 DEF KeepsStep, KeepsMode
    <3> QED BY <2>3, <3>1, <3>2 DEF StepsOnce
  <2>4. ASSUME NEW w, NEW k, NEW a, TriggerAction(w, r.trig, k, a)
        PROVE  at' # "terminated" /\ InTurn(h', resumed', retry')
    <3>1. resumed' = [Counted(1, w.pc) EXCEPT !.broke = TRUE] /\ at' \in {"loop", "host"}
      BY <2>4 DEF TriggerAction, EndBatch
    <3> QED BY <3>1 DEF InTurn, Counted, NotResumed
  <2> QED BY <2>2, <2>3, <2>4
<1>7. CASE r.trig = -1 /\ r.trap # NoTrap /\ AfterTrap(wrote, r.trap, x.pc, instret)
  <2>1. KeepsStep(x, r.h)
    BY <1>1, <1>3, <1>4, <1>7, RanSteps DEF IsDone
  <2>2. KeepsStep(x, wrote) /\ Kept \subseteq DOMAIN wrote
    BY <1>3, <2>1, SameSteady DEF Steady, KeepsStep, KeepsMode
  <2>3. at' # "terminated"
    BY <1>7 DEF AfterTrap, EndBatch
  <2>4. resumed.on /\ ~resumed.broke =>
          IF wrote.debug_mode
          THEN resumed.count \in {0, 1} /\ wrote.single_step = "NONE" /\ wrote.dpc = resumed.pc
          ELSE wrote.single_step = "STEPPED" /\ resumed.count = 0
    BY <1>5, <2>2 DEF KeepsStep, KeepsMode
  <2>5. InTurn(h', resumed', retry')
    BY <1>7, <2>2, <2>4, AfterTrapTurn DEF InTurn
  <2> QED BY <2>3, <2>5
<1>8. CASE IsDone(r) /\ Advance(x, insn, [r EXCEPT !.h = wrote])
  <2>1. InTurn(h', resumed', retry')
    BY <1>1, <1>3, <1>4, <1>5, <1>8, AdvanceTurn
  <2>2. at' # "terminated"
    BY <1>1, <1>8 DEF Advance, EndBatch
  <2> QED BY <2>1, <2>2
<1> QED BY <1>2, <1>6, <1>7, <1>8 DEF Passed

LEMMA StepTurn ==
  ASSUME StepParts, HartNext
  PROVE  IF at' = "terminated" THEN StepsOnce' ELSE InTurn(h', resumed', retry')
<1> USE DEF StepParts
<1>1. ASSUME at' # "terminated", Steady(h, h'), UNCHANGED <<resumed, retry>>
      PROVE  IF at' = "terminated" THEN StepsOnce' ELSE InTurn(h', resumed', retry')
  BY <1>1, SteadyTurn
<1>2. CASE BeginStep
  <2>1. \/ resumed' = NotResumed
        \/ UNCHANGED <<h, resumed, retry>>
    BY <1>2 DEF BeginStep
  <2>2. at' # "terminated" /\ Steady(h, h)
    BY <1>2 DEF BeginStep, Steady, KeepsStep, KeepsMode
  <2> QED BY <1>1, <2>1, <2>2 DEF InTurn, NotResumed
<1>3. CASE LoopHead
  <2>1. CASE InterruptTrap(h) # NoTrap
    <3>1. AfterTrap(h, InterruptTrap(h), h.pc, 0)
      BY <1>3, <2>1 DEF LoopHead
    <3>2. ~h.debug_mode /\ InterruptTrap(h).int
      BY <2>1 DEF InterruptTrap, Deliverable
    <3>3. at' # "terminated"
      BY <3>1 DEF AfterTrap, EndBatch
    <3>4. InTurn(h', resumed', retry')
      BY <3>1, <3>2, AfterTrapTurn DEF InTurn, InStep, RunParts
    <3> QED BY <3>3, <3>4
  <2>2. CASE ~(InterruptTrap(h) # NoTrap)
    BY <1>1, <1>3, <2>2 DEF LoopHead, Steady, KeepsStep, KeepsMode
  <2> QED BY <2>1, <2>2
<1>4. CASE StepMade
  <2> DEFINE y == [h EXCEPT !.single_step = "NONE"]
  <2>1. /\ h.single_step = "STEPPED" /\ ~h.serialized /\ UNCHANGED <<resumed, retry>>
        /\ EndBatch(IF h.debug_mode THEN y ELSE EnterDebugMode(y, "STEP"), instret, n)
        /\ at' # "terminated"
    BY <1>4 DEF StepMade, EndBatch
  <2>2. Kept \subseteq DOMAIN y /\ y.pc = h.pc /\ y.single_step = "NONE"
    BY DEF RunParts, Kept
  <2> HIDE DEF y
  <2>3. CASE resumed.on /\ ~resumed.broke
    <3>1. ~h.debug_mode /\ h.pc = resumed.pc /\ resumed.count = 1
      BY <2>1, <2>3 DEF InTurn, InStep
    <3> DEFINE z == EnterDebugMode(y, "STEP")
    <3>2. EndBatch(z, instret, n)
      BY <2>1, <3>1
    <3>3. Keeps(y, z) /\ z.debug_mode = TRUE /\ z.single_step = "NONE" /\ z.dpc = h.pc
      BY <2>2, EnterDebugModeKeeps
    <3> HIDE DEF z
    <3>4. InTurn(z, resumed', retry')
      BY <2>1, <3>1, <3>3 DEF InTurn, InStep
    <3>5. Steady(z, h')
      BY <2>2, <3>2, <3>3, EndBatchSteady DEF Keeps, KeepsCount
    <3> QED BY <2>1, <3>4, <3>5, SteadyTurn
  <2>4. CASE ~(resumed.on /\ ~resumed.broke)
    BY <2>1, <2>4 DEF InTurn
  <2> QED BY <2>3, <2>4
<1>5. ASSUME NEW insn \in Runnable, Pass(insn)
      PROVE  IF at' = "terminated" THEN StepsOnce' ELSE InTurn(h', resumed', retry')
  BY <1>5, PassTurn
<1>6. CASE \E i \in Lines[program] : SetLine(i)
  <2>1. at' # "terminated" /\ UNCHANGED <<resumed, retry>>
    BY <1>6 DEF SetLine
  <2>2. Steady(h, h')
    BY <1>6 DEF SetLine, Steady, KeepsStep, KeepsMode, Kept, RunParts
  <2> QED BY <1>1, <2>1, <2>2
<1>7. CASE \E kind \in HaltKinds[program] : RequestHalt(kind)
  BY <1>1, <1>7 DEF RequestHalt, Steady, KeepsStep, KeepsMode
<1>8. CASE SwitchHart
  BY <1>1, <1>8 DEF SwitchHart, YieldReservation, Steady, KeepsStep, KeepsMode, Kept, RunParts
<1> QED BY <1>2, <1>3, <1>4, <1>5, <1>6, <1>7, <1>8 DEF HartNext

LEMMA InvStep ==
  ASSUME StepIInv, [HartNext]_vars
  PROVE  StepIInv'
<1>1. CASE HartNext
  <2>1. StepParts
    BY <1>1, StepTerminated DEF StepIInv
  <2>2. IF at' = "terminated" THEN StepsOnce' ELSE InTurn(h', resumed', retry')
    BY <1>1, <2>1, StepTurn
  <2>3. at' # "terminated" => RunParts'
    BY <1>1, <2>1, StepRuns DEF StepParts
  <2>4. InTurn(h', resumed', retry') => InTurn(h, resumed, retry)' /\ StepsOnce'
    <3>1. InTurn(h', resumed', retry') => InTurn(h, resumed, retry)'
      BY DEF InTurn, InStep, NotResumed, NoInsn
    <3>2. InTurn(h, resumed, retry)' => StepsOnce'
      BY TurnOnce, PTL
    <3> QED BY <3>1, <3>2
  <2> QED BY <2>2, <2>3, <2>4 DEF StepIInv, StepParts
<1>2. CASE UNCHANGED vars
  <2>1. UNCHANGED <<h, at, program, retry, resumed>>
    BY <1>2 DEF vars
  <2>2. RunParts => RunParts'
    BY <2>1 DEF RunParts
  <2>3. InTurn(h, resumed, retry) => InTurn(h, resumed, retry)'
    BY <2>1 DEF InTurn, InStep, NotResumed, NoInsn
  <2>4. StepsOnce => StepsOnce'
    BY <2>1 DEF StepsOnce
  <2> QED BY <2>1, <2>2, <2>3, <2>4 DEF StepIInv, StepParts
<1> QED BY <1>1, <1>2

(* The strengthening of StepsOnce is kept by every step of a hart: through *)
(* the two passes of a CSR instruction, the traps and interrupts that cut a*)
(* batch short between them, and the debug ROM that runs when it is made.  *)
THEOREM StepInductive == HartSpec => []StepIInv
<1>1. ASSUME NEW x, NEW code \in DOMAIN Code, Ready(x), HartInit(x, code)
      PROVE  StepIInv
  BY <1>1 DEF HartInit, Ready, StepIInv, StepParts, RunParts, InTurn, NotResumed, StepsOnce
<1>2. (\E x : \E code \in DOMAIN Code : Ready(x) /\ HartInit(x, code)) => StepIInv
  BY <1>1
<1>3. StepIInv /\ [HartNext]_vars => StepIInv'
  BY InvStep
<1> QED BY <1>2, <1>3, PTL DEF HartSpec

(* A DRET with dcsr.step set lets no more than one instruction of the      *)
(* program run before debug mode, and dpc is then where the program goes   *)
(* on: after the instruction, or at the handler of the trap or interrupt   *)
(* that took its place, however many passes and batches it was spread over.*)
(* For any program, any interrupts, triggers, halts and debug ROM, any     *)
(* number of steps and any memory.  Set aside (resumed.broke): a step cut  *)
(* short by a trigger or by an EBREAK that enters debug mode, a debugger   *)
(* that writes dpc, and a DRET that finds the serialized flag set.         *)
THEOREM SteppedOnce == HartSpec => []StepsOnce
<1>1. StepIInv => StepsOnce
  BY DEF StepIInv
<1> QED BY <1>1, StepInductive, PTL
=============================================================================
