-------------------------------- MODULE Hart --------------------------------
(***************************************************************************)
(* The fetch, decode and execute loop of a hart: processor_t::step in      *)
(* riscv/execute.cc, as the simulator (sim_t::step) calls it, with what may*)
(* happen to the hart between two calls: interrupt lines that change and   *)
(* halt requests of the debug module.                                      *)
(*                                                                         *)
(* An inner pass of the loop is an action, and so is the head of the outer *)
(* loop.  The instruction found at a pc is any of Code: memory    contents *)
(* are not kept, so an instruction cached earlier may be another one than  *)
(* the memory now holds, as on the simulator before fence.i.               *)
(***************************************************************************)
EXTENDS HartTrap

CONSTANTS Code,          \* for each program, the instructions it may contain
          Quantum,       \* instructions of a call of step
          PsInt,         \* psint: interrupts asserted at a pc, a function
          Lines,         \* the interrupts that devices may raise or drop under each
          HaltKinds,     \* the halt requests made between calls under each
          MsipAt,        \* address of the hart's msip register in the CLINT
          MaxPasses      \* bound of the model on the instructions tried

(* The instructions, and the registers that have a write of their own.     *)
Operations == {"csr", "load", "store", "amo", "lr", "sc", "mret", "sret", "dret", "ecall", "ebreak",
               "wfi", "sfence", "hfence", "fence_i", "jump", "nop", "illegal"} \union GuestOps
WritableCsrs == {"pmpaddr", "pmpcfg"} \union Plain \union MachineCsrs \union SupervisorCsrs
                  \union HypervisorCsrs \union DebugCsrs

\* bits are set and cleared in registers that are sets of them; a counter is a number
ASSUME CodeAssumption ==
  \A code \in DOMAIN Code : \A insn \in Code[code] :
    /\ insn.op \in Operations
    /\ insn.op = "csr" /\ insn.write =>
         /\ insn.form \in {"rw", "rs", "rc"} /\ insn.csr \in WritableCsrs \union {"instret", "cycle"}
         /\ insn.csr \in {"minstret", "mcycle"} => insn.form = "rw" /\ insn.val \in Int

\* the fields of a register are written together and fit their width; none takes H away
ASSUME FieldsAssumption ==
  \A code \in DOMAIN Code : \A insn \in Code[code] : insn.op = "csr" /\ insn.write =>
    /\ insn.csr \in {"mstatus", "sstatus", "vsstatus"} =>
         insn.form = "rw" /\ insn.val.MPP \in 0..3 /\ insn.val.SPP \in 0..1 /\ insn.val.MPV \in BOOLEAN
    /\ insn.csr = "hstatus" =>
         insn.form = "rw" /\ DOMAIN insn.val = DOMAIN HstatusZero /\ insn.val.SPV \in BOOLEAN
    /\ insn.csr = "dcsr" =>
         insn.form = "rw" /\ DOMAIN insn.val = DOMAIN DcsrZero /\ insn.val.prv \in 0..3
    /\ insn.csr = "misa" => IF insn.form = "rc" THEN "H" \notin insn.val
                            ELSE "H" \in insn.val \/ "H" \notin MaxIsa

VARIABLES h,         \* the hart
          program,   \* the code that runs
          at,        \* "host" between calls, "loop", "pass", or "terminated"
          n,         \* instructions left of the call
          instret,   \* instructions retired in the batch
          halt_request,
          passes,    \* instructions tried so far, to bound the model
          expect,    \* what minstret would be, were each instruction counted at once
          stale,     \* a trap was taken with `serialized' set
          frames,    \* for each mode, the context of the last trap it handles
          resumed,   \* what ran since the debugger let the hart go on
          retry      \* the CSR instruction whose first pass ended the batch

vars == <<h, program, at, n, instret, halt_request, passes, expect, stale, frames, resumed,
          retry>>

NoInsn == [op |-> "none"]
NoFrame == [state |-> "none"]
NotResumed == [on |-> FALSE, count |-> 0, pc |-> 0, broke |-> FALSE]

----------------------------------------------------------------------------
(* History: what the properties remember of the past.                      *)
SupFields == {"SIE", "SPIE", "SPP", "SUM", "MXR"}
SupView(s) == [f \in SupFields |-> s[f]]

(* The supervisor's status: put aside while a guest runs.                  *)
HostStatus(old) == IF old.v THEN old.vsstatus ELSE old.mstatus

(* The context a trap interrupts, for the mode m that handles it.          *)
FrameOf(old, m, epc) ==
  [state |-> "saved", prv |-> old.prv, v |-> old.v, pc |-> epc,
   ie |-> IF m = "M" THEN old.mstatus.MIE
          ELSE IF m = "HS" THEN HostStatus(old).SIE ELSE old.mstatus.SIE,
   sup |-> IF m = "M" THEN SupView(old.mstatus) ELSE <<>>]

TrapFrames(old, t, epc) ==
  IF HandledIn(old, t) \in {"M", "HS", "VS"}
  THEN [frames EXCEPT ![HandledIn(old, t)] = FrameOf(old, HandledIn(old, t), epc)]
  ELSE frames

(* The registers whose writing makes a saved context void, for each mode.  *)
Voids(old) ==
  [M  |-> {"mstatus", "sstatus", "vsstatus", "mepc", "misa", "dcsr"},
   HS |-> {"mstatus", "vsstatus", "hstatus", "misa"}
             \union (IF old.v THEN {} ELSE {"sstatus", "sepc"}),
   VS |-> {"mstatus", "vsstatus", "vsepc", "misa"}
             \union (IF old.v THEN {"sstatus", "sepc"} ELSE {})]

Returning(old, insn) ==
  CASE insn.op = "mret" -> "M" [] insn.op = "sret" -> IF old.v THEN "VS" ELSE "HS"
    [] OTHER -> "none"

(* After an instruction that did not trap.                                 *)
InsnFrames(old, insn, npc) ==
  [m \in DOMAIN frames |->
     IF m = Returning(old, insn)
     THEN IF frames[m] = NoFrame THEN NoFrame ELSE [frames[m] EXCEPT !.state = "returned"]
     ELSE IF insn.op = "sret" /\ m = "M" THEN NoFrame
     ELSE IF insn.op = "csr" /\ npc = "after" /\ insn.write /\ insn.csr \in Voids(old)[m]
     THEN NoFrame
     ELSE frames[m]]

(* The program's next instruction is then at pc.                           *)
Counted(k, pc) == IF resumed.on THEN [resumed EXCEPT !.count = @ + k, !.pc = pc] ELSE resumed

----------------------------------------------------------------------------
(* sim_t::step calls step(n): a halt request is honoured first.            *)
HaltCause ==
  CASE halt_request = "REGULAR" -> "DEBUGINT" [] halt_request = "GROUP" -> "GROUP"
    [] OTHER -> "HALT"

BeginStep ==
  /\ at = "host" /\ passes < MaxPasses
  /\ at' = "loop" /\ n' = Quantum /\ instret' = 0
  /\ IF ~h.debug_mode /\ (halt_request # "NONE" \/ h.dcsr.halt)
     THEN /\ h' = EnterDebugMode(h, HaltCause)
          /\ resumed' = NotResumed /\ retry' = NoInsn /\ stale' = (stale \/ h.serialized)
     ELSE UNCHANGED <<h, resumed, retry, stale>>
  /\ UNCHANGED <<program, halt_request, passes, expect, frames>>

(* The end of a batch: minstret and n are brought up to date.  k counts the*)
(* instructions retired by it, left what remains of n.                     *)
EndBatch(h1, k, left) ==
  /\ h' = [h1 EXCEPT !.minstret = @ + k]
  /\ n' = left - k
  /\ instret' = 0
  /\ at' = IF left - k > 0 THEN "loop" ELSE "host"

(* A trap is taken: the call of step ends with the batch.  A hart that was *)
(* stepping is in debug mode at once.                                      *)
Stopped(h1) ==
  IF h1.single_step = "STEPPED"
  THEN EnterDebugMode([h1 EXCEPT !.single_step = "NONE"], "STEP") ELSE h1

AfterTrap(old, t, epc, k) ==
  /\ EndBatch(Stopped(TakeTrap(old, t, epc)), k, k)
  /\ frames' = TrapFrames(old, t, epc)
  /\ stale' = (stale \/ old.serialized)
  /\ resumed' = IF old.debug_mode THEN resumed
                ELSE [Counted(IF t.int THEN 0 ELSE 1, TakeTrap(old, t, epc).pc) EXCEPT
                        !.broke = @ \/ HandledIn(old, t) = "debug"]
  /\ retry' = NoInsn

(* The head of the outer loop: take_pending_interrupt.                     *)
LoopHead ==
  /\ at = "loop"
  /\ IF InterruptTrap(h) # NoTrap
     THEN AfterTrap(h, InterruptTrap(h), h.pc, 0)
     ELSE at' = "pass" /\ UNCHANGED <<h, n, instret, frames, stale, resumed, retry>>
  /\ UNCHANGED <<program, halt_request, passes, expect>>

----------------------------------------------------------------------------
(* Mutant: stepping does not leave the fast path.                          *)
SlowPath_DebugOnly == h.debug_mode

(* One pass of the inner loop.                                             *)
SlowPath == h.single_step # "NONE" \/ h.debug_mode

(* The debugger asked for one step and it has been made.                   *)
StepMade ==
  /\ at = "pass" /\ SlowPath /\ ~h.serialized /\ h.single_step = "STEPPED"
  /\ LET h1 == [h EXCEPT !.single_step = "NONE"]
     IN EndBatch(IF h.debug_mode THEN h1 ELSE EnterDebugMode(h1, "STEP"), instret, n)
  /\ UNCHANGED <<program, halt_request, passes, expect, stale, frames, resumed, retry>>

Asserted(h1) == [h1 EXCEPT !.mip = @ \union (IF h1.pc \in DOMAIN PsInt THEN PsInt[h1.pc] ELSE {})]

(* psint, then the fetch; on the fast path the fetch, then psint.  An       *)
(* interrupt it makes deliverable is taken in place of r.                  *)
Interrupted(x, r) ==
  IF x.pc \in DOMAIN PsInt /\ InterruptTrap(x) # NoTrap THEN Raises(x, InterruptTrap(x)) ELSE r
AfterFetch(r, after) == IF IsDone(r) THEN Interrupted(after, Done(after, -1)) ELSE r
FastFetch(r) == AfterFetch(r, Asserted(r.h))
SlowFetch(before, insn) == Interrupted(before, LoadInsn(before, before.pc, insn.bits))

Fetched(h1, insn) == IF SlowPath THEN SlowFetch(Asserted(h1), insn)
                                 ELSE FastFetch(AccessIcache(h1, h1.pc, insn.bits))

(* A store to the CLINT raises or drops the software interrupt.            *)
DeviceWrites(h1, insn, pa) ==
  IF insn.op \in {"store", "amo", "hsv"} /\ pa = MsipAt
  THEN [h1 EXCEPT !.mip = IF insn.data % 2 = 1 THEN @ \union {MSI} ELSE @ \ {MSI}]
  ELSE h1

NextPc(h1, r) == IF r.npc = "next" THEN (h1.pc + 4) % 2^XBits ELSE r.h.pc
Advanced(h1, r) == [r.h EXCEPT !.pc = NextPc(h1, r)]

(* What the instruction did to the count minstret stands for.              *)
Expected(insn, r) ==
  IF insn.op = "csr" /\ r.npc = "after" /\ insn.write /\ insn.csr \in {"minstret", "mcycle"}
  THEN insn.val
  ELSE IF r.npc \in {"next", "jump", "after"} THEN expect + 1 ELSE expect

(* What the debugger lets run.  A serialized flag left by a halt between   *)
(* the two passes of a CSR instruction is set aside: the debug ROM's own   *)
(* CSR instructions use it up before their DRET.                           *)
Resumed(h0, r) ==
  IF h0.dcsr.step THEN [on |-> TRUE, count |-> 0, pc |-> r.h.pc, broke |-> h0.serialized]
  ELSE NotResumed
Redirects(insn) == insn.op = "csr" /\ insn.write /\ insn.csr = "dpc"

(* advance_pc, for an instruction that came to its end.                    *)
Advance(h0, insn, r) ==
  /\ CASE r.npc = "before" -> EndBatch([r.h EXCEPT !.serialized = TRUE], instret, n)
       [] r.npc = "after"  -> EndBatch(r.h, instret + 1, n)
       [] r.npc = "wfi"    -> EndBatch(r.h, instret, instret)
       [] OTHER -> IF instret + 1 < n
                   THEN /\ h' = Advanced(h0, r) /\ instret' = instret + 1
                        /\ UNCHANGED <<at, n>>
                   ELSE EndBatch(Advanced(h0, r), instret + 1, n)
  /\ expect' = Expected(insn, r)
  /\ frames' = InsnFrames(h0, insn, r.npc)
  /\ stale' = stale
  /\ retry' = IF r.npc = "before" THEN insn ELSE NoInsn
  /\ resumed' = IF insn.op = "dret" THEN Resumed(h0, r)
                ELSE IF r.npc = "before" THEN resumed
                ELSE IF h0.debug_mode THEN [resumed EXCEPT !.broke = @ \/ Redirects(insn)]
                ELSE Counted(1, NextPc(h0, r))

(* A trigger fired.  One that was thrown by the mmu before the access was  *)
(* complete lets the instruction run again first; a trap in that run leaves*)
(* step() altogether.                                                      *)
TriggerAction(h1, i, k, a) ==
  /\ EndBatch(IF h1.mcontrol[i].action = "debug" THEN EnterDebugMode(h1, "HWBP")
              ELSE TakeTrap(h1, InsnTrap(BREAKPOINT, a), h1.pc), k, n)
  /\ frames' = IF h1.mcontrol[i].action = "debug" THEN frames
               ELSE TrapFrames(h1, InsnTrap(BREAKPOINT, a), h1.pc)
  /\ stale' = (stale \/ h1.serialized)
  /\ resumed' = [Counted(1, h1.pc) EXCEPT !.broke = TRUE]
  /\ retry' = NoInsn

(* The instruction runs again with the trigger matched, to its end or to a *)
(* trap that leaves step().                                                *)
Triggered(h1, insn, i) ==
  LET a == IF insn.op \in {"load", "store", "amo", "lr", "sc", "hlv", "hsv"}
           THEN insn.a ELSE h1.pc
  IN IF ~h1.matched THEN TriggerAction(h1, i, instret, a) /\ expect' = expect
     ELSE \E again \in {LoadInsn(h1, h1.pc, insn.bits)} :
          \E r \in {Execute(again.h, insn, (h1.pc + 4) % 2^XBits)} :
            IF IsDone(again) /\ r.trap = NoTrap
            THEN /\ TriggerAction([DeviceWrites(Advanced(h1, r), insn, r.pa) EXCEPT
                                    !.matched = FALSE], i, instret + 1, a)
                 /\ expect' = expect + 1
            ELSE /\ at' = "terminated"
                 /\ h' = h1
                 /\ UNCHANGED <<n, instret, frames, stale, resumed, expect, retry>>

(* An instruction that is not fetched ends as its fetch did.               *)
Executed(f, insn, npc) == IF IsDone(f) THEN Execute(f.h, insn, npc) ELSE Out(f, "next")

Pass(insn) ==
  /\ at = "pass" /\ passes < MaxPasses
  /\ ~(SlowPath /\ ~h.serialized /\ h.single_step = "STEPPED")
  /\ \E h1 \in {[h EXCEPT !.single_step = IF @ = "STEPPING" THEN "STEPPED" ELSE @]} :
     \E f \in {Fetched(h1, insn)} :
     \E r \in {Executed(f, insn, (h1.pc + 4) % 2^XBits)} :
     \E wrote \in {DeviceWrites(r.h, insn, r.pa)} :
       CASE r.trig # -1 -> Triggered(r.h, insn, r.trig)
         [] r.trig = -1 /\ r.trap # NoTrap ->
              AfterTrap(wrote, r.trap, h1.pc, instret) /\ expect' = expect
         [] OTHER -> Advance(h1, insn, [r EXCEPT !.h = wrote])
  /\ passes' = passes + (IF retry' = NoInsn THEN 1 ELSE 0)
  /\ UNCHANGED <<program, halt_request>>

----------------------------------------------------------------------------
(* Between calls: the devices' interrupt lines, the debug module's halt    *)
(* requests, and the other harts, whose turn ends a reservation.           *)
SetLine(i) ==
  /\ at = "host" /\ passes < MaxPasses
  /\ h' = [h EXCEPT !.mip = IF i \in @ THEN @ \ {i} ELSE @ \union {i}]
  /\ UNCHANGED <<program, at, n, instret, halt_request, passes, expect, stale, frames, resumed,
                 retry>>

RequestHalt(kind) ==
  /\ at = "host" /\ passes < MaxPasses /\ kind # halt_request
  /\ halt_request' = kind
  /\ UNCHANGED <<h, program, at, n, instret, passes, expect, stale, frames, resumed, retry>>

SwitchHart ==
  /\ at = "host" /\ h.reservation # -1
  /\ h' = YieldReservation(h)
  /\ UNCHANGED <<program, at, n, instret, halt_request, passes, expect, stale, frames, resumed,
                 retry>>

(* What the program may contain depends on who wrote it: a debugger puts   *)
(* its own instructions into the program buffer.  A CSR instruction is     *)
(* fetched a second time when it has asked to start a batch.               *)
DebugOps == {"csr", "load", "store", "nop", "ebreak", "dret"}
Runnable ==
  IF retry # NoInsn THEN {retry}
  ELSE {i \in Code[program] : h.debug_mode => i.op \in DebugOps}

HartInit(h0, code) ==
  /\ h = h0 /\ program = code
  /\ at = "host" /\ n = 0 /\ instret = 0 /\ halt_request = "NONE" /\ passes = 0
  /\ expect = h0.minstret /\ stale = FALSE
  /\ frames = [m \in {"M", "HS", "VS"} |-> NoFrame]
  /\ resumed = NotResumed /\ retry = NoInsn

HartNext ==
  \/ BeginStep
  \/ LoopHead
  \/ StepMade
  \/ \E insn \in Runnable : Pass(insn)
  \/ \E i \in Lines[program] : SetLine(i)
  \/ \E kind \in HaltKinds[program] : RequestHalt(kind)
  \/ SwitchHart

-----------------------------------------------------------------------------
(* What must hold whatever program runs. *)

(* mmu.h keeps the TLB and the instruction cache "for simulator            *)
(* performance": whatever CSR writes, traps, returns and PMP changes came  *)
(* before, a remembered translation is the one a walk would find now, and  *)
(* a cached instruction may still be fetched.  (With MPRV set, loads and   *)
(* fetches share the entries of a page and this does not hold.)            *)
PageOffsets == {k * 2^PmpShift : k \in 0..(2^(PgShift - PmpShift) - 1)}
TagCurrent(t, i) ==
  h.tlb[t][i] # <<>> =>
    \A off \in PageOffsets :
      Translate(h, h.tlb[t][i][1] * PgSize + off, 1, t, "none")
        = Found(h.tlbData[i] * PgSize + off)
TLBCurrent ==
  at # "terminated" /\ ~h.mstatus.MPRV =>
    /\ \A t \in Access : \A i \in DOMAIN h.tlb[t] : TagCurrent(t, i)
    /\ \A i \in DOMAIN h.icache :
         h.icache[i] # -1 => Translate(h, h.icache[i], 2, "FETCH", "none").trap = NoTrap

(* A handler that does not write the registers that hold the interrupted   *)
(* context goes back to it with MRET or SRET: privilege, guest or host, pc,*)
(* the interrupt enable and, for M, the supervisor fields that set_virt    *)
(* exchanges on the way in and on the way out.                             *)
Restored(f, m) ==
  /\ h'.prv = f.prv /\ h'.v = f.v /\ h'.pc = Aligned(h, f.pc)
  /\ f.ie = IF m = "M" THEN h'.mstatus.MIE
            ELSE IF m = "HS" THEN HostStatus(h').SIE ELSE h'.mstatus.SIE
  /\ m = "M" => f.sup = SupView(h'.mstatus)
ReturnsRestore ==
  [][\A m \in DOMAIN frames :
       frames[m].state = "saved" /\ frames'[m].state = "returned" => Restored(frames[m], m)]_vars

(* While a guest runs, the supervisor registers it writes are its own: no  *)
(* register of the host or of the machine changes under it.                *)
MachineFields == {"MIE", "MPIE", "MPP", "MPRV", "TVM", "TW", "TSR", "MPV", "GVA"}
HostView(x) ==
  <<x.sepc, x.stvec, x.satp, x.scause, x.hstatus, x.hgatp, x.hideleg, x.hedeleg,
    x.vsstatus, x.mtvec, x.mepc, x.mcause, x.mideleg, x.medeleg, x.mie \ VSInts,
    x.pmpcfg, x.pmpaddr, [f \in MachineFields |-> x.mstatus[f]],
    [c \in {"stval", "sscratch", "htval", "mtval", "mscratch"} |-> x.plain[c]]>>
InGuest(x) == x.v /\ x.prv <= PRV_S
GuestConfined == [][InGuest(h) /\ InGuest(h') => HostView(h') = HostView(h)]_vars

(* A trap never lowers the privilege: what a mode handles interrupted that *)
(* mode or one below it, and never takes a host's user program into a guest*)
Rank(x) == IF x.prv = PRV_M THEN 4 ELSE IF x.prv = PRV_S THEN (IF x.v THEN 2 ELSE 3)
           ELSE IF x.v THEN 0 ELSE 1
TrapsRise ==
  [][\A m \in DOMAIN frames :
       frames'[m] # frames[m] /\ frames'[m].state = "saved"
         => Rank(h') >= Rank(h) /\ (m = "VS" => h.v) /\ (m = "HS" => ~h'.v)]_vars

(* Every change of privilege: up on a trap, back on a return, and nothing  *)
(* of the host changed in between by a guest.                              *)
PrivilegeMoves == ReturnsRestore /\ GuestConfined /\ TrapsRise

(* minstret counts every instruction that came to its end once, a write    *)
(* taking the place of the increment of the instruction that makes it, and *)
(* an access to it finds nothing still uncounted in the batch.  (A trap    *)
(* between the two passes of a CSR instruction leaves the serialized flag  *)
(* set; what a later write of minstret does then is set aside.)            *)
Counts == h.minstret + instret = expect /\ (h.serialized => instret = 0)
RetiredCounted == at # "terminated" /\ ~stale => Counts

(* dret with dcsr.step: one instruction, whatever it takes in batches and  *)
(* passes, and the debugger finds in dpc where the program goes on: after  *)
(* it, or at the handler of its trap.  (An EBREAK that itself enters debug *)
(* mode is set aside: see the README.)                                     *)
StepsOnce ==
  resumed.on /\ ~resumed.broke =>
    /\ resumed.count <= 1
    /\ h.debug_mode => h.dpc = resumed.pc

(* When an instruction is due, software may save a register and write it   *)
(* back: the hart is as before but for what the mmu remembers.  Left out:  *)
(* registers whose writing counts or has an effect of its own (minstret,   *)
(* the floating point and vector ones), htval, whose write goes to htinst, *)
(* and dcsr, whose halt bit reads as 0.                                    *)
SavedCsrs == (MachineCsrs \ {"minstret", "mcycle", "misa"}) \union SupervisorCsrs
               \union (HypervisorCsrs \ {"htval"}) \union {"tselect", "tdata1", "tdata2", "pmpcfg"}
               \union {"mscratch", "sscratch", "stval", "vstval", "mtval", "htinst"}
ButRemembered(x) ==
  [x EXCEPT !.tlb = h.tlb, !.tlbData = h.tlbData, !.icache = h.icache, !.checks = h.checks]
WritesBack(c) ==
  AccessTrap(h, c, TRUE) = "none" /\ ReadTrap(h, c) = "none"
    => ButRemembered(SetCsr(h, c, GetCsr(h, c))) = h
SavedCsrsRestore ==
  at = "pass" /\ h.mstatus.FS \in {0, 3} /\ h.mstatus.SD = (h.mstatus.FS = 3 \/ h.mstatus.VS = 3)
    => \A c \in SavedCsrs : WritesBack(c)
=============================================================================
