---------------------------- MODULE DebugModule ----------------------------
(* The debug module of the instruction set simulator (riscv/debug_module.cc): *)
(* the registers a debugger reaches over the debug module interface, the   *)
(* abstract commands it compiles for a hart, the system bus, and the words *)
(* the harts' debug ROM reads and writes.  A state s is a record of the    *)
(* module's fields, of s.core (the processors it points to) and of         *)
(* s.memory, a function from the addresses of 32-bit words.                *)
(*                                                                         *)
(* A 32-bit word is a number below WordSize, 64-bit values are pairs       *)
(* <<low word, high word>>, an address counts words, and an instruction is *)
(* a tuple of its name and operands.  The last part is a hart in the debug *)
(* ROM, which runs what the module has compiled.                           *)
EXTENDS Integers, Sequences

CONSTANT WordSize
ASSUME WordAssumption == WordSize = 8

Words == 0..(WordSize - 1)
Zero == <<0, 0>>
HasBit(x, b) == (x \div b) % 2 = 1
BitsOff(x, m) ==
  LET Bit(b) == IF HasBit(x, b) /\ ~HasBit(m, b) THEN b ELSE 0 IN Bit(1) + Bit(2) + Bit(4)
SignExtended(w) == <<w, IF w >= WordSize \div 2 THEN WordSize - 1 ELSE 0>>

(* The number of bits that numbers up to n - 1 need.                       *)
field_width(n) == CHOOSE i \in 0..n : 2^i >= n /\ (i = 0 \/ 2^(i - 1) < n)

CMDERR_NONE == 0
CMDERR_BUSY == 1
CMDERR_NOTSUP == 2
CMDERR_EXCEPTION == 3
CMDERR_HALTRESUME == 4

Harts(s) == 0..(s.nprocs - 1)
(* hart_state and the flags also have entries for harts that can be        *)
(* selected but do not exist.                                              *)
HartIds(n) == 0..(2^field_width(n) - 1)

----------------------------------------------------------------------------
(* reset() when the debugger activates the module: the requests to the     *)
(* harts go, but not hart_state, the flags or the compiled command.        *)
reset(s, challenge) ==
  [s EXCEPT !.core = [i \in DOMAIN @ |-> [@[i] EXCEPT !.halt_request = "NONE"]],
            !.haltreq = FALSE, !.resumereq = FALSE, !.hasel = FALSE, !.hartsel = 0,
            !.hartreset = FALSE, !.ndmreset = FALSE, !.dmactive = FALSE,
            !.authenticated = ~s.config.require_authentication,
            !.busy = FALSE, !.cmderr = CMDERR_NONE,
            !.autoexecdata = {}, !.autoexecprogbuf = {},
            !.sbcs = [readonaddr |-> FALSE, sbaccess |-> 0, autoincrement |-> FALSE,
                      readondata |-> FALSE, error |-> 0],
            !.challenge = challenge]

(* The program buffer ends with an ebreak of its own when impebreak is     *)
(* supported; the fields the constructor leaves alone hold anything.       *)
Constructed(config, nprocs, core, memory, command, challenge) ==
  [config |-> config, nprocs |-> nprocs, core |-> core, memory |-> memory,
   program_buffer |-> [i \in 1..(config.progbufsize + (IF config.support_impebreak THEN 1 ELSE 0)) |->
                         IF i > config.progbufsize THEN <<"ebreak">> ELSE <<"illegal">>],
   debug_abstract |-> <<>>, dmdata |-> Zero,
   flags |-> [i \in HartIds(nprocs) |-> {}],
   hart_state |-> [i \in HartIds(nprocs) |->
                     [halted |-> FALSE, resumeack |-> FALSE, havereset |-> FALSE, haltgroup |-> 0]],
   hart_array_mask |-> {}, hawindowsel |-> 0,
   dmactive |-> FALSE, haltreq |-> FALSE, resumereq |-> FALSE, hasel |-> FALSE,
   hartsel |-> 0, hartreset |-> FALSE, ndmreset |-> FALSE, authenticated |-> FALSE,
   busy |-> FALSE, cmderr |-> 0, autoexecdata |-> {}, autoexecprogbuf |-> {},
   command |-> command, custom_base |-> 0, abstract_command_completed |-> FALSE,
   rti_remaining |-> 0, sbcs |-> <<>>, sbaddress |-> <<0, 0, 0, 0>>,
   sbdata |-> <<0, 0, 0, 0>>, challenge |-> challenge, terminated |-> FALSE]
debug_module_t(config, nprocs, core, memory, command, challenge) ==
  reset(Constructed(config, nprocs, core, memory, command, challenge), challenge)

hart_selected(s, i) == i = s.hartsel \/ (s.hasel /\ i \in s.hart_array_mask)

(* processor_t::reset tells the module through proc_reset.                 *)
ResetCore(c) == [c EXCEPT !.pc = "user", !.upc = Zero, !.mstatus = Zero, !.dpc = Zero,
                          !.dscratch0 = Zero, !.dscratch1 = Zero, !.csr = Zero,
                          !.s0 = Zero, !.s1 = Zero, !.f0 = Zero]
proc_reset(s, harts) ==
  [s EXCEPT !.core = [i \in DOMAIN @ |-> IF i \in harts THEN ResetCore(@[i]) ELSE @[i]],
            !.hart_state = [i \in DOMAIN @ |->
               IF i \in harts
               THEN [@[i] EXCEPT !.havereset = TRUE, !.halted = FALSE, !.haltgroup = 0] ELSE @[i]]]

----------------------------------------------------------------------------
(* The system bus: aligned accesses of one word and of two words (sbaccess *)
(* 2 and 3); a narrower access is of a part of a word.                     *)
SbWords(s) == IF s.sbcs.sbaccess = 3 THEN 2 ELSE 1
SbSupported(s) == s.sbcs.sbaccess \in {2, 3} /\ s.config.max_bus_master_bits >= 8 * 2^s.sbcs.sbaccess
SbAddress(s) == s.sbaddress[2] * WordSize + s.sbaddress[1]
SbMapped(s) == \A k \in 0..(SbWords(s) - 1) : SbAddress(s) + k \in DOMAIN s.memory

(* Both operands of the first sum are 32 bits wide, so it wraps: the carry *)
(* that is then taken from a 64-bit copy of it is always 0, and adding it  *)
(* to the other words of the address leaves them as they are.              *)
sb_autoincrement(s) ==
  IF ~s.sbcs.autoincrement \/ s.config.max_bus_master_bits = 0 THEN s
  ELSE [s EXCEPT !.sbaddress[1] = (@ + SbWords(s)) % WordSize]
sb_read(s) ==
  IF ~SbSupported(s) THEN [s EXCEPT !.sbcs.error = 3]
  ELSE IF ~SbMapped(s) THEN [s EXCEPT !.sbcs.error = 2]
  ELSE [s EXCEPT !.sbdata = [k \in 1..4 |-> IF k <= SbWords(s) THEN s.memory[SbAddress(s) + k - 1] ELSE @[k]]]
(* A store that faults throws through the debugger's connection and ends   *)
(* the simulator.                                                          *)
sb_write(s) ==
  IF ~SbSupported(s) THEN [s EXCEPT !.sbcs.error = 3]
  ELSE IF ~SbMapped(s) THEN [s EXCEPT !.terminated = TRUE]
  ELSE [s EXCEPT !.memory = [a \in DOMAIN @ |->
          IF a - SbAddress(s) \in 0..(SbWords(s) - 1) THEN s.sbdata[a - SbAddress(s) + 1] ELSE @[a]]]

----------------------------------------------------------------------------
(* Abstract commands.                                                      *)
Csrs == {"csr", "mstatus", "fflags", "nocsr"}      \* regno below 0x1000
GeneralRegs == {"x0", "s0", "s1"}                  \* 0x1000 to 0x101f
FloatRegs == {"f0"}                                \* 0x1020 to 0x103f
OddCustom == {"custom1", "custom3"}                \* 0xc000 and above, odd
CustomNumber(regno) == IF regno = "custom1" THEN 1 ELSE 3
is_fpu_reg(regno) == regno \in FloatRegs \union {"fflags"}

(* The scratch registers the code borrows for a floating-point register.   *)
SaveFs == << <<"csrw", "s0", "dscratch0">>, <<"csrr", "s0", "mstatus">>, <<"csrw", "s0", "dscratch1">>,
             <<"lui_fs", "s0">>, <<"csrrs", "s0", "mstatus">> >>
RestoreFs == << <<"csrr", "s0", "dscratch1">>, <<"csrw", "s0", "mstatus">>, <<"csrr", "s0", "dscratch0">> >>
LoadData(r, size) == << <<IF size = 2 THEN "lw" ELSE "ld", r>> >>
StoreData(r, size) == << <<IF size = 2 THEN "sw" ELSE "sd", r>> >>
CsrTransfer(c) ==
  LET save == IF is_fpu_reg(c.regno) THEN <<>> ELSE << <<"csrw", "s0", "dscratch0">> >>
      restore == IF is_fpu_reg(c.regno) THEN <<>> ELSE << <<"csrr", "s0", "dscratch0">> >>
  IN save
     \o (IF c.write THEN LoadData("s0", c.size) \o << <<"csrw", "s0", c.regno>> >>
                    ELSE << <<"csrr", "s0", c.regno>> >> \o StoreData("s0", c.size))
     \o restore
RegisterTransfer(c) == IF c.write THEN LoadData(c.regno, c.size) ELSE StoreData(c.regno, c.size)
(* Mutant: the borrowed registers are not put back.                        *)
Transfer_NoRestore(c) ==
  (IF is_fpu_reg(c.regno) THEN SaveFs ELSE <<>>)
    \o (IF c.regno \in Csrs THEN CsrTransfer(c) ELSE RegisterTransfer(c))
Transfer(c) ==
  (IF is_fpu_reg(c.regno) THEN SaveFs ELSE <<>>)
    \o (IF c.regno \in Csrs THEN CsrTransfer(c) ELSE RegisterTransfer(c))
    \o (IF is_fpu_reg(c.regno) THEN RestoreFs ELSE <<>>)
TransferSupported(s, c) ==
  /\ c.size \in {2, 3}
  /\ c.regno \in GeneralRegs \union FloatRegs
       \union (IF s.config.support_abstract_csr_access THEN Csrs ELSE {})

(* Writing V to custom register N makes later reads of N return V.         *)
CustomTransfer(s, c) ==
  IF c.write THEN [s EXCEPT !.custom_base = (s.dmdata[1] - CustomNumber(c.regno)) % WordSize]
  ELSE [s EXCEPT !.dmdata = <<(CustomNumber(c.regno) + s.custom_base) % WordSize, 0>>]

Issue(s, code) ==
  [s EXCEPT !.debug_abstract = code \o (IF s.command.postexec THEN << <<"jal_progbuf">> >> ELSE << <<"ebreak">> >>),
            !.flags[s.hartsel] = @ \union {"GO"},
            !.rti_remaining = s.config.abstract_rti,
            !.abstract_command_completed = FALSE,
            !.busy = TRUE]
perform_abstract_command(s) ==
  LET c == s.command IN
  CASE s.cmderr # CMDERR_NONE -> s
    [] s.cmderr = CMDERR_NONE /\ s.busy -> [s EXCEPT !.cmderr = CMDERR_BUSY]
    [] OTHER ->
         IF c.type # 0 THEN [s EXCEPT !.cmderr = CMDERR_NOTSUP]
         ELSE IF ~s.hart_state[s.hartsel].halted THEN [s EXCEPT !.cmderr = CMDERR_HALTRESUME]
         ELSE IF ~c.transfer THEN Issue(s, <<>>)
         ELSE IF c.regno \in OddCustom THEN CustomTransfer(s, c)
         ELSE IF ~TransferSupported(s, c) THEN [s EXCEPT !.cmderr = CMDERR_NOTSUP]
         ELSE Issue(s, Transfer(c))

(* Each cycle the debug transport spends in Run-Test/Idle.                 *)
run_test_idle(s) ==
  LET left == IF s.rti_remaining > 0 THEN s.rti_remaining - 1 ELSE 0 IN
  [s EXCEPT !.rti_remaining = left,
            !.busy = @ /\ ~(left = 0 /\ s.abstract_command_completed)]

----------------------------------------------------------------------------
(* The debug module interface.  An address is a tuple of a register's name *)
(* and, for the arrays, an index; dmi_read is a record of the new state,   *)
(* the value read and whether the access succeeded.                        *)
Data(i) == <<"data", i>>
Progbuf(i) == <<"progbuf", i>>
Reg(name) == <<name>>
AllOnes == WordSize - 1

AutoExec(s, auto) == IF ~s.busy /\ auto THEN perform_abstract_command(s) ELSE s
BusyError(s) == IF s.busy /\ s.cmderr = CMDERR_NONE THEN [s EXCEPT !.cmderr = CMDERR_BUSY] ELSE s

Selected(s) == {i \in Harts(s) : hart_selected(s, i)}
dmstatus(s) ==
  LET sel == Selected(s) IN
  [allhavereset |-> s.hart_state[s.hartsel].havereset,
   allnonexistent |-> sel = {}, anynonexistent |-> s.hartsel >= s.nprocs,
   allrunning |-> \A i \in sel : ~s.hart_state[i].halted,
   allhalted |-> \A i \in sel : s.hart_state[i].halted,
   anyrunning |-> \E i \in sel : ~s.hart_state[i].halted,
   anyhalted |-> \E i \in sel : s.hart_state[i].halted,
   allresumeack |-> \A i \in sel : s.hart_state[i].resumeack,
   anyresumeack |-> \E i \in sel : s.hart_state[i].resumeack,
   authenticated |-> s.authenticated]
dmcontrol(s) ==
  [haltreq |-> s.haltreq, resumereq |-> s.resumereq, hasel |-> s.hasel, hartsel |-> s.hartsel,
   hartreset |-> s.hartreset, ndmreset |-> s.ndmreset, dmactive |-> s.dmactive,
   ackhavereset |-> FALSE]
ReadData(s, i) ==
  [s |-> AutoExec(BusyError(s), i \in s.autoexecdata),
   value |-> IF s.busy THEN AllOnes ELSE s.dmdata[i + 1], ok |-> TRUE]
ReadProgbuf(s, i) ==
  [s |-> AutoExec(s, i \in s.autoexecprogbuf),
   value |-> IF s.busy THEN AllOnes ELSE s.program_buffer[i + 1], ok |-> TRUE]
ReadSbdata0(s) ==
  LET r == IF s.sbcs.readondata THEN sb_read(s) ELSE s IN
  [s |-> IF s.sbcs.error # 0 THEN s ELSE IF r.sbcs.error = 0 THEN sb_autoincrement(r) ELSE r,
   value |-> s.sbdata[1], ok |-> TRUE]
RegisterValue(s, name) ==
  CASE name = "dmcontrol" -> dmcontrol(s)
    [] name = "dmstatus" -> dmstatus(s)
    [] name = "abstractcs" -> [cmderr |-> s.cmderr, busy |-> s.busy, datacount |-> 2,
                               progbufsize |-> s.config.progbufsize]
    [] name = "abstractauto" -> [data |-> s.autoexecdata, progbuf |-> s.autoexecprogbuf]
    [] name = "command" -> 0
    [] name = "hartinfo" -> [nscratch |-> 1, dataaccess |-> TRUE, datasize |-> 2]
    [] name = "hawindowsel" -> s.hawindowsel
    [] name = "hawindow" -> IF s.hawindowsel = 0 THEN s.hart_array_mask ELSE {}
    [] name = "sbcs" -> s.sbcs
    [] name = "authdata" -> s.challenge
    [] name = "dmcs2" -> s.hart_state[s.hartsel].haltgroup
    [] name = "sbaddress0" -> s.sbaddress[1]
    [] name = "sbdata1" -> s.sbdata[2]
RegisterNames ==
  {"dmcontrol", "dmstatus", "abstractcs", "abstractauto", "command", "hartinfo", "hawindowsel",
   "hawindow", "sbcs", "authdata", "dmcs2", "sbaddress0", "sbdata1"}
dmi_read(s, a) ==
  CASE a[1] = "data" -> ReadData(s, a[2])
    [] a[1] = "progbuf" -> ReadProgbuf(s, a[2])
    [] a[1] = "sbdata0" -> ReadSbdata0(s)
    [] a[1] \in RegisterNames -> [s |-> s, value |-> RegisterValue(s, a[1]), ok |-> TRUE]
    [] OTHER -> [s |-> s, value |-> 0, ok |-> FALSE]

WriteData(s, i, v) ==
  AutoExec(BusyError(IF s.busy THEN s ELSE [s EXCEPT !.dmdata[i + 1] = v]), i \in s.autoexecdata)
WriteProgbuf(s, i, v) ==
  AutoExec(IF s.busy THEN s ELSE [s EXCEPT !.program_buffer[i + 1] = v], i \in s.autoexecprogbuf)

(* What a write of dmcontrol asks of each selected hart, and the resets.   *)
AskHarts(s, v) ==
  LET sel == Selected(s)
      asked == [s EXCEPT
        !.hart_state = [i \in DOMAIN s.hart_state |->
           IF i \in sel
           THEN [s.hart_state[i] EXCEPT !.havereset = @ /\ ~v.ackhavereset, !.resumeack = @ /\ ~v.resumereq]
           ELSE s.hart_state[i]],
        !.core = [i \in DOMAIN @ |->
           IF i \in sel THEN [@[i] EXCEPT !.halt_request = IF v.haltreq THEN "REGULAR" ELSE "NONE"] ELSE @[i]],
        !.flags = [i \in DOMAIN @ |-> IF i \in sel /\ v.resumereq THEN @[i] \union {"RESUME"} ELSE @[i]]]
  IN IF v.hartreset THEN proc_reset(asked, sel) ELSE asked
NdmReset(s, v) == IF v.ndmreset THEN proc_reset(s, Harts(s)) ELSE s
WriteDmcontrol(s, v, challenge) ==
  LET active == [(IF ~s.dmactive /\ v.dmactive THEN reset(s, challenge) ELSE s) EXCEPT !.dmactive = v.dmactive]
      taken == [active EXCEPT
                  !.haltreq = v.haltreq, !.resumereq = v.resumereq,
                  !.hartreset = v.hartreset, !.ndmreset = v.ndmreset,
                  !.hasel = s.config.support_hasel /\ v.hasel,
                  !.hartsel = v.hartsel % 2^field_width(s.nprocs)]
  IN IF ~active.authenticated \/ ~v.dmactive THEN active ELSE NdmReset(AskHarts(taken, v), v)

WriteSbaddress0(s, v) ==
  LET a == [s EXCEPT !.sbaddress[1] = v]
  IN IF s.sbcs.error = 0 /\ s.sbcs.readonaddr THEN sb_autoincrement(sb_read(a)) ELSE a
WriteSbdata0(s, v) ==
  LET w == sb_write([s EXCEPT !.sbdata[1] = v]) IN
  IF s.sbcs.error # 0 THEN [s EXCEPT !.sbdata[1] = v]
  ELSE IF w.sbcs.error = 0 THEN sb_autoincrement(w) ELSE w
WriteSbcs(s, v) ==
  [s EXCEPT !.sbcs = [v EXCEPT !.error = BitsOff(s.sbcs.error, v.error)]]
WriteAuthdata(s, v, challenge) ==
  IF ~s.config.require_authentication THEN s
  ELSE IF v = (s.challenge + 1) % WordSize THEN [s EXCEPT !.authenticated = TRUE]
  ELSE [s EXCEPT !.authenticated = FALSE, !.challenge = challenge]
WriteHawindow(s, v) ==
  IF s.hawindowsel = 0 THEN [s EXCEPT !.hart_array_mask = v \intersect Harts(s)] ELSE s
WriteHaltgroup(s, v) ==
  IF s.config.support_haltgroups THEN [s EXCEPT !.hart_state[s.hartsel].haltgroup = v] ELSE s

WritableNames ==
  {"data", "progbuf", "dmcontrol", "command", "hawindowsel", "hawindow", "abstractcs",
   "abstractauto", "sbcs", "sbaddress0", "sbaddress1", "sbdata0", "sbdata1", "authdata", "dmcs2"}
WriteRegister(s, a, v, challenge) ==
  CASE a[1] = "data" -> WriteData(s, a[2], v)
    [] a[1] = "progbuf" -> WriteProgbuf(s, a[2], v)
    [] a[1] = "dmcontrol" -> WriteDmcontrol(s, v, challenge)
    [] a[1] = "command" -> perform_abstract_command([s EXCEPT !.command = v])
    [] a[1] = "hawindowsel" -> [s EXCEPT !.hawindowsel = v % 2^field_width(s.nprocs)]
    [] a[1] = "hawindow" -> WriteHawindow(s, v)
    [] a[1] = "abstractcs" -> [s EXCEPT !.cmderr = BitsOff(@, v)]
    [] a[1] = "abstractauto" -> [s EXCEPT !.autoexecdata = v.data, !.autoexecprogbuf = v.progbuf]
    [] a[1] = "sbcs" -> WriteSbcs(s, v)
    [] a[1] = "sbaddress0" -> WriteSbaddress0(s, v)
    [] a[1] = "sbaddress1" -> [s EXCEPT !.sbaddress[2] = v]
    [] a[1] = "sbdata0" -> WriteSbdata0(s, v)
    [] a[1] = "sbdata1" -> [s EXCEPT !.sbdata[2] = v]
    [] a[1] = "authdata" -> WriteAuthdata(s, v, challenge)
    [] a[1] = "dmcs2" -> WriteHaltgroup(s, v)
dmi_write(s, a, v, challenge) ==
  IF (~s.authenticated /\ a[1] \notin {"authdata", "dmcontrol"}) \/ a[1] \notin WritableNames
  THEN [s |-> s, ok |-> FALSE]
  ELSE [s |-> WriteRegister(s, a, v, challenge), ok |-> TRUE]

----------------------------------------------------------------------------
(* What the harts' debug ROM tells the module by its stores.               *)
HaltGroup(s, id) ==
  [s EXCEPT !.core = [i \in DOMAIN @ |->
     IF /\ s.hart_state[id].haltgroup # 0 /\ ~s.hart_state[i].halted
        /\ s.hart_state[i].haltgroup = s.hart_state[id].haltgroup
     THEN [@[i] EXCEPT !.halt_request = "GROUP"] ELSE @[i]]]
(* Mutant: any halted hart completes the command.                          *)
StoreHalted_AnyHart(s, id) ==
  LET halted == [s EXCEPT !.hart_state[id].halted = TRUE]
      told == IF s.hart_state[id].halted THEN s ELSE HaltGroup(halted, id)
  IN [told EXCEPT !.abstract_command_completed = @ \/ "GO" \notin s.flags[id]]
StoreHalted(s, id) ==
  LET halted == [s EXCEPT !.hart_state[id].halted = TRUE]
      told == IF s.hart_state[id].halted THEN s ELSE HaltGroup(halted, id)
  IN [told EXCEPT !.abstract_command_completed =
                     @ \/ (s.hartsel = id /\ "GO" \notin s.flags[id])]
(* Mutant: the flag stays set.                                             *)
StoreGoing_Kept(s, id) == s
StoreGoing(s, id) == [s EXCEPT !.flags[id] = @ \ {"GO"}]
StoreResuming(s, id) ==
  [s EXCEPT !.hart_state[id].halted = FALSE, !.hart_state[id].resumeack = TRUE,
            !.flags[id] = @ \ {"RESUME"}]
StoreException(s) == IF s.cmderr = CMDERR_NONE THEN [s EXCEPT !.cmderr = CMDERR_EXCEPTION] ELSE s

----------------------------------------------------------------------------
(* A hart that has entered debug mode: the debug ROM's loop                *)
(* (debug_rom/debug_rom.S), the compiled command and the program buffer it *)
(* is sent to.  One step of a hart is one access of what it shares with    *)
(* the debug module, or one instruction of the compiled command or of the  *)
(* program buffer.                                                         *)

ResetRegs(n) == [pc |-> "user", at |-> 0, upc |-> Zero, dpc |-> Zero, s0 |-> <<n + 1, n>>, s1 |-> <<n, n + 1>>,
                 f0 |-> <<1, n>>, dscratch0 |-> Zero, dscratch1 |-> Zero, mstatus |-> Zero, fflags |-> Zero,
                 csr |-> <<n, 0>>, halt_request |-> "NONE"]

GetReg(c, r) == IF r = "x0" THEN Zero ELSE c[r]
SetReg(c, r, v) == IF r = "x0" THEN c ELSE [c EXCEPT ![r] = v]
AddressOf(v) == v[2] * WordSize + v[1]
Add(v, n) == <<(v[1] + n) % WordSize, (v[2] + (v[1] + n) \div WordSize) % WordSize>>
FsOff(c) == c.mstatus = Zero
Accessible(c, csr) == csr # "nocsr" /\ (csr = "fflags" => ~FsOff(c))
BitsOn(x, m) == BitsOff(x, m) + m
CsrUpdate(type, old, v) ==
  CASE type = "WRITE" -> v
    [] type = "SET" -> [k \in 1..2 |-> BitsOn(old[k], v[k])]
    [] type = "CLEAR" -> [k \in 1..2 |-> BitsOff(old[k], v[k])]

----------------------------------------------------------------------------
(* One instruction of hart i: next is where it continues when it does not  *)
(* trap.  A trap in debug mode goes to the ROM's exception entry.          *)
To(s, i, c, next) == [s EXCEPT !.core[i] = [c EXCEPT !.pc = next.pc, !.at = next.at]]
At(pc, at) == [pc |-> pc, at |-> at]
Traps(s, i) == [s EXCEPT !.core[i].pc = "exception", !.core[i].at = 0]
Program(s, c) == IF c.pc = "abstract" THEN s.debug_abstract ELSE s.program_buffer
Insn(s, c) == IF c.at <= Len(Program(s, c)) THEN Program(s, c)[c.at] ELSE <<"illegal">>

Load(s, i, c, insn, next) ==
  LET a == AddressOf(GetReg(c, insn[3])) IN
  IF {a, a + 1} \subseteq DOMAIN s.memory
  THEN To(s, i, SetReg(c, insn[2], <<s.memory[a], s.memory[a + 1]>>), next)
  ELSE Traps(s, i)
Store(s, i, c, insn, next) ==
  LET a == AddressOf(GetReg(c, insn[3])) v == GetReg(c, insn[2]) IN
  IF {a, a + 1} \subseteq DOMAIN s.memory
  THEN To([s EXCEPT !.memory[a] = v[1], !.memory[a + 1] = v[2]], i, c, next)
  ELSE Traps(s, i)
CsrAccess(s, i, c, insn, next) ==
  LET csr == insn[3] old == c[csr] IN
  IF ~Accessible(c, csr) THEN Traps(s, i)
  ELSE CASE insn[1] = "csrr" -> To(s, i, SetReg(c, insn[2], old), next)
         [] insn[1] = "csrw" -> To(s, i, [c EXCEPT ![csr] = GetReg(c, insn[2])], next)
         [] insn[1] = "csrrs" -> To(s, i, [c EXCEPT ![csr] = CsrUpdate("SET", old, GetReg(c, insn[2]))], next)
         [] insn[1] = "csrrx" -> To(s, i, SetReg([c EXCEPT ![csr] = CsrUpdate(insn[4], old, GetReg(c, insn[2]))],
                                                 insn[2], old), next)
(* The data words of the module, at a fixed address.                       *)
DataLoad(s, i, c, insn, next) ==
  IF insn[2] = "f0" /\ FsOff(c) THEN Traps(s, i)
  ELSE To(s, i, SetReg(c, insn[2], IF insn[1] = "lw" THEN SignExtended(s.dmdata[1]) ELSE s.dmdata), next)
DataStore(s, i, c, insn, next) ==
  LET v == GetReg(c, insn[2]) IN
  IF insn[2] = "f0" /\ FsOff(c) THEN Traps(s, i)
  ELSE To([s EXCEPT !.dmdata = IF insn[1] = "sw" THEN <<v[1], @[2]>> ELSE v], i, c, next)

Execute(s, i) ==
  LET c == s.core[i] insn == Insn(s, c) next == At(c.pc, c.at + 1) IN
  CASE insn[1] = "ebreak" -> To(s, i, c, At("entry", 0))
    [] insn[1] = "jal_progbuf" -> To(s, i, c, At("progbuf", 1))
    [] insn[1] \in {"lw", "ld"} -> DataLoad(s, i, c, insn, next)
    [] insn[1] \in {"sw", "sd"} -> DataStore(s, i, c, insn, next)
    [] insn[1] \in {"csrr", "csrw", "csrrs", "csrrx"} -> CsrAccess(s, i, c, insn, next)
    [] insn[1] = "lui_fs" -> To(s, i, SetReg(c, insn[2], <<1, 0>>), next)
    [] insn[1] = "load" -> Load(s, i, c, insn, next)
    [] insn[1] = "store" -> Store(s, i, c, insn, next)
    [] insn[1] = "addi" -> To(s, i, SetReg(c, insn[2], Add(GetReg(c, insn[2]), insn[3])), next)
    [] insn[1] = "bne" -> To(s, i, c, IF c.s0 # c.s1 THEN At(c.pc, insn[2]) ELSE next)
    [] insn[1] = "fence_i" -> To(s, i, c, next)
    [] OTHER -> Traps(s, i)

----------------------------------------------------------------------------
(* The ROM.  s0 holds the hart's number while it waits.                    *)
Entry(s, i) == To(s, i, [s.core[i] EXCEPT !.dscratch0 = s.core[i].s0], At("halted", 0))
TellHalted(s, i) == To(StoreHalted(s, i), i, [s.core[i] EXCEPT !.s0 = <<i, 0>>,
                         !.halt_request = StoreHalted(s, i).core[i].halt_request], At("go", 0))
TestGo(s, i) == To(s, i, s.core[i], At(IF "GO" \in s.flags[i] THEN "going" ELSE "resume", 0))
TestResume(s, i) == To(s, i, s.core[i], At(IF "RESUME" \in s.flags[i] THEN "resuming" ELSE "halted", 0))
Going(s, i) == To(StoreGoing(s, i), i, [s.core[i] EXCEPT !.s0 = s.core[i].dscratch0], At("abstract", 1))
(* Mutant: s0 is not put back before the second entry.                     *)
Exception_NoRestore(s, i) == To(StoreException(s), i, s.core[i], At("entry", 0))
Exception(s, i) == To(StoreException(s), i, [s.core[i] EXCEPT !.s0 = s.core[i].dscratch0], At("entry", 0))
Resuming(s, i) == To(StoreResuming(s, i), i, [s.core[i] EXCEPT !.s0 = s.core[i].dscratch0], At("dret", 0))
Dret(s, i) == To(s, i, [s.core[i] EXCEPT !.upc = s.core[i].dpc], At("user", 0))

RomStep(s, i) ==
  CASE s.core[i].pc = "entry" -> Entry(s, i)
    [] s.core[i].pc = "halted" -> TellHalted(s, i)
    [] s.core[i].pc = "go" -> TestGo(s, i)
    [] s.core[i].pc = "resume" -> TestResume(s, i)
    [] s.core[i].pc = "going" -> Going(s, i)
    [] s.core[i].pc \in {"abstract", "progbuf"} -> Execute(s, i)
    [] s.core[i].pc = "exception" -> Exception(s, i)
    [] s.core[i].pc = "resuming" -> Resuming(s, i)
    [] s.core[i].pc = "dret" -> Dret(s, i)

(* enter_debug_mode: at the step after a request, or at the program's own  *)
(* ebreak.                                                                 *)
EnterDebugMode(s, i) == To(s, i, [s.core[i] EXCEPT !.dpc = s.core[i].upc], At("entry", 0))
Requested(s, i) == s.core[i].halt_request # "NONE"

(* What the program on hart i would find in s0.                            *)
Waiting == {"halted", "go", "resume", "going", "exception", "resuming"}
ProgramS0(c) == IF c.pc \in Waiting THEN c.dscratch0 ELSE c.s0
=============================================================================
