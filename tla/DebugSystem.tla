---------------------------- MODULE DebugSystem ----------------------------
(* Harts, the debug module and one of the debuggers that reach it:         *)
(*   "dtm"   the front end's host thread (fesvr/dtm.cc);                   *)
(*   "free"  a debugger that uses the module's registers as it likes;      *)
(*   "bus"   one that only uses the system bus;                            *)
(*   "jtag"  a client of the bit-bang server, scan by scan.                *)
(* The harts step between any two accesses: the simulator runs them, the   *)
(* transport's cycles and the server's ticks in turn.                      *)
EXTENDS Dtm, FiniteSets, TLC

CONSTANTS
    Kinds, Configs, Memory,      \* Configs: what a module is built with, by kind
    Tasks, MaxTasks,             \* operations of the front end
    Commands, Controls, Programs, Limits,   \* of the free debugger, by harts
    Streams,                     \* block transfers over the bus
    Sessions                     \* what a client of the server does

(* The hartsel field is wide enough for every hart there is.               *)
ASSUME ConfigAssumption ==
  \A k \in Kinds : \A c \in Configs[k] :
    c.nprocs \in Nat /\ 0..(c.nprocs - 1) \subseteq HartIds(c.nprocs)

(* What a block over the bus reads or writes is aligned.                   *)
ASSUME StreamsAssumption ==
  \A st \in Streams : st.address \in Nat /\ (st.sbcs.sbaccess = 3 => st.address % 2 = 0)

ASSUME TasksAssumption ==
  \A k \in Tasks : k.op \in {"read_chunk", "write_chunk", "clear_chunk", "modify_csr", "reset"}

VARIABLES
    kind, s,
    h, answer, task, tasks,      \* the front end; answer: the module's response on its way
    asked, counts,               \* the free debugger: the last command it got started
    stream, moved,               \* the bus debugger
    t, log, b, client            \* the transport, the server, the client

hostVars == <<h, answer, task, tasks>>
freeVars == <<asked, counts>>
busVars == <<stream, moved>>
jtagVars == <<t, log, b, client>>
vars == <<kind, s, hostVars, freeVars, busVars, jtagVars>>

NoTask == [op |-> "none"]
NotAsked == [hart |-> 0, command |-> [type |-> 1], data |-> Zero, core |-> ResetRegs(0)]

Init ==
  /\ kind \in Kinds
  /\ \E config \in Configs[kind] : \E challenge \in IF config.module.require_authentication THEN 0..1 ELSE {0} :
       s = debug_module_t(config.module, config.nprocs, [i \in 0..(config.nprocs - 1) |-> ResetRegs(i)],
                          Memory, [type |-> 1], challenge)
  /\ h = Host /\ answer = <<>> /\ task = NoTask /\ tasks = 0
  /\ asked = NotAsked /\ counts = [command |-> 0, control |-> 0, other |-> 0]
  /\ stream \in Streams /\ (kind # "bus" => stream = CHOOSE st \in Streams : TRUE) /\ moved = <<>>
  /\ client \in Sessions /\ (kind # "jtag" => client = CHOOSE c \in Sessions : TRUE)
  /\ \E garbage \in BOOLEAN :
       /\ t = jtag_dtm_t(0, garbage, IF garbage THEN 3 ELSE 0)
       /\ kind # "jtag" => ~garbage
  /\ log = <<>> /\ b = remote_bitbang_t

----------------------------------------------------------------------------
(* The harts and the module's idle cycles.                                 *)
InDebug(i) == s.core[i].pc # "user"
HartEnters(i) ==
  /\ ~s.terminated /\ ~InDebug(i) /\ Requested(s, i)
  /\ s' = EnterDebugMode(s, i)
  /\ UNCHANGED <<kind, hostVars, freeVars, busVars, jtagVars>>
HartSteps(i) ==
  /\ ~s.terminated /\ InDebug(i)
  /\ s' = RomStep(s, i)
  /\ UNCHANGED <<kind, hostVars, freeVars, busVars, jtagVars>>
Idle ==
  /\ kind \in {"dtm", "free"} /\ ~s.terminated /\ s.busy
  /\ s' = run_test_idle(s)
  /\ UNCHANGED <<kind, hostVars, freeVars, busVars, jtagVars>>

----------------------------------------------------------------------------
(* The front end and the module it is wired to, which answers a request    *)
(* after the tick that takes it.                                           *)
Perform(r) ==
  CASE r.op = "write" -> [s |-> dmi_write(s, r.a, r.v, 0).s, value |-> 0]
    [] r.op = "read" -> LET d == dmi_read(s, r.a) IN [s |-> d.s, value |-> d.value]
    [] OTHER -> [s |-> s, value |-> 0]
HostTakes ==
  /\ kind = "dtm" /\ ~h.resp_wait
  /\ IF h.req_wait
     THEN LET p == Perform(Request(h)) IN s' = p.s /\ answer' = <<p.value>> /\ h' = tick(h, TRUE, FALSE, 0)
     ELSE h' = tick(h, FALSE, FALSE, 0) /\ UNCHANGED <<s, answer>>
  /\ UNCHANGED <<kind, task, tasks, freeVars, busVars, jtagVars>>
HostAnswered ==
  /\ kind = "dtm" /\ answer # <<>>
  /\ h' = tick(h, FALSE, TRUE, answer[1]) /\ answer' = <<>>
  /\ UNCHANGED <<kind, s, task, tasks, freeVars, busVars, jtagVars>>

Script(k) ==
  CASE k.op = "read_chunk" -> read_chunk(h.current_hart, k.taddr, k.len)
    [] k.op = "write_chunk" -> write_chunk(h.current_hart, k.taddr, k.values)
    [] k.op = "clear_chunk" -> clear_chunk(h.current_hart, k.taddr, k.len)
    [] k.op = "modify_csr" -> modify_csr(h.current_hart, k.which, k.v, k.type)
    [] k.op = "reset" -> dtm_reset(h.num_harts)
(* The thread is between operations, with a nop on its way.                *)
HostFree == h.running /\ h.script = <<>>
HostBegins(k) ==
  /\ kind = "dtm" /\ HostFree /\ tasks < MaxTasks /\ ~h.req_wait /\ ~h.resp_wait
  /\ h' = Start(h, Script(k))
  /\ task' = k @@ [before |-> s.memory, csr |-> s.core[h.current_hart].csr]
  /\ tasks' = tasks + 1
  /\ UNCHANGED <<kind, s, answer, freeVars, busVars, jtagVars>>

----------------------------------------------------------------------------
(* The free debugger.  It follows the debug specification: while a command *)
(* runs it leaves dmcontrol and the error alone, it resumes a hart that is halted and    *)
(* then waits for the acknowledgement.                                     *)
ResumePending == \E i \in Harts(s) : "RESUME" \in s.flags[i] /\ s.hart_state[i].halted
Used == counts.command + counts.control + counts.other
Limit == Limits[IF s.config.require_authentication THEN 3 ELSE s.nprocs]
Count(what) == Used < Limit.all /\ counts[what] < Limit[what] /\ counts' = [counts EXCEPT ![what] = @ + 1]
Debugs(next_s) ==
  /\ kind = "free" /\ ~s.terminated /\ s' = next_s
  /\ asked' = IF next_s.busy /\ ~s.busy
              THEN [hart |-> s.hartsel, command |-> next_s.command, data |-> next_s.dmdata,
                    core |-> s.core[s.hartsel], program |-> s.program_buffer]
              ELSE asked
  /\ UNCHANGED <<kind, hostVars, busVars, jtagVars>>
FreeControls(v) ==
  /\ ~s.busy /\ ~ResumePending
  /\ v.resumereq => ~v.haltreq /\ \A i \in Harts(s) : i = v.hartsel => s.hart_state[i].halted
  /\ v.dmactive \/ s.dmactive
  /\ Count("control")
  /\ Debugs(dmi_write(s, Reg("dmcontrol"), v, 1).s)
FreeCommands(c) ==
  /\ ~ResumePending /\ Count("command")
  /\ Debugs(dmi_write(s, Reg("command"), c, 1).s)
FreeProgram(prog) ==
  /\ Count("other")
  /\ Debugs(dmi_write(dmi_write(s, Progbuf(0), prog[1], 1).s, Progbuf(1), prog[2], 1).s)
FreeData(v) ==
  /\ ~ResumePending /\ Count("other")
  /\ \/ Debugs(dmi_write(s, Data(0), v, 1).s)
     \/ Debugs(dmi_read(s, Data(0)).s)
FreeGroups ==
  /\ ~s.busy /\ Count("other")
  /\ \/ \E g \in 0..1 : Debugs(dmi_write(s, Reg("dmcs2"), g, 1).s)
     \/ \E m \in SUBSET Harts(s) : Debugs(dmi_write(s, Reg("hawindow"), m, 1).s)
     \/ \E v \in 0..2 : Debugs(dmi_write(s, Reg("authdata"), v, 1).s)
FreeClears ==
  /\ Count("other")
  /\ \/ s.cmderr # 0 /\ ~s.busy /\ Debugs(dmi_write(s, Reg("abstractcs"), 7, 1).s)
     \/ \E on \in {{}, {0}} :
          Debugs(dmi_write(s, Reg("abstractauto"), [data |-> on, progbuf |-> {}], 1).s)
FreeNext ==
  \/ \E v \in Controls[s.nprocs] : FreeControls(v)
  \/ \E c \in Commands[s.nprocs] : FreeCommands(c)
  \/ \E prog \in Programs[s.nprocs] : FreeProgram(prog)
  \/ FreeData(5) \/ FreeGroups \/ FreeClears

----------------------------------------------------------------------------
(* A block over the bus: stream is [sbcs, address, words, values]; a write *)
(* has values.  moved is what has been read or written.                    *)
Wide == stream.sbcs.sbaccess = 3
Elements == IF stream.values = <<>> THEN stream.len ELSE Len(stream.values)
BusSetsUp ==
  /\ kind = "bus" /\ moved = <<>> /\ s.sbcs # [stream.sbcs EXCEPT !.error = s.sbcs.error]
  /\ s' = WriteRegister(WriteRegister(WriteRegister(s, Reg("sbcs"), stream.sbcs, 0),
                                      Reg("sbaddress1"), stream.address \div WordSize, 0),
                        Reg("sbaddress0"), stream.address % WordSize, 0)
  /\ UNCHANGED <<kind, hostVars, freeVars, busVars, jtagVars>>
BusMoves ==
  /\ kind = "bus" /\ s.sbcs = [stream.sbcs EXCEPT !.error = 0] /\ ~s.terminated /\ Len(moved) < Elements
  /\ LET v == stream.values[Len(moved) + 1]
         high == IF Wide THEN dmi_write(s, Reg("sbdata1"), v[2], 0).s ELSE s
         read == dmi_read(s, Reg("sbdata0"))
     IN IF stream.values = <<>>
        THEN s' = read.s /\ moved' = Append(moved, <<read.value, s.sbdata[2]>>)
        ELSE /\ s' = dmi_write(high, Reg("sbdata0"), v[1], 0).s
             /\ moved' = IF s'.terminated \/ s'.sbcs.error # 0 THEN moved ELSE Append(moved, v)
  /\ UNCHANGED <<kind, hostVars, freeVars, stream, jtagVars>>

----------------------------------------------------------------------------
(* The client of the server: client.bytes is what it has still to send,    *)
(* client.socket what is on its way.  Each tick of the server runs until   *)
(* it has nothing to read or the transport enters Run-Test/Idle.           *)
Transport == [t |-> t, s |-> s, log |-> log]
ServerTicks ==
  /\ kind = "jtag" /\ b.pc = "tick" /\ ~(client.bytes = <<>> /\ client.socket = <<>> /\ b.recv_buf = <<>> /\ client.closed)
  /\ b' = IF b.connected THEN StartTick(b, Transport) ELSE [b EXCEPT !.connected = TRUE]
  /\ UNCHANGED <<kind, s, hostVars, freeVars, busVars, t, log, client>>
ServerCommands ==
  /\ kind = "jtag" /\ b.pc = "commands"
  /\ IF b.recv_buf = <<>> THEN b' = [b EXCEPT !.pc = "write"] /\ UNCHANGED <<s, t, log>>
     ELSE LET after == Carry(Transport, Head(b.recv_buf)) IN
            /\ b' = OneCommand(b, after, Head(b.recv_buf))
            /\ t' = after.t /\ s' = after.s /\ log' = after.log
  /\ UNCHANGED <<kind, hostVars, freeVars, busVars, client>>
ServerWrites ==
  /\ kind = "jtag" /\ b.pc = "write" /\ b' = WriteReplies(b)
  /\ UNCHANGED <<kind, s, hostVars, freeVars, busVars, t, log, client>>
ServerReads ==
  /\ kind = "jtag" /\ b.pc = "read"
  /\ LET n == IF Len(client.socket) < buf_size THEN Len(client.socket) ELSE buf_size IN
       IF n > 0
       THEN /\ b' = Received(b, SubSeq(client.socket, 1, n))
            /\ client' = [client EXCEPT !.socket = SubSeq(@, n + 1, Len(@))]
       ELSE IF client.bytes = <<>>
            THEN b' = Disconnected(b) /\ client' = [client EXCEPT !.closed = TRUE]
            ELSE b' = NothingToRead(b) /\ UNCHANGED client
  /\ UNCHANGED <<kind, s, hostVars, freeVars, busVars, t, log>>
(* The client writes the bytes of a scan at a time, or the first part of   *)
(* them.                                                                   *)
ClientSends ==
  /\ kind = "jtag" /\ client.socket = <<>> /\ client.bytes # <<>>
  /\ \E n \in client.chunks :
       client' = [client EXCEPT !.socket = SubSeq(client.bytes, 1, IF n < Len(client.bytes) THEN n ELSE Len(client.bytes)),
                                !.bytes = SubSeq(@, n + 1, Len(@))]
  /\ UNCHANGED <<kind, s, hostVars, freeVars, busVars, t, log, b>>

Next ==
  \/ \E i \in Harts(s) : HartEnters(i) \/ HartSteps(i)
  \/ Idle
  \/ HostTakes \/ HostAnswered \/ \E k \in Tasks : HostBegins(k)
  \/ kind = "free" /\ FreeNext
  \/ BusSetsUp \/ BusMoves
  \/ ServerTicks \/ ServerCommands \/ ServerWrites \/ ServerReads \/ ClientSends

(* The simulator runs every hart, the transport idles while a command      *)
(* runs, and both sides of the front end are clocked.                      *)
Fairness ==
  /\ \A i \in 0..2 : WF_vars(i \in Harts(s) /\ (HartEnters(i) \/ HartSteps(i)))
  /\ WF_vars(Idle) /\ WF_vars(HostTakes) /\ WF_vars(HostAnswered)
Spec == Init /\ [][Next]_vars /\ Fairness

----------------------------------------------------------------------------
(* While no command is running no hart is in one or about to start one,    *)
(* and a hart the module calls halted is in the debug ROM: the flags, the  *)
(* busy bit and the stores of the ROM agree whatever the order of the      *)
(* harts' steps, the debugger's accesses and the idle cycles.              *)
HartsAccounted ==
  \A i \in Harts(s) :
    /\ ~s.busy => "GO" \notin s.flags[i]
                  /\ s.core[i].pc \notin {"going", "abstract", "progbuf", "exception"}
    /\ s.hart_state[i].halted => InDebug(i)

(* The front end borrows s0, s1 and dscratch0 of the hart it uses, in      *)
(* every operation and also when an access faults: the program finds the   *)
(* registers it had, and continues where it was or where reset sent it.    *)
ProgramState(c) == <<c.s0, c.s1, c.f0, c.mstatus>>
RegistersReturned ==
  kind = "dtm" => \A i \in Harts(s) :
    ~InDebug(i) => /\ ProgramState(s.core[i]) = ProgramState(ResetRegs(i))
                   /\ s.core[i].upc \in {Zero, EntryPoint}

(* An operation of the front end or a block of the system bus moves exactly *)
(* the words it names: no other word changes, and an access outside the    *)
(* memory is reported and moves nothing.  The host thread found every hart. *)
(* A block over the bus whose addresses differ in more than sbaddress0 is  *)
(* set aside: sb_autoincrement loses the carry, so that the rest of it is  *)
(* moved at the bottom of the same 4 GiB.                                  *)
InMemory(a) == {a, a + 1} \subseteq DOMAIN s.memory
Pair(m, a) == <<m[a], m[a + 1]>>
Target(k) ==
  IF k.op \in {"read_chunk", "write_chunk", "clear_chunk"}
  THEN {k.taddr + 2 * j : j \in 0..((IF k.op = "write_chunk" THEN Len(k.values) ELSE k.len) - 1)} ELSE {}
Expected(k, a) ==
  LET base == a - ((a - k.taddr) % 2) IN
  IF k.op \in {"write_chunk", "clear_chunk"} /\ base \in Target(k) /\ InMemory(base)
  THEN IF k.op = "clear_chunk" THEN 0 ELSE k.values[(base - k.taddr) \div 2 + 1][a - base + 1]
  ELSE k.before[a]
TaskExact ==
  /\ h.num_harts = s.nprocs /\ h.xlen = 64
  /\ task.op \in {"read_chunk", "write_chunk", "clear_chunk"} =>
       /\ h.died = (\E a \in Target(task) : ~InMemory(a))
       /\ \A a \in DOMAIN s.memory : s.memory[a] = Expected(task, a)
  /\ task.op = "read_chunk" =>
       \A j \in 1..task.len : InMemory(task.taddr + 2 * (j - 1)) =>
         h.buffer[j] = Pair(s.memory, task.taddr + 2 * (j - 1))
  /\ task.op = "modify_csr" /\ task.which = "csr" => s.core[h.current_hart].csr = CsrUpdate(task.type, task.csr, task.v)
BusStep == IF Wide THEN 2 ELSE 1
BusElement(m, a) == IF Wide THEN Pair(m, a) ELSE <<m[a], 0>>
BusExact ==
  \A j \in 1..Len(moved) :
    LET a == stream.address + BusStep * (j - 1) IN
    /\ \A k \in 0..(BusStep - 1) : a + k \in DOMAIN s.memory
    /\ BusElement(s.memory, a)[1] = moved[j][1]
    /\ Wide => BusElement(s.memory, a)[2] = moved[j][2]
BusLast == stream.address + BusStep * Elements - 1
BusUntouched ==
  \A a \in DOMAIN s.memory :
    (stream.values = <<>> \/ a \notin stream.address..BusLast) => s.memory[a] = Memory[a]
LosesCarry == stream.address \div WordSize # BusLast \div WordSize
TransfersExact ==
  /\ kind = "dtm" /\ HostFree => TaskExact
  /\ kind = "bus" /\ ~LosesCarry => BusExact /\ BusUntouched

(* An abstract command that ends without an error did what it says on the  *)
(* hart it was started for: the register it writes has the data, the data  *)
(* has the register it reads, and the registers it borrows on the way are  *)
(* as they were.                                                           *)
Registers(c) == [s0 |-> ProgramS0(c), s1 |-> c.s1, f0 |-> c.f0, csr |-> c.csr, mstatus |-> c.mstatus,
                 fflags |-> c.fflags, x0 |-> Zero]
Sized(c, v) == IF c.size = 2 THEN SignExtended(v[1]) ELSE v
Written(a, regs) ==
  IF a.command.transfer /\ a.command.write /\ a.command.regno # "x0"
  THEN [regs EXCEPT ![a.command.regno] = Sized(a.command, a.data)] ELSE regs
Executed(a, regs) ==
  IF a.command.postexec /\ a.program[1] = <<"addi", "s1", 2>>
  THEN [regs EXCEPT !.s1 = Add(@, 2)] ELSE regs
ReadBack(a, regs, old) ==
  IF ~a.command.transfer \/ a.command.write THEN old
  ELSE IF a.command.size = 2 THEN <<regs[a.command.regno][1], old[2]>> ELSE regs[a.command.regno]
CommandExact(a, after) ==
  LET before == Registers(a.core) IN
  /\ Registers(after.core[a.hart]) = Executed(a, Written(a, before))
  /\ after.dmdata = ReadBack(a, before, a.data)
CommandsExact ==
  [][kind = "free" /\ s.busy /\ ~s'.busy /\ s'.cmderr = CMDERR_NONE => CommandExact(asked, s')]_vars

(* Every operation of the front end ends, and every command a debugger     *)
(* starts: no poll waits for an acknowledgement that was missed.           *)
OperationsEnd ==
  /\ (kind = "dtm") ~> HostFree
  /\ s.busy ~> ~s.busy

(* What the client reads back of a scan is the result of the scan before   *)
(* it, and the debug module is asked once for every scan that did not read *)
(* busy, in order; a client that idles long enough after a reset never     *)
(* reads busy.                                                             *)
Number(bits) ==
  LET Upto[k \in 0..Len(bits)] == IF k = 0 THEN 0 ELSE Upto[k - 1] + bits[k] * 2^(k - 1)
  IN Upto[Len(bits)]
ReadBits(k) == Number(SubSeq(b.out, DrLength * (k - 1) + 1, DrLength * k))
Answered == Len(b.out) \div DrLength
Accepted(k) == Op(ReadBits(k)) # Busy
ScansDone == client.bytes = <<>> /\ client.socket = <<>> /\ b.recv_buf = <<>> /\ b.pc = "tick"
AcceptedScans == {k \in 1..Answered : Accepted(k)}
ScansExact ==
  kind = "jtag" /\ ScansDone =>
    /\ Answered = Len(client.scans)
    /\ Len(log) = Cardinality(AcceptedScans)
    /\ \A k \in AcceptedScans :
         LET nth == Cardinality({j \in AcceptedScans : j <= k}) IN
         /\ log[nth].scan = client.scans[k]
         /\ nth > 1 => ReadBits(k) = log[nth - 1].result
    /\ client.patient => AcceptedScans = 1..Answered

(***************************************************************************)
(* Whatever way a debugger takes to the harts, the host's own transport,   *)
(* the system bus or the scans of a JTAG probe, it reads and writes what   *)
(* it meant to.                                                            *)
(***************************************************************************)
AccessesExact == TransfersExact /\ ScansExact
=============================================================================
