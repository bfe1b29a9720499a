-------------------------------- MODULE Dtm --------------------------------
(* The two debug transports.                                               *)
(*                                                                         *)
(* The front end's (fesvr/dtm.cc) is a host thread that                    *)
(* reaches a processor's memory through its debug module, one request and  *)
(* its response at a time.  An operation of the host is a script, the       *)
(* sequence of requests it makes; a host h is a record of the script that  *)
(* is left and of the thread's variables.  DMI values are those of module  *)
(* DebugModule.                                                            *)
EXTENDS DebugModule

CONSTANT EntryPoint     \* where reset() sends the harts
MaxHartsel == 1023
----------------------------------------------------------------------------
(* Requests.  do says what the thread does with the response.              *)
Write(a, v) == [op |-> "write", a |-> a, v |-> v, do |-> "nothing"]
WriteSaved(k, name) == [op |-> "write", a |-> Data(k - 1), saved |-> <<name, k>>, do |-> "nothing"]
Read(a, do) == [op |-> "read", a |-> a, do |-> do]
Nop == [op |-> "nop", do |-> "nothing"]

Control == [haltreq |-> FALSE, resumereq |-> FALSE, hasel |-> FALSE, hartsel |-> 0, hartreset |-> FALSE,
            ndmreset |-> FALSE, dmactive |-> TRUE, ackhavereset |-> FALSE]
WriteControl(v) == Write(Reg("dmcontrol"), v)
ReadStatus == Read(Reg("dmstatus"), "nothing")
Settled(hart) == [op |-> "read", a |-> Reg("dmstatus"), do |-> "current", hart |-> hart]
Deselect(running) == IF running THEN << WriteControl(Control), ReadStatus >> ELSE <<>>

select_hart(hart) ==
  << Read(Reg("dmcontrol"), "control"),
     [op |-> "write", a |-> Reg("dmcontrol"), select |-> hart, do |-> "select"] >>
halt(hart, running) ==
  Deselect(running)
    \o << WriteControl([Control EXCEPT !.haltreq = TRUE, !.hartsel = hart]),
          Read(Reg("dmstatus"), "poll_halted"),
          WriteControl([Control EXCEPT !.hartsel = hart]), Settled(hart) >>
resume(hart, running) ==
  << WriteControl([Control EXCEPT !.resumereq = TRUE, !.hartsel = hart]),
     Read(Reg("dmstatus"), "poll_resumed"),
     WriteControl([Control EXCEPT !.hartsel = hart]), Settled(hart) >>
  \o Deselect(running)

Command(regno, write, postexec) ==
  [type |-> 0, size |-> 3, transfer |-> TRUE, write |-> write, postexec |-> postexec, regno |-> regno]
WriteProgram(prog) == [k \in 1..Len(prog) |-> Write(Progbuf(k - 1), prog[k])]
WriteValue(v) == << Write(Data(0), v[1]), Write(Data(1), v[2]) >>
ReadValue(to) == << Read(Data(0), "low"), Read(Data(1), to) >>
Die == [op |-> "write", a |-> Reg("abstractcs"), v |-> 7, do |-> "died"]
WaitNotBusy == Read(Reg("abstractcs"), "poll_busy")

(* run_abstract_command with the check of RUN_AC_OR_DIE: what is written   *)
(* before the command, what is read after it.                              *)
RunCommand(prog, before, command, after) ==
  WriteProgram(prog) \o before \o << Write(Reg("command"), command), WaitNotBusy >> \o after \o << Die >>
save_reg(regno) == RunCommand(<<>>, <<>>, Command(regno, FALSE, FALSE), ReadValue(regno))
restore_reg(regno) ==
  RunCommand(<<>>, << WriteSaved(1, regno), WriteSaved(2, regno) >>, Command(regno, TRUE, FALSE), <<>>)

(* A loop of an operation, from its k-th element on: what it does with the *)
(* element is put in front when the loop is reached (Unrolled).            *)
Loop(body, k, last, values) ==
  << [op |-> "loop", body |-> body, k |-> k, last |-> last, values |-> values, do |-> "nothing"] >>

----------------------------------------------------------------------------
(* The operations of the transport.  Addresses are in 32-bit words, len in *)
(* 64-bit ones.                                                            *)
Address(a) == <<a % WordSize, a \div WordSize>>
Saved(hart, running, body) ==
  halt(hart, running) \o save_reg("s0") \o save_reg("s1") \o body
    \o restore_reg("s0") \o restore_reg("s1") \o resume(hart, running)

read_chunk(hart, taddr, len) ==
  Saved(hart, TRUE,
    RunCommand(<< <<"load", "s1", "s0">>, <<"addi", "s0", 2>>, <<"ebreak">> >>,
               WriteValue(Address(taddr)), Command("s0", TRUE, TRUE), <<>>)
    \o Loop("read", 1, len, <<>>))
ReadElement(k, len) == RunCommand(<<>>, <<>>, Command("s1", FALSE, k < len), ReadValue("buffer"))

AutoExecData(on) == << Write(Reg("abstractauto"), [data |-> on, progbuf |-> {}]) >>
(* Mutant: the low word, which runs the command, is written first.         *)
AutoWrite_LowFirst(v) == << Write(Data(0), v[1]), Write(Data(1), v[2]), WaitNotBusy, Die >>
(* From the second word on, writing data0 runs the command again.          *)
AutoWrite(v) == << Write(Data(1), v[2]), Write(Data(0), v[1]), WaitNotBusy, Die >>
write_chunk(hart, taddr, values) ==
  Saved(hart, TRUE,
    RunCommand(<< <<"store", "s1", "s0">>, <<"addi", "s0", 2>>, <<"ebreak">> >>,
               WriteValue(Address(taddr)), Command("s0", TRUE, FALSE), <<>>)
    \o RunCommand(<<>>, WriteValue(values[1]), Command("s1", TRUE, TRUE), <<>>)
    \o (IF Len(values) = 1 THEN <<>>
        ELSE AutoExecData({0}) \o Loop("write", 2, Len(values), values) \o AutoExecData({})))
clear_chunk(hart, taddr, len) ==
  Saved(hart, TRUE,
    RunCommand(<<>>, WriteValue(Address(taddr)), Command("s0", TRUE, FALSE), <<>>)
    \o RunCommand(<< <<"store", "x0", "s0">>, <<"addi", "s0", 2>>, <<"bne", 1>>, <<"ebreak">> >>,
                  WriteValue(Address(taddr + 2 * len)), Command("s1", TRUE, TRUE), <<>>))

(* s0 waits in dscratch0 while the program uses it; the result's two words *)
(* are or-ed together.                                                     *)
modify_csr(hart, which, v, type) ==
  halt(hart, TRUE)
    \o RunCommand(<< <<"csrrx", "s0", "dscratch0", "WRITE">>, <<"ld", "s0">>, <<"csrrx", "s0", which, type>>,
                     <<"sd", "s0">>, <<"csrrx", "s0", "dscratch0", "WRITE">>, <<"ebreak">> >>,
                  WriteValue(v), Command("x0", TRUE, TRUE), <<>>)
    \o ReadValue("csr") \o resume(hart, TRUE)
fence_i(hart) ==
  halt(hart, TRUE)
    \o RunCommand(<< <<"fence_i">>, <<"ebreak">> >>, <<>>, Command("x0", TRUE, TRUE), <<>>)
    \o resume(hart, TRUE)
ResetHart(hart) == select_hart(hart) \o fence_i(hart) \o modify_csr(hart, "dpc", EntryPoint, "WRITE")
dtm_reset(num_harts) == Loop("reset", 0, num_harts - 1, <<>>) \o select_hart(0) \o << ReadStatus >>

Element(l) ==
  CASE l.body = "read" -> ReadElement(l.k, l.last)
    [] l.body = "write" -> AutoWrite(l.values[l.k])
    [] OTHER -> ResetHart(l.k)
Unrolled(script) ==
  IF script = <<>> \/ Head(script).op # "loop" THEN script
  ELSE LET l == Head(script) IN
    IF l.k > l.last THEN Tail(script)
    ELSE Element(l) \o Loop(l.body, l.k + 1, l.last, l.values) \o Tail(script)

----------------------------------------------------------------------------
(* The start of the host thread: it finds the harts and their width.       *)
Probe(hart) == select_hart(hart) \o << [op |-> "read", a |-> Reg("dmstatus"), do |-> "probe", hart |-> hart] >>
enumerate_harts ==
  << Read(Reg("dmcontrol"), "control"),
     [op |-> "write", a |-> Reg("dmcontrol"), select |-> MaxHartsel, do |-> "nothing"],
     ReadStatus, Read(Reg("dmcontrol"), "max_hart") >>
  \o Probe(0)
ClearError == << Write(Reg("abstractcs"), 7) >>
Try(size) ==
  << Write(Reg("command"), [Command("s0", FALSE, FALSE) EXCEPT !.size = size]), WaitNotBusy >>
(* A size without an error is the width; after an error the next is tried. *)
Known(xlen) == << [op |-> "width", xlen |-> xlen, do |-> "nothing"] >>
get_xlen == Try(4) \o Known(128)
Narrower(xlen) ==
  CASE xlen = 128 -> ClearError \o Try(3) \o Known(64)
    [] xlen = 64 -> ClearError \o Try(2) \o Known(32)
    [] OTHER -> <<>>
producer_thread ==
  << WriteControl(Control), Read(Reg("dmcontrol"), "poll_active"),
     Read(Reg("abstractcs"), "nothing"), Read(Reg("hartinfo"), "nothing") >>
  \o enumerate_harts \o halt(0, FALSE) \o get_xlen \o resume(0, FALSE)
  \o << [op |-> "running", do |-> "nothing"] >>

Host == [script |-> producer_thread, running |-> FALSE, current_hart |-> 0, num_harts |-> 0, max_hart |-> 0,
         xlen |-> 0, dmcontrol |-> Control, cmderr |-> 0, data |-> Zero, s0 |-> Zero, s1 |-> Zero,
         buffer |-> <<>>, csr |-> Zero, died |-> FALSE, req_wait |-> FALSE, resp_wait |-> FALSE]

(* What needs no request: an error that did not happen is not reported, a  *)
(* loop goes to its next element.                                          *)
Settle(h) ==
  IF h.script = <<>> THEN h
  ELSE LET first == Head(h.script) rest == Tail(h.script) IN
    CASE first.op = "running" -> [h EXCEPT !.script = <<>>, !.running = TRUE]
      [] first.op = "width" /\ h.cmderr = 0 -> [h EXCEPT !.xlen = first.xlen, !.script = rest]
      [] first.op = "width" /\ h.cmderr # 0 -> [h EXCEPT !.script = Narrower(first.xlen) \o rest]
      [] first.do = "died" /\ h.cmderr = 0 -> [h EXCEPT !.script = Unrolled(rest)]
      [] OTHER -> [h EXCEPT !.script = Unrolled(@)]

(* do_command: the request the thread is waiting with.                     *)
Request(h) ==
  IF h.script = <<>> THEN Nop
  ELSE LET r == Head(h.script) IN
    IF "saved" \in DOMAIN r THEN Write(r.a, (IF r.saved[1] = "s0" THEN h.s0 ELSE h.s1)[r.saved[2]])
    ELSE IF "select" \in DOMAIN r THEN WriteControl([h.dmcontrol EXCEPT !.hartsel = r.select])
    ELSE r

(* The thread goes on with a response.                                     *)
Polled(do, value) ==
  CASE do = "poll_active" -> value.dmactive
    [] do = "poll_halted" -> value.allhalted
    [] do = "poll_resumed" -> value.allresumeack
    [] do = "poll_busy" -> ~value.busy
    [] OTHER -> TRUE
Probed(h, hart, value) ==
  IF value.anynonexistent THEN [h EXCEPT !.num_harts = hart]
  ELSE IF hart = h.max_hart THEN [h EXCEPT !.num_harts = hart + 1]
  ELSE [h EXCEPT !.script = Probe(hart + 1) \o @]
Take(h, r, value) ==
  LET whole == <<h.data[1], value>> IN
  CASE r.do = "control" -> [h EXCEPT !.dmcontrol = value]
    [] r.do = "select" -> [h EXCEPT !.current_hart = r.select]
    [] r.do = "current" -> [h EXCEPT !.current_hart = r.hart]
    [] r.do = "max_hart" -> [h EXCEPT !.max_hart = value.hartsel]
    [] r.do = "probe" -> Probed(h, r.hart, value)
    [] r.do = "poll_busy" -> [h EXCEPT !.cmderr = value.cmderr]
    [] r.do = "low" -> [h EXCEPT !.data = <<value, 0>>]
    [] r.do = "s0" -> [h EXCEPT !.s0 = whole]
    [] r.do = "s1" -> [h EXCEPT !.s1 = whole]
    [] r.do = "buffer" -> [h EXCEPT !.buffer = Append(@, whole)]
    [] r.do = "csr" -> [h EXCEPT !.csr = <<BitsOff(h.data[1], value) + value, 0>>]
    [] r.do = "died" -> [h EXCEPT !.died = TRUE]
    [] OTHER -> h
Continue(h, value) ==
  IF h.script = <<>> THEN h
  ELSE LET r == Head(h.script) IN
    IF Polled(r.do, value) THEN Settle(Take([h EXCEPT !.script = Tail(@)], r, value)) ELSE h

(* An operation of the front end begins when the thread has nothing to do. *)
Start(h, script) == Settle([h EXCEPT !.script = script, !.buffer = <<>>, !.died = FALSE])

(* tick: the request is offered, then taken, then answered.                *)
tick(h, req_ready, resp_valid, value) ==
  LET offered == [h EXCEPT !.req_wait = IF h.resp_wait THEN @ ELSE IF @ THEN ~req_ready ELSE TRUE,
                           !.resp_wait = @ \/ (h.req_wait /\ req_ready)]
  IN IF resp_valid THEN Continue([offered EXCEPT !.resp_wait = FALSE], value) ELSE offered
----------------------------------------------------------------------------
(* The JTAG transport (riscv/jtag_dtm.cc) and the server that drives its   *)
(* pins from a socket (riscv/remote_bitbang.cc).  Registers are shifted    *)
(* bit by bit; a DBUS scan is an operation of two bits, a data word of     *)
(* three and an address of two.                                            *)
(* Addresses 0 to 2 are data0, data1 and sbaddress1; nothing answers at 3. *)
CONSTANTS required_rti_cycles, buf_size

IrLength == 2
IdcodeIr == 1
DtmcontrolIr == 2
DbusIr == 3
DrLength == 7
Idcode == 93                      \* no scan of the debug module reads this
Op(dr) == dr % 4
DataOf(dr) == (dr \div 4) % WordSize
AddressIn(dr) == dr \div (4 * WordSize)
Scan(op, data, address) == op + 4 * data + 4 * WordSize * address
DmiAddress(a) == CASE a = 0 -> Data(0) [] a = 1 -> Data(1) [] a = 2 -> Reg("sbaddress1") [] OTHER -> Reg("none")

Success == 0
Failed == 2
Busy == 3
OpRead == 1
OpWrite == 2
DmiReset(dr) == HasBit(dr, 1)
DmiHardReset(dr) == HasBit(dr, 2)

(* What the constructor does not initialise starts as garbage.             *)
jtag_dtm_t(ir, busy_stuck, rti_remaining) ==
  [state |-> "TEST_LOGIC_RESET", ir |-> ir, dr |-> 0, dr_length |-> 1, dmi |-> 0,
   busy_stuck |-> busy_stuck, rti_remaining |-> rti_remaining,
   tck |-> 0, tms |-> 0, tdi |-> 0, tdo |-> 0]
jtag_reset(t) ==
  [t EXCEPT !.state = "TEST_LOGIC_RESET", !.busy_stuck = FALSE, !.rti_remaining = 0, !.dmi = 0]

next ==
  [TEST_LOGIC_RESET |-> <<"RUN_TEST_IDLE", "TEST_LOGIC_RESET">>,
   RUN_TEST_IDLE |-> <<"RUN_TEST_IDLE", "SELECT_DR_SCAN">>,
   SELECT_DR_SCAN |-> <<"CAPTURE_DR", "SELECT_IR_SCAN">>,
   CAPTURE_DR |-> <<"SHIFT_DR", "EXIT1_DR">>, SHIFT_DR |-> <<"SHIFT_DR", "EXIT1_DR">>,
   EXIT1_DR |-> <<"PAUSE_DR", "UPDATE_DR">>, PAUSE_DR |-> <<"PAUSE_DR", "EXIT2_DR">>,
   EXIT2_DR |-> <<"SHIFT_DR", "UPDATE_DR">>, UPDATE_DR |-> <<"RUN_TEST_IDLE", "SELECT_DR_SCAN">>,
   SELECT_IR_SCAN |-> <<"CAPTURE_IR", "TEST_LOGIC_RESET">>,
   CAPTURE_IR |-> <<"SHIFT_IR", "EXIT1_IR">>, SHIFT_IR |-> <<"SHIFT_IR", "EXIT1_IR">>,
   EXIT1_IR |-> <<"PAUSE_IR", "UPDATE_IR">>, PAUSE_IR |-> <<"PAUSE_IR", "EXIT2_IR">>,
   EXIT2_IR |-> <<"SHIFT_IR", "UPDATE_IR">>, UPDATE_IR |-> <<"RUN_TEST_IDLE", "SELECT_DR_SCAN">>]

capture_dr(t) ==
  LET busy == t.rti_remaining > 0 \/ t.busy_stuck IN
  CASE t.ir = IdcodeIr -> [t EXCEPT !.dr = Idcode, !.dr_length = DrLength]
    [] t.ir = DtmcontrolIr -> [t EXCEPT !.dr = 1, !.dr_length = DrLength]
    [] t.ir = DbusIr -> [t EXCEPT !.dr = IF busy THEN Busy ELSE t.dmi, !.dr_length = DrLength,
                                  !.busy_stuck = busy]
    [] OTHER -> t

(* A scan's operation on the debug module; dmi keeps its result for the    *)
(* next scan.  j is a record of the transport t, the module s and log, the *)
(* history of the operations done.                                         *)
Access(s, dr) ==
  LET a == DmiAddress(AddressIn(dr)) IN
  CASE Op(dr) = OpRead -> dmi_read(s, a)
    [] Op(dr) = OpWrite -> LET w == dmi_write(s, a, DataOf(dr), 0) IN [s |-> w.s, value |-> DataOf(dr), ok |-> w.ok]
    [] OTHER -> [s |-> s, value |-> DataOf(dr), ok |-> TRUE]
Result(dr, r) ==
  Scan(IF r.ok THEN Success ELSE Failed, IF r.ok THEN r.value ELSE DataOf(dr), AddressIn(dr))
DbusUpdate(j) ==
  LET r == Access(j.s, j.t.dr) IN
  [j EXCEPT !.s = r.s, !.t.dmi = Result(j.t.dr, r), !.t.rti_remaining = required_rti_cycles,
            !.log = Append(@, [scan |-> j.t.dr, result |-> Result(j.t.dr, r)])]
DtmcontrolUpdate(j) ==
  LET cleared == IF DmiReset(j.t.dr) THEN [j.t EXCEPT !.busy_stuck = FALSE] ELSE j.t
  IN [j EXCEPT !.t = IF DmiHardReset(j.t.dr) THEN jtag_reset(cleared) ELSE cleared]
update_dr(j) ==
  CASE j.t.ir = DtmcontrolIr -> DtmcontrolUpdate(j)
    [] j.t.ir = DbusIr /\ ~j.t.busy_stuck -> DbusUpdate(j)
    [] OTHER -> j

Shifted(reg, bit, length) == reg \div 2 + bit * 2^(length - 1)
Shift(t) ==
  CASE t.state = "SHIFT_DR" -> [t EXCEPT !.dr = Shifted(@, t.tdi, t.dr_length)]
    [] t.state = "SHIFT_IR" -> [t EXCEPT !.ir = Shifted(@, t.tdi, IrLength)]
    [] OTHER -> t
Enter(j) ==
  CASE j.t.state = "RUN_TEST_IDLE" ->
         [j EXCEPT !.t.rti_remaining = IF @ > 0 THEN @ - 1 ELSE 0, !.s = run_test_idle(@)]
    [] j.t.state = "TEST_LOGIC_RESET" -> [j EXCEPT !.t.ir = IdcodeIr]
    [] j.t.state = "CAPTURE_DR" -> [j EXCEPT !.t = capture_dr(@)]
    [] j.t.state = "SHIFT_DR" -> [j EXCEPT !.t.tdo = j.t.dr % 2]
    [] j.t.state = "UPDATE_DR" -> update_dr(j)
    [] j.t.state = "SHIFT_IR" -> [j EXCEPT !.t.tdo = j.t.ir % 2]
    [] OTHER -> j
(* The positive edge of the clock uses the pins' earlier values.           *)
set_pins(j, tck, tms, tdi) ==
  LET shifted == Shift(j.t)
      edge == Enter([j EXCEPT !.t = [shifted EXCEPT !.state = next[shifted.state][shifted.tms + 1]]])
      after == IF j.t.tck = 0 /\ tck = 1 THEN edge ELSE j
  IN [after EXCEPT !.t.tck = tck, !.t.tms = tms, !.t.tdi = tdi]

----------------------------------------------------------------------------
(* The server.  It reads what the socket has, carries out the commands and *)
(* lets the simulation go on when the transport enters Run-Test/Idle.      *)
(* b.out is what it has sent.                                              *)
remote_bitbang_t == [pc |-> "tick", connected |-> FALSE, recv_buf |-> <<>>, send_buf |-> <<>>, out |-> <<>>,
                     total_processed |-> 0, quit |-> FALSE, in_rti |-> FALSE, entered_rti |-> FALSE]
Pins == [p \in {"0", "1", "2", "3", "4", "5", "6", "7"} |->
           CASE p = "0" -> <<0, 0, 0>> [] p = "1" -> <<0, 0, 1>> [] p = "2" -> <<0, 1, 0>>
             [] p = "3" -> <<0, 1, 1>> [] p = "4" -> <<1, 0, 0>> [] p = "5" -> <<1, 0, 1>>
             [] p = "6" -> <<1, 1, 0>> [] p = "7" -> <<1, 1, 1>>]
Carry(j, command) ==
  CASE command \in DOMAIN Pins -> set_pins(j, Pins[command][1], Pins[command][2], Pins[command][3])
    [] command = "r" -> [j EXCEPT !.t = jtag_reset(@)]
    [] OTHER -> j
Reply(j, command) == IF command = "R" THEN <<j.t.tdo>> ELSE <<>>

InIdle(j) == j.t.state = "RUN_TEST_IDLE"
StartTick(b, j) ==
  [b EXCEPT !.pc = "commands", !.total_processed = 0, !.quit = FALSE,
            !.in_rti = InIdle(j), !.entered_rti = FALSE]
(* One command of the buffer; j is the transport after it.                 *)
OneCommand(b, j, command) ==
  LET entered == ~b.in_rti /\ InIdle(j) IN
  [b EXCEPT !.recv_buf = Tail(@), !.send_buf = @ \o Reply(j, command),
            !.quit = @ \/ command = "Q", !.total_processed = @ + 1,
            !.entered_rti = @ \/ entered, !.in_rti = FALSE,
            !.pc = IF entered THEN "write" ELSE "commands"]
(* The replies go out; then it stops or reads on.                          *)
WriteReplies(b) ==
  [b EXCEPT !.out = @ \o b.send_buf, !.send_buf = <<>>,
            !.pc = IF b.total_processed > buf_size \/ b.quit \/ b.entered_rti THEN "tick" ELSE "read"]
Received(b, bytes) == [b EXCEPT !.recv_buf = bytes, !.pc = "commands"]
NothingToRead(b) == [b EXCEPT !.pc = "tick"]
Disconnected(b) == [b EXCEPT !.pc = "tick", !.connected = FALSE]
=============================================================================
