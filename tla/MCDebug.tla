------------------------------ MODULE MCDebug ------------------------------
(* The debug system for TLC: three harts and ten words of memory, two of   *)
(* them above the range of the low word of an address.                     *)
EXTENDS DebugSystem, SequencesExt

Module(auth, rti) ==
  [progbufsize |-> 6, max_bus_master_bits |-> 64, require_authentication |-> auth, abstract_rti |-> rti,
   support_hasel |-> TRUE, support_abstract_csr_access |-> TRUE, support_haltgroups |-> TRUE,
   support_impebreak |-> TRUE]
MCKinds == {"dtm", "free", "bus", "jtag"}
MCConfigs ==
  [dtm |-> {[module |-> Module(FALSE, 1), nprocs |-> 3]},
   free |-> {[module |-> Module(FALSE, 0), nprocs |-> 2], [module |-> Module(FALSE, 1), nprocs |-> 1],
             [module |-> Module(TRUE, 0), nprocs |-> 1]},
   bus |-> {[module |-> Module(FALSE, 0), nprocs |-> 1]},
   jtag |-> {[module |-> Module(FALSE, 0), nprocs |-> 1]}]
MCMemory == [a \in 0..9 |-> (a + 1 + 4 * (a \div WordSize)) % WordSize]
MCEntryPoint == <<6, 1>>

Chunk(op, taddr, len) == [op |-> op, taddr |-> taddr, len |-> len]
MCTasks ==
  {Chunk("read_chunk", 6, 2), Chunk("read_chunk", 6, 3), Chunk("clear_chunk", 0, 2), Chunk("clear_chunk", 8, 2),
   [op |-> "write_chunk", taddr |-> 0, values |-> <<<<7, 5>>, <<2, 6>>>>],
   [op |-> "write_chunk", taddr |-> 6, values |-> <<<<7, 5>>, <<2, 6>>, <<3, 4>>>>],
   [op |-> "modify_csr", which |-> "csr", v |-> <<5, 3>>, type |-> "SET"],
   [op |-> "modify_csr", which |-> "nocsr", v |-> <<5, 3>>, type |-> "WRITE"],
   [op |-> "reset"]}

AccessRegister(regno, write, size, postexec) ==
  [type |-> 0, size |-> size, transfer |-> TRUE, write |-> write, postexec |-> postexec, regno |-> regno]
MCCommands ==
  <<{AccessRegister("s0", TRUE, 3, FALSE), AccessRegister("s0", FALSE, 2, FALSE), AccessRegister("s1", TRUE, 2, TRUE),
     AccessRegister("csr", TRUE, 3, FALSE), AccessRegister("fflags", FALSE, 3, FALSE),
     AccessRegister("f0", TRUE, 3, FALSE), AccessRegister("nocsr", FALSE, 3, FALSE),
     AccessRegister("custom1", FALSE, 2, FALSE), AccessRegister("custom1", TRUE, 2, FALSE),
     AccessRegister("s0", FALSE, 4, FALSE), [AccessRegister("x0", TRUE, 3, TRUE) EXCEPT !.transfer = FALSE]},
    {AccessRegister("s0", TRUE, 3, FALSE), AccessRegister("s1", FALSE, 2, FALSE)}>>
MCPrograms == <<{<< <<"addi", "s1", 2>>, <<"ebreak">> >>, << <<"illegal">>, <<"ebreak">> >>}, {}>>
Halt(i) == [Control EXCEPT !.haltreq = TRUE, !.hartsel = i]
MCControls ==
  <<{Halt(0), Control, [Control EXCEPT !.resumereq = TRUE],
     [Control EXCEPT !.hartreset = TRUE, !.ackhavereset = TRUE], [Control EXCEPT !.dmactive = FALSE]},
    {Halt(0), Halt(1), [Control EXCEPT !.hartsel = 1], [Halt(0) EXCEPT !.hasel = TRUE],
     [Control EXCEPT !.resumereq = TRUE], [Control EXCEPT !.ndmreset = TRUE]}>>
(* With one hart, with two, and when it authenticates.                     *)
MCLimits == <<[all |-> 4, command |-> 2, control |-> 1, other |-> 1], [all |-> 4, command |-> 2, control |-> 3, other |-> 1],
              [all |-> 4, command |-> 1, control |-> 2, other |-> 1]>>

Sbcs(readonaddr, sbaccess, auto, readondata) ==
  [readonaddr |-> readonaddr, sbaccess |-> sbaccess, autoincrement |-> auto, readondata |-> readondata, error |-> 0]
(* Blocks in the low and in the high part, across the two, and beyond the  *)
(* end of memory.                                                          *)
BusRead(access, a) ==
  [sbcs |-> Sbcs(TRUE, access, TRUE, TRUE), address |-> a, len |-> 3, values |-> <<>>]
BusWrite(access, a) ==
  [sbcs |-> Sbcs(FALSE, access, TRUE, FALSE), address |-> a, len |-> 0, values |-> <<<<7, 2>>, <<6, 3>>>>]
MCStreams ==
  {BusRead(2, a) : a \in {0, 3, 6, 8}} \union {BusRead(3, a) : a \in {0, 2, 4, 8}}
    \union {BusWrite(2, a) : a \in {0, 3, 7, 8, 9}} \union {BusWrite(3, a) : a \in {0, 4, 6, 8}}
    \union {BusWrite(4, a) : a \in {0, 4}}

(* A clock of the transport: the low and the high half, with the pin read  *)
(* between them while a register is shifted.                               *)
Byte(tck, tms, tdi) == ToString(4 * tck + 2 * tms + tdi)
Clock(tms, tdi) == << Byte(0, tms, tdi), Byte(1, tms, tdi) >>
ReadClock(tms, tdi) == << Byte(0, tms, tdi), "R", Byte(1, tms, tdi) >>
Bit(x, k) == (x \div 2^k) % 2
(* A part of a session for each of n elements in turn.                     *)
Each(n, Part(_)) == FlattenSeq([k \in 1..n |-> Part(k)])
Clocks(tmss) == Each(Len(tmss), LAMBDA k : Clock(tmss[k], 0))
ShiftIr(v) == Each(IrLength, LAMBDA k : Clock(IF k = IrLength THEN 1 ELSE 0, Bit(v, k - 1)))
ShiftDr(v) == Each(DrLength, LAMBDA k : ReadClock(IF k = DrLength THEN 1 ELSE 0, Bit(v, k - 1)))
SelectDbus == Clocks(<<1, 1, 0, 0>>) \o ShiftIr(DbusIr) \o Clocks(<<1, 0>>)
DbusScan(v) == Clocks(<<1, 0, 0>>) \o ShiftDr(v) \o Clocks(<<1, 0>>)
Wait(n) == Each(n, LAMBDA k : Clock(0, 0))
Start_(how) == IF how = "r" THEN << "r" >> \o Clocks(<<0>>) ELSE Clocks(<<1, 1, 1, 1, 1, 0>>)
Session(how, scans, wait, chunks) ==
  [scans |-> scans, chunks |-> chunks, socket |-> <<>>, closed |-> FALSE,
   patient |-> how = "r" /\ wait + 1 >= required_rti_cycles,
   bytes |-> Start_(how) \o SelectDbus \o Each(Len(scans), LAMBDA k : DbusScan(scans[k]) \o Wait(wait))]
MCSessions ==
  {Session(how, scans, wait, {16, 400}) :
     how \in {"r", "tms"}, wait \in 0..1,
     scans \in {<<Scan(OpWrite, 5, 0), Scan(OpRead, 0, 0), Scan(OpRead, 3, 3), Scan(OpWrite, 6, 1)>>}}
=============================================================================
