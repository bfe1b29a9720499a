# ProcessorFuzz in TLA+

ProcessorFuzz tests RISC-V processor designs: it generates programs, runs each
on an instruction set simulator (Spike) and on the simulated design, and
compares the two. This directory models the fuzzer, the bus adapter it puts
around a design, and the simulator that is the reference of every comparison;
checks the models with TLC; and proves the main results about the fuzzer with
TLAPS.

Paths below are relative to `src/original/Fuzzer/`, the code that
`start_fuzzing_*.sh` runs; `spike/` stands for `ISASim/riscv-isa-sim/`. The
directories at the top of the repository (`common/`, `execution/`,
`mutation/`, ...) hold a second arrangement of the same code and are not
modelled on their own.

## The system

| part | state | operations | interacts with | what is hard | what makes it correct |
|---|---|---|---|---|---|
| TileLink adapter, `RTLSim/src/adapters/tilelink` | memory, a permission per block, pools of probe sources and grant sinks, callbacks per source, queues of channels B and D, beat counters | one coroutine per channel, the host interface, the retriever, start and stop | the core's tile (TileLink), the host | coroutines resumed at every clock edge, callbacks that run when a probe is answered, exhausted pools, bursts | owners of blocks are known, data is current and not torn, ids are never lost or doubled |
| RTL host, `RTLSim/host.py`, `tile_adapter.py` | the test that runs, its end | `run_test`: start, poll and probe tohost, stop, save the signature | adapter, signature files | tests one after the other on one adapter, time-outs | a signature holds every store of the test; every test ends |
| Multicore manager, `src/multicore_manager.py` | two numbers, four semaphores, a list of states, coverage files, a log | `read_num`, `write_num`, `set_state`, `get_state`, `store_covmap` | all processes | processes that interleave and die at any access | no number given twice, no state or coverage lost, the log never falls back |
| Multicore run, `ProcessorFuzz.py` | table of children, their exit codes | fork, `wait_check`, the loops that kill | children, manager | children that fail, crash or hang while others run | nothing shared by accident, no orphans, the run ends |
| ISA simulation, `run_isa_test` and `isa_timeout` of `src/utils.py` | `stop[0]`, timers, children | start a timer, call Spike, cancel, read `stop[0]`; the timer kills and marks | compilers, Spike | a timer thread that is late | a killed run is no result |
| Mutator, `src/mutator.py`, `src/word.py`, `src/inst_generator.py` | corpus, phase, data seeds | `get` in three phases, `add_corpus`, `update_phase`, `update_corpus` | fuzzing loop, preprocessor | words dropped, inserted, merged and numbered again, over and over | tests move forward and end, compile, and find their data |
| Fuzzing loop, `Fuzzer.py`, with the preprocessor | known transitions, `stop[0]`, counters, the test at hand | one iteration: get, compile, ISA, transitions, RTL, compare, corpus | all others | early ends, late timers, exceptions of the RTL simulation | what is kept was run to its end and had something new |
| Oracle: transitions, Spike log reader, trace comparison, signature checker (`src/utils.py`, `src/signature_checker.py`, `spike_log_to_trace_csv.py`) | cursors into two logs, the known transitions, flags of a comparison | `extract_transitions`, `read_spike_trace`, `trace_compare`, `check` | logs and signatures of both simulators | results that come late, exceptions, rules that forgive a difference | a faulty instruction is reported, a right one is not; a transition counts once |
| SoftFloat, `spike/softfloat` | rounding mode, exception flags | arithmetic, comparison, conversion of four formats | the instructions | subnormal numbers, ties, cancellation, when tininess is decided | the exact result, rounded once |
| Hart, `spike/riscv/{processor,mmu,execute}.cc` | registers, CSRs, TLBs, instruction cache, pending debug step | CSR access, translation, PMP, triggers, traps, returns, `step` | other harts, clint, debug module | cached translations, two-pass CSR instructions, nested modes, single steps, interrupts anywhere | nothing stale is used, every instruction counts once, modes nest |
| Debug module, `spike/riscv/debug_module.cc`, its ROM, and transports (`fesvr/dtm.cc`, `jtag_dtm.cc`, `remote_bitbang.cc`) | registers of the module, one flag byte per hart, a command under way, the transports' scan state | DMI reads and writes, abstract commands, system bus, ROM loop; scripts of a host thread; JTAG scans; a socket server | harts, debuggers | a debugger and harts that step between any two accesses | commands do what they say, registers come back, harts are where the module thinks |
| Vector unit and the instructions, `spike/riscv/insns`, `decode.h` | vector registers, type and length, `vstart`, flags; integer and float registers | 589 instruction files | memory port, SoftFloat | overlapping register groups, faults in the middle, restarts, narrow registers | each element from the old values, restart equals no fault |
| Minimizer, options, templates, front end, disassembler | | | | | see "Not modelled" |

How they meet: `Fuzzer.py` calls the mutator, the preprocessor, the ISA host
and the RTL host in turn; children of a multicore run share the manager's
semaphores, memory and directories; the RTL host drives the adapter, which
answers the tile's bus requests; Spike runs the same program, writes the log
and signature that the oracle compares with those of the design.

## Modules

| module | role |
|---|---|
| `TLAdapter` | the adapter: its variables and one operator per coroutine body or handler, with the tile's messages as parameters |
| `TLTile` | the adapter behind a tile described by what TileLink allows one coherent cache and one uncached master, and a host that may start, probe and stop at any time |
| `RTLHost` | `run_test` and `tileAdapter` on top of it: each of its steps is a step of the environment of `TLTile` or leaves adapter and tile alone, so what is proved of `TLTile` holds for it |
| `ProcManager` | semaphores, shared memory and files of the manager, one action per access |
| `ProcCalls` | any processes making any calls in any order and dying anywhere |
| `IdDispenser` | the abstract promise of `read_num` and `write_num`: a number in one step, never again. `ProcCalls` implements it (`IsDispenser`) |
| `Multicore` | parent and children of a multicore run over `ProcManager` |
| `IsaRun` | calls of `run_isa_test` with their timer threads |
| `Mutator` | the three phases of `get`, numbering of words, seeds |
| `FuzzLoop` | the loop of `Run`: `Mutator` and an instance of `IsaRun` composed with transitions, the RTL simulation and the corpus |
| `Oracle` | the logs of a test that has run, as the program and one fault define them; the transitions, the rows read from Spike's log, the comparison row by row, the comparison of signatures |
| `SoftFloat`, `SoftFloatArith`, `SoftFloatConv` | the library's algorithms on a format given by its widths; one operator per function of the library |
| `Ieee754` | what the library promises, from exact values alone |
| `Csr`, `HartMmu`, `HartTrap`, `Hart` | a hart as a record and operators that return it after a call; `Hart` is the loop of `step`, an action per pass |
| `DebugModule`, `Dtm` | the module's registers and commands, and a hart in the ROM; the front end's scripts; scan chain and server |
| `DebugSystem` | harts, module and one debugger of four kinds composed |
| `VectorUnit`, `VectorInteger`, `VectorFixed`, `VectorFloat` | type, checks and loops; the vector instructions |
| `Scalar`, `ScalarFloat` | the scalar instructions of RV32 and RV64, compressed ones included |
| `Vector` | vector memory instructions and the machine that runs one instruction, repairs page faults and restarts, or lets two harts take turns |
| `MC*` | the instances for TLC |
| `*_proofs` | the theorems |

### How state and actions correspond to the code

*TileLink.* A coroutine of `tlAdapter` runs from one `yield clkedge` to the
next; that is one step, and the order of coroutines in a clock edge is left
open. Data is a version number per beat: `latest[b]` counts the stores to a
block, so "current" and "torn" can be said. Byte masks and the arithmetic of
atomic operations are abstracted to "a new version is written". The tile is
external: it has a state per block (none, branch, tip, dirty), MSHRs, one burst
per channel, and probes it has received. Four paths of the code that end the
simulation with an exception for requests no single-cache tile sends are
guards of the handlers; `retrievePerm` (adapter.py:518) does not exist and is
one of them.

*Manager.* `Down` and `Up` are P and V. `read_num` is `TakeNum`, `LoadNum`;
`write_num` is `StoreNum`, `GiveNum` or `NumOverflow` (OverflowError, with the
semaphore still taken); `set_state` and `store_covmap` are split at each read and
write likewise. `open(..., 'w')` empties a file before it is written. A process
that dies (`Die`) keeps its semaphores taken.

*Multicore run.* A child keeps of `Run` what it shares. Iterations end with
an error in `stop[0]`, a file in mismatch/, a file in corpus/, nothing, or an
exception. An exception ends the simulator process with an exit code this code
does not decide, so it is 0 or 1. `wait_check` is four actions since children
run between `waitpid`, `get_state` and the kills. `kill(0)` for a free slot kills
the process group, the parent included, and is modelled as that.

*Fuzzing loop.* The timer thread has four steps: fire, list the children,
kill, set `stop[0]`. Time is left out: a timer that waits may fire at any
moment, also while later tests are compiled. The children are the compiler,
elf2hex and Spike; -9 makes the preprocessor compile again. A word has its
label, the label it refers to, and whether it jumps there or loads from there;
`Picks` are the words `mutate_words` may keep and insert, `Targets` is
`reset_label`, `repop_label` and `_get_symbol`. Of three parts of a test, which
have labels of their own and go through the same operators, the main one is
modelled, the only one that is merged. A test's transitions are drawn from a set; those of an
earlier one are known. `update_corpus` adds data for each file it reads and no
test, as the code does: it unpacks two of three values and swallows the
exception.

*Oracle.* A test is a sequence of events; from it both logs are defined, with
one faulty instruction or none, results of long operations late in the RTL's
log, exceptions and changes of control registers. The readers and comparers
are recursive functions over these logs, as the loops are. The rules that
forgive a difference (counters, a misa or mstatus difference the code knows, NaN forms) are
kept in their order.

*SoftFloat.* A number is the integer that encodes it, a format its two widths,
so one operator stands for the functions of several formats; where the source
differs between formats (16 bits adds in a double word, 64 bits shifts words, 128
bits keeps an extra word) there are as many operators. A function
returns value and flags.

*Hart.* Every operator takes and returns the hart's record. A status register
is a record of fields, interrupt registers are sets; a pass of the inner loop
of `step` and the head of the outer loop are actions; between them interrupt
lines change and the debug module asks for halts. An instruction at a pc is a
record of a small program; page tables are functions.

*Debug.* A hart in debug mode takes one step per access to what it shares with
the module, or per instruction of command and program buffer. Words have three
bits, so addresses, registers and data words are few but all paths of
`perform_abstract_command`, `dmi_read` and `dmi_write` are there. The front end's
operations are scripts of requests with what is done with each response; a
loop in one is unrolled when the thread comes to its next element.
A scan shifts bit by bit.

*Instructions.* One operator per file of `insns/`, named as it, applied to the
record of a hart and the decoded fields; the macros of `decode.h` are operators with
the body as parameter. A byte has two bits in the vector unit, so every width of
element has all its values in reach. `FloatOp` is any function there: what it returns is SoftFloat's
matter.

## Runs

| run | instance | shows |
|---|---|---|
| `coherence` | blocks of two beats: tests on a cached block and a device outside the image, and tests that read two other cached blocks; two sinks, probe sources and misses, both in use at once; one store to each block that is written | `OwnersKnown`: an owner is never forgotten. `DataFresh`: no grant or answer is stale or torn. `ProbeSources`, `GrantSinks`: pools and callbacks stay sound when they run out. `BurstsCounted`: beat counters agree with bursts |
| `host` | two blocks of one beat, two sinks, any sequence of tests, fair | `SignatureComplete`; `InterfaceKept`: a test that began with a free `host_interface` leaves it free unless it is stopped between a probe and its end; `TohostSeen`, `TestsDrain`: tohost arrives in each such test and a stopped test ends |
| `stale_probe` | two blocks, tests whose images are one block each | finding: the assertion of adapter.py:729 fails |
| `calls` | two processes that take numbers and set states, or merge two coverage files, and may die anywhere | `IsDispenser`: no number twice; `StatesKept`, `CoverageKept`, `LogGrows`: nothing set or merged is lost, the log does not fall back |
| `multicore` | three slots, four children, one crash from outside | `NothingShared`: no file is overwritten, no slot has two children; `NoOrphans`; `MulticoreEnds` |
| `abnormal_child` | one slot, two children | finding: the parent goes on after a child that met an error |
| `fuzz_loop` | generated tests of one word, mutated up to three, two tests in the corpus, two seeds, two runs of the simulator, two transitions | `KeptRan`: what is kept ran to its end and had a transition of its own; `WellFormed`: no loops, labels defined; `SeedsKnown`; `CallReturns` |
| `softfloat` | one call per behaviour, each function on small formats | `RoundedOnce`: value and flags are those of IEEE 754; `ValuesOrdered`: comparison, minimum, conversion to integers and classes follow the values |
| `hart` | three programs: memory, guest, debug | `TLBCurrent`: a hit allows what a walk would; `RetiredCounted`, `StepsOnce`: an instruction counts once, a step is one instruction; `SavedCsrsRestore`: what software saves it gets back; `PrivilegeMoves`: traps and returns nest |
| `debug` | four kinds of debugger, up to three harts | `HartsAccounted`, `RegistersReturned`, `AccessesExact`, `CommandsExact`; `OperationsEnd`: no script of the front end waits for ever |
| `vector` | one instruction from drawn registers, with page faults and restarts; two harts that take turns | `TypeCurrent`, `ElementsExact`, `RestartExact`, `InstructionsExact`, `ScAtomic` |
| `oracle` | tests of up to three instructions, one fault | `TransitionsCounted`; `FaultsReported`: a fault is reported and a right instruction is not; `SignatureFair` |

### Bounds

* `coherence`: with `Beats` 2 the first and the last beat of a burst differ, as
  they do in any longer one. `MaxVer`, the stores to each block, is 1: the version
  before and the one after tell a torn answer from an old one, and a block is stored to
  in any of its states. The two `Programs` decide what is in use: tohost's block with
  a device, or two other cached blocks, so that two misses hold two sinks; these two are
  only read, so their `MaxVer` is 0. With two ids per pool ids compete, and pools run out. Symmetry over
  sinks, probe sources and misses, which are only tested for equality (the code draws
  sinks and sources at random), and over the two read blocks, which no constant tells
  apart; no liveness in this run.
* `host`: `Beats` 1 and `MaxVer` at most 1, since it is about the order of tests; one
  probe source and miss, no uncached master, a second block the program only reads. Two
  sinks: what a stopped test leaves in `ongoing_tlc` under one is not taken
  back by the next test, which may use the other.
* `calls`: `NumMax` (the largest number the shared word holds, 4 bytes in the
  code) is 3, so it overflows. A behaviour makes calls for numbers and states
  or for coverage, not both: they share no state. `MaxStores` 3 bounds the
  lines of the log.
* `multicore`: three slots are needed for a kill loop that meets a free slot, a
  dead child and a living one; a fourth child uses a slot again. `MaxKills` 1,
  `MaxIters` 1, `NumMax` 5. The directories start with one file of each kind
  or as many as the word has room for. Children after the second raise before their
  first iteration ends.
* `fuzz_loop`: tests of three words have a word before, at and after each
  change; two tests in the corpus allow a merge of different ones, two seeds a
  full list. With two runs (`Runs`) a timer of the first can be late in the second.
* `softfloat`: widths (exponent, fraction) are (4,2), (5,5), (6,9), (7,14) for
  16, 32, 64 and 128 bits and keep the order of sizes the code relies on. All
  encodings of the smallest format; for the others exponents at both
  ends, at the bias and around the width, with the fractions next to a tie or a
  carry; all rounding modes.
* `hart`: registers of 8 bits, two PMP entries, triggers and entries of TLB and
  instruction cache, so that an entry is evicted; `Quantum` 2, so that `step`
  ends in the middle of a program. `MemoryPasses`, `GuestPasses`, `DebugPasses` (3 or 4) bound
  the passes of a program, and the constraint `Within` stops there. The external
  interrupt comes at one pc.
* `debug`: words of three bits and ten words of memory, so that an address has two words
  and a block transfer may cross from the first to the second; three harts with a group and
  an array mask; two operations of the front end, four accesses of a free
  debugger. A free debugger keeps to the debug specification; what the module
  does otherwise is listed below.
* `vector`: bytes of two bits, `VLENB` 4, `ELEN` 4, eight registers: groups of
  up to eight registers, fractional groups and three widths of elements are in reach.
  `MaxSetVl` 2 type changes, `Draws` 10 register contents. Two harts
  with `INTERLEAVE` 3 and `MaxShared` 7 steps. Two of 589 instruction files always
  trap in this instance (`vsext_vf8`, `vzext_vf8` need ELEN 64 over bytes).
* `oracle`: `MaxLen` 3 instructions, `MaxEvents` 3 late results, exceptions and
  other events, a scoreboard window of 3, three values of which one is a
  negative zero and one a NaN.

`CHECK_DEADLOCK FALSE` is set where the program stops or the behaviour is one
call: `calls` (all processes dead), `multicore` and `abnormal_child` (run over),
`fuzz_loop` (the last run), `softfloat`, `hart`, `debug`, `vector` and `oracle`
(program, operations or instruction over).

### Fairness

* `host`: every coroutine is resumed at each clock edge and the tile takes and
  answers what it is sent (weak fairness). Answers to probes compete with
  releases for channel C; arbitration in hardware is fair, hence strong
  fairness for the answer of each source. The host polls every cycle. Nothing forces a program to write
  tohost: a test may run out of cycles.
* `multicore`: the operating system schedules the parent and each child (weak
  fairness for each). Nothing forces a crash.
* `fuzz_loop`: the main thread starts its simulator or sees the compilation fail,
  compilers end, timer threads are scheduled. A simulator need never
  end by itself.
* `debug`: each hart runs, idle cycles pass, the host thread takes its turn and
  is answered. Nothing forces the debugger to start an operation.

### Cases the properties set aside

Each is a defect of the code or a case in which it promises nothing, named in
the property.

* `TohostSeen` and `InterfaceKept` are about tests that begin with a `host_interface` that can
  probe tohost (not `lost`). `start` sets neither `probe_en` nor `ongoing_tlc`
  (adapter.py:89–94): after a test that was stopped before its probe of tohost was
  answered `probe_en` stays FALSE, and after one that was stopped before the core acknowledged
  a grant of tohost's block that block stays in `ongoing_tlc` until a grant
  with the same sink. Later tests then never see tohost and run to the limit.
* `MulticoreEnds` asks for room in the shared word: OverflowError leaves a
  semaphore taken by a child that may exit with 0, and the others wait for ever.
* `CallReturns` asks that the simulator has started before the timer fires: a timer that
  finds no child kills nothing, and a simulator that then hangs is not stopped.
* `RetiredCounted` excludes `stale`: a CSR instruction runs in two passes, and a
  trap between them leaves `serialized` set; a later write of minstret is then
  followed by an increment, against the comment at spike/riscv/processor.cc:954.
* `StepsOnce` excludes `broke`: a single step over an ebreak that enters debug
  mode enters it twice; one ended by a trigger that enters it is not ended by the step; a debugger
  may write `dpc`; and a halt between the two passes of a CSR instruction leaves
  `serialized` set, which delays the end of a step unless the ROM's own CSR instructions
  have used it up before their DRET.
* `TLBCurrent` excludes accesses under MPRV: `refill_tlb` keeps one `tlb_data` for
  the load, store and fetch tags of an entry, which MPRV can give different pages.
* `SavedCsrsRestore` excludes htval (its write goes to htinst), minstret (it counts), misa
  and dcsr (fields with rules of their own).
* `RestartExact` excludes vector atomics: `VI_AMO` (spike/riscv/decode.h) does not
  set `vstart`, so after a fault the elements before it are done again.
* `AccessesExact` excludes `LosesCarry`: `sb_autoincrement` adds two 32-bit words before it
  widens the sum (spike/riscv/debug_module.cc:301), so the carry it looks for is always 0,
  and a block transfer across a 4 GiB boundary goes on at the start of the same 4 GiB.
* `FaultsReported` excludes `PassedOver`: an exception of Rocket at another pc is
  skipped, and late results after it are not skipped again. And `FirstFS`: where mstatus.FS
  differs, the comparison looks at the instruction of the row before (utils.py:289), and of the
  first row there is none: IndexError, caught by the bare `except` that ends the comparison
  with no mismatch.
* `SignatureFair` lets a mismatch be forgotten where a difference in the same group of registers
  is accepted after it, as the code does.

## Findings

* `stale_probe`: `host_interface` asserts that the block it probes is one of the
  test's. A test that timed out may leave a probe request behind, which `start`
  does not clear; the next test, whose blocks are others, fails the assertion.
* `abnormal_child`: a child that met an error calls `save_err` without its
  parameter `it`, which raises TypeError before `set_state`. The parent reads
  NORMAL and forks on, where `wait_check` means to stop with "Child {} is in
  abnormal state {}!". That exception also skips `cov_store` and
  `store_covmap`.

### Other observations

Met while translating, kept in the models as the code has them:

* *Logs.* The vendored Spike prints eight control registers per line
  (processor.cc:753–784), `CORE_RE` of spike_log_to_trace_csv.py wants nine: with that
  Spike no row is read and `trace_compare` compares nothing. The model is of a
  log the reader can parse (the Spike in use is the one `$SPIKE` names). Logs with all
  CSRs do not match either. An RTL trace shorter than Spike's, and a late
  result that never comes, are not reported. frm is never compared, nor fflags
  for Rocket; equal numbers or two NaNs forgive a whole line; an empty RTL log
  raises IndexError (utils.py:137).
* *Signatures.* An accepted difference resets the flag of a real one found
  before; for f registers the wrong flag is reset.
* *Transitions.* Values are joined without separators; scause is taken for mcause
  and the counter enables for medeleg. A test's transitions are stored before the RTL
  simulation, so when that raises they are lost for later tests.
* *Timers.* A late timer may kill a later test's compiler (compiled again) or
  elf2hex, whose exit code is ignored.
* *SoftFloat.* The fused operation that subtracts C returns C not negated for
  infinite and zero products; every caller passes the plain operation.
* *Hart.* A trap of a re-execution after a timing-1 trigger leaves `step`; `trigger_match` never
  clears `chain_ok`; a write of tdata2 does not flush the TLB; pages with several PMP
  regions get no trigger tags; misaligned hits load without a trap, and a misaligned store
  writes before it traps; an unsupported satp mode becomes 0; the test of HU for HLV and HSV is
  inverted; mret leaves MPRV and MPV; interrupts of HS in a guest are masked by
  the host's SIE; WFI does not count; debug mode leaves V set.
* *Debug.* An abstract command is complete at once when hartsel moves to
  another halted hart; a resume request to a running hart stays pending; a command
  between a resume request and its acknowledgement can leave the module busy; halt
  groups are lost on a write of dmcontrol (the TODO at debug_module.cc:211); reset keeps
  the GO flags; faults of system bus stores are not caught; the command register is overwritten
  while busy; an exception of the program buffer undoes an abstract write of s0; `modify_csr` of
  dtm.cc ORs the high word into the low one; `jtag_dtm_t::reset` does not select
  IDCODE; the server never closes on 'Q' and repeats the bytes of a partial write.
* *Instructions.* `VI_CHECK_LD_INDEX` ignores LMUL, so a segmented indexed load may
  overwrite its index; vrem of the smallest 64-bit number by -1 is undefined in C++;
  slides of floats set no flags; a reservation has no size, and stores of other
  harts do not clear it, only the end of a turn and sc do; a 128-bit store may
  write one half when the other faults; hlvx.wu on RV32 leaves a register
  not sign-extended.

## Proofs

All theorems hold for every value of the constants under the assumptions named
in the modules (`BeatsAssumption`, `SourcesAssumption`, `ManagerConstants`, ...,
`MutatorAssumption`: sizes are natural numbers, sets are subsets of what they
are taken from, `None` is no member).

* `TLTile_proofs`: `TypeCorrect` (`TypeOK`), `SourcesNeverLost`
  (`ProbeSources`), `CountersAgree` (`BurstsCounted`). The invariant is
  `IInv == TypeOK /\ ProbeSources /\ BurstsCounted`. A probe source passes from
  the free list to the queue, the port, the tile and an answer. An answer with
  data spans several steps, and it is the last beat that gives the source
  back: that this is the beat the tile counts as last is `BurstsCounted`, so
  neither is inductive without the other. The lemmas treat the free list with
  its waiting requests as one engine that moves one source per step.
* `TLData_proofs`: `DataInductive`, `GrantSinksHeld` (`GrantSinks`),
  `OwnersNeverForgotten` (`OwnersKnown`), `DataNeverStale` (`DataFresh`),
  `RetrievalInductive`, `RetrievalEndsComplete` (`RetrievalComplete`).
  `DataIInv` is a chain, each link of which needs the one before. `OneAnswer`:
  a request of channel A is answered by one callback, one queued message or
  the port, never two. `Misses`: so a grant on its way finds its miss as
  it was, and no other miss asks for the block. `SinksHeld`: so each miss has
  a sink of its own; it is existential, because until the grant is sent no variable but
  the callback tells which. `Owners`: so the grant that makes the tile an owner
  has marked the block TRUNK, and no ProbeAck overtakes it. `Versions`: so memory holds
  the last store wherever no cache line is modified or being sent. `Probed`: the
  callback of a probe reads the block that was probed, also after the request waited
  for a source. `Requested`: so an answer is not older than its request and its beats
  are of one version. `GrantSinksHeld` assumes no fewer sinks than misses;
  with the 4 sinks of adapter.py:284 that is a core of at most 4 misses.
  `Retrieval` adds what the chain of probes has still to reach: each block that is
  older in memory than the retriever's list is the one being probed or in the list
  the callback carries on (`Placed`), so the callback with an empty list, which turns
  `drive` off, leaves none. `NoRecordAssumption`: `None` is no record.
* `RTLHost_proofs`: `HostTypeCorrect`; with the lemma `HostIsTile`, which carries the results
  about `TLTile` over, `HostSourcesNeverLost`, `HostGrantSinksHeld` and
  `HostDataNeverStale`; `SignatureAlwaysComplete` (`SignatureComplete`) and
  `InterfaceAlwaysKept` (`InterfaceKept`). `Exits`: tohost is in memory only
  after its store, so `atExit` is settled when the poll sees it, and the retriever, which
  runs after the stop, takes a list that is no older. `Interface`, for the tests that
  began with a free interface: the probe of tohost is asked for once (`AwaitsOnce`),
  since the answer to a second one would set `probe_en` while a later probe is still
  awaited; and tohost's block is in `ongoing_tlc` only under a sink its miss has taken
  (`TakenFor`), which needs `SinksHeld`.
* `ProcCalls_proofs`: `CallsTypeCorrect`, `IdsNeverShared`, `StatesNeverLost`
  (`StatesKept`), `CoverageNeverLost` (`CoverageKept`), `CoverageLogGrows`
  (`LogGrows`), and `ImplementsDispenser` (`IsDispenser`): the refinement of `IdDispenser` with
  `next` mapped to the shared word. `CallsIInv` rests on mutual exclusion
  (`Held`): a held semaphore is 0 and has one holder, dead or alive. From it
  follows that what a process read is still in memory when it writes
  (`NumIsNext`, `SeenIsCurrent`, `CoverageHeld`). For the log, `LogCovered`: the sum
  a merge carries is the number of pairs (file, point) its files are left with,
  and the last line counts no more than the pairs in the files. A merge that dies
  in the middle leaves `covMap` taken, so nobody logs after it: without that the
  line would not be the last word on the files.
* `Multicore_proofs`: `MulticoreTypeCorrect`, `NothingIsShared`
  (`NothingShared`), `NoOrphansLeft` (`NoOrphans`). `MulticoreIInv` has three
  parts. `Parents`: a slot of `proc_pid_arr` and the child in it name each
  other, and the loop that kills has passed only slots that are free or dead.
  `Numbers`: the mutual exclusion of `ProcCalls` here for the calls the parent
  and the children make (`Mutex`, `Protocol`), and the numbers owned between
  `read_num` and the save: below the shared word, not saved yet and owned by one
  child (`Saving`). The word and the files agree only through the owner, so
  `NothingShared` alone is not inductive.
* `FuzzLoop_proofs`, first the mutator: `MutatorTypeCorrect`, `TestsEnd` (no loops), `TestsCompile`
  (labels defined), `TestsWellFormed` (`WellFormed`, both), `SeedsStayKnown`
  (`SeedsKnown`). Labels of a test are positions; in any list that is about to
  be numbered again (`Draft`) the old words stand in the order of their old
  labels, so the map from old to new labels is monotone and a jump that went
  forward still does. A full list of seeds takes out the seed it puts back,
  and a used one is rotated to the end, so none is lost.
  Then the loop around it: `LoopTestsWellFormed` and `LoopSeedsKnown`, by the lemma
  `LoopUsesMutator` (each step of the loop is one of `Mutator` or leaves it alone), and
  `KeptForWhatItDid` (`KeptRan`). `LoopIInv` says that a child that is up
  is the one the current call waits for, so a late timer that kills it is seen
  as -9 when that call returns (`ChildWaitedFor`, `KillSeen`), that a call that
  returned NORMAL was not killed (`Results`), and that the transitions at hand
  are those of no kept test (`NewTransitions`, `KeptTests`).
* `Hart_proofs`: `CountInductive`, `RetiredAlwaysCounted` (`RetiredCounted`). `RetiredCounted`
  alone is not inductive: a CSR instruction ends the batch with `serialized` set, so
  `CountIInv` adds that this instruction is then the next to run (`retry`), that between
  calls and at the head of the loop no instruction is uncounted, and that a trigger is
  remembered (`matched`) no longer than one pass. Most of the proof shows, operator by
  operator, that registers, traps, memory accesses and instructions leave counter and flag
  alone (`Keeps`, `Leaves`), except the two that are meant to change them. `HartSpec` starts
  on any hart that is `Ready`; reset, the boot code's writes of registers and MRET
  make one (`ResetReady`, `WriteReady`, `MretReady`). `CodeAssumption` says that a program is
  made of the modelled instructions and that `minstret` is written by csrrw, since the
  model's csrrs and csrrc work on registers that are sets of bits.

  In the same module `PrivilegesInductive` and `PrivilegesMove` (`PrivilegeMoves`, the
  three action properties on privilege). That MRET, SRET or a delegated trap goes where
  it should is no fact about one step: where the interrupted context is saved depends on
  what has happened since. `PrivIInv` follows it. For each mode that handles traps, a frame of
  the hart names the context a trap interrupted; `FramesHold` says that `mepc` and `mstatus`
  hold the frame of M (`SavedM`), that the registers of S hold that of HS
  (`SavedHS`) and `vsstatus` that of VS (`SavedVS`), the last two exchanged while a guest
  runs; `Sound` adds that the modes in these fields exist on the hart. Below it,
  one lemma per register, trap, return and instruction says what it does to the
  frames: nothing (`Quiet`), a move the properties allow (`Moves`), or one of them and then nothing
  (`Does`). `SoundSpec` starts on a hart that is `Ready` and `Sound`: `ResetSound`,
  `WriteSound` and `BootMretSound` show that reset and the boot code give one.
  `FieldsAssumption` says that what a program writes to mstatus, hstatus and dcsr fits the
  fields, and that no program takes H out of misa: with H cleared while MPV is
  set, an MRET enters a guest on a hart that has none.
  And `StepInductive`, `SteppedOnce` (`StepsOnce`). A step is spread over three turns of the
  loop at least: DRET, the instruction, the pass that finds `STEP_STEPPED`; two passes
  for a CSR instruction, an interrupt before it, a trap in it or the end of a batch
  come between. `InStep` says where the hart is meanwhile: about to make the step and
  nothing counted; between the passes, with `serialized` set and the instruction
  to run again known (`retry`); or done, with one instruction counted. In each the pc is the
  one that follows in the program, and debug mode puts that in `dpc`.
  Most of the proof is that nothing but DRET, the loop and the entry into debug mode touches
  `single_step` and `debug_mode`, nor `dpc` but a write of it (`KeepsMode`, `KeepsStep`),
  for which the lemmas of the count and the frames are carried further.
* `DebugSystem_proofs`: `AccountInductive`, `HartsStayAccounted` (`HartsAccounted`, for each
  of the four debuggers). That no hart runs a command while the module is
  not busy is not kept by a step on its own: busy falls when the command has
  completed, which the module learns from a store of the *selected* hart, and a
  debugger may select another and resume the first meanwhile. `Safe` is what makes
  it impossible: a hart in a command is the selected one, has not completed it, is halted
  and has not been asked to resume; a hart the module calls halted is neither in its
  program nor on its way there; one that is leaving the ROM still has its RESUME
  flag. The free debugger keeps to the debug specification (it leaves `dmcontrol` alone while a
  command runs, and resumes only a hart that is halted) and switches on no
  auto-execution for the program buffer; the proof uses all three.
  The debuggers `bus` and `jtag` ask nothing of a hart (`Unasked`).
  The front end's host thread is held to nothing: that it writes `dmcontrol` only when no
  command runs, and starts a command only when no resumption is asked, is proved from the
  order of its requests and polls. `InMode` says what the thread knows of the module at
  each request (that it waits for a halt, owns a halted hart, waits for a command or for a resumption, ...)
  while harts and idle cycles go on (`InModeDrifts`); `Step` says which mode each request with its
  response takes it to; `Path` says that a script goes from one mode to another, with one
  lemma for each helper and operation of `Dtm`, and `Pending` that what is left of the
  running script is a path back to idle. The loops over the data and the harts are
  pseudo-requests that unroll by one element (`Unrolled`), so a path through a loop needs no
  induction. `ConfigAssumption`: the number of harts is natural and the harts that
  exist have ids; `TasksAssumption`: the host's operations are the five of dtm_t.

Only model-checked:

* the properties of `softfloat` and `vector`: `Ieee754`, `VectorUnit` and what reaches them are recursive;
* those of `oracle`: folds over the rows of a log, so induction over data;
* of `debug`, `RegistersReturned`, `AccessesExact` and `CommandsExact`: the values that
  come back, over all elements of an operation, so induction over data;
* of `hart`, `TLBCurrent` and `SavedCsrsRestore`. `TLBCurrent` relates each entry of the TLB to a walk
  of the page tables made now: a recursion over the levels, on addresses cut at powers
  of two that are constants, which is beyond the provers' arithmetic. `SavedCsrsRestore` is
  not true of every program: after C or H is cleared in misa, or with an odd address
  written to mepc, what is read back differs from what was saved; the run's programs
  do neither;
* all liveness (fairness and ENABLED).

## Not modelled

* *Minimizer.* It cannot run: it calls `preprocessor.process` without two
  arguments (Minimizer.py:97) and `check_intr` with three it does not take
  (Minimizer.py:110), so the first word it tries raises TypeError. `make_nop` and `delete_nop` have
  no other caller.
* *Options and start-up, test templates, the restructured copy.* No state after
  the start; code of the simulated core; the same program a second time.
* *Simulator front end and devices.* Proxied system calls, ELF loading, device tree, prompt:
  input and output around the harts. Of sim.cc the turns of harts, of
  clint.cc msip are modelled.
* *Disassembler, encodings, opcode cache.* Tables of names and bit patterns; an
  instruction at a pc is a record of its fields.
* Within modelled parts: contents and most names of files (`save_mismatch`,
  `cov_store`), the free IPC key loop, `check_intr`, BlackParrot's comparison,
  regular expressions, random choice of instructions and operands, dirty bits
  of mstatus and the check of its VS field, misaligned accesses of scalar instructions (they
  trap in `Scalar`; `HartMmu` has those that hit the TLB), the commit log, `icache` and fence.i of a hart in debug mode, tables behind the
  estimates of division and square root (the estimate is taken as exact with a
  sticky bit), elements of 64 bits in the vector instance.
* Hazards without a property are in PROJECT.json with the reason.

## Plan

Left, in this order: the flushes under `TLBCurrent`; lemmas about the operators
of `Oracle` that are not recursive. Then directories with gaps at the start, the file
names of two children that share a directory, the opcode cache, and the
minimizer once it runs.
