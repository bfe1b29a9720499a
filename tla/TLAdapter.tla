----------------------------- MODULE TLAdapter -----------------------------
(***************************************************************************)
(* The TileLink slave that the RTL host attaches to the tile under test    *)
(* (RTLSim/src/adapters/tilelink): a memory, one permission per block, the *)
(* pools of probe sources and of grant sinks, the callbacks that wait for  *)
(* the answer of a probe, and the queues of the B and D channels.          *)
(*                                                                         *)
(* The code is a set of coroutines that the simulator resumes at every     *)
(* clock edge. Each operator below is the body of one of them between two  *)
(* yields; the messages that the tile sends are its parameters. Module     *)
(* TLTile supplies the tile and makes actions of the operators. The order  *)
(* in which the coroutines run within an edge is left open.                *)
(*                                                                         *)
(* A message is a record, a block's data a tuple with a version number per *)
(* beat. A burst is one entry of the D queue: its beats are pushed with    *)
(* one call and only the first one has a callback.                         *)
(***************************************************************************)
EXTENDS Integers, Sequences, FiniteSets

CONSTANTS
  Blocks,    \* block addresses
  Beats,     \* data beats per block: block_size / d_datalen
  Sinks,     \* ids of the grants awaiting their GrantAck: d_sinks
  BSrcs,     \* ids of the outstanding probes: b_srcs
  GSrcs,     \* channel A source ids of the uncached master
  MSHRs,     \* channel A source ids of the data cache: its misses in flight
  RelSrc,    \* source id of the voluntary releases on channel C
  None       \* no block, no message, no callback

ASSUME BeatsAssumption == Beats \in Nat \ {0}
ASSUME NoneAssumption  == /\ None \notin Blocks \cup Sinks \cup BSrcs \cup GSrcs \cup MSHRs
                          /\ RelSrc \notin BSrcs \cup GSrcs \cup MSHRs
                          /\ GSrcs \cap MSHRs = {}

VARIABLES
  drive,      \* the channel coroutines run
  retrieve,   \* the host asked for the cached data
  retrieved,  \* data_retriever took its snapshot and ended
  perm,       \* block_perm; "Absent" is a block that is not a key
  mem,        \* memory
  bch,        \* the probe engine: b_srcs, b_callback and b_queue
  bOut,       \* the message on the B port
  dQueue,     \* d_queue
  dOut,       \* the message on the D port and the beats of it sent
  dFree,      \* d_sinks.free_list
  ongoingTlc, \* ongoing_tlc: the block granted under each sink
  aOngoings,  \* a_port_monitor's ongoings: beats seen per source, 0 for none
  cOngoings,  \* c_port_monitor's ongoings
  probe, probeEn, probeAddr   \* the host's request to probe a block

aVars == <<drive, retrieve, retrieved, perm, mem, bch, bOut, dQueue, dOut, dFree,
           ongoingTlc, aOngoings, cOngoings, probe, probeEn, probeAddr>>
hostVars == <<drive, retrieve, retrieved, probe, probeEn, probeAddr>>

BeatNo    == 1..Beats
ASrcs     == GSrcs \cup MSHRs
CSrcs     == BSrcs \cup {RelSrc}

----------------------------------------------------------------------------
(* Messages. *)

DMsg(op, src) == [op |-> op, src |-> src, sink |-> None, block |-> None,
                  param |-> "none", data |-> <<>>]

\* get_d_messages: the beats of a block are read from memory when it is called
DataOf(m, b) == [i \in BeatNo |-> m[b][i]]

AccessAckData(src, data) == [DMsg("AccessAckData", src) EXCEPT !.data = data]

\* block and param are also the arguments of the callback updatePerm
Grant(op, src, sink, b, param, data) ==
  [DMsg(op, src) EXCEPT !.sink = sink, !.block = b, !.param = param, !.data = data]

BeatsOf(msg) == IF Len(msg.data) > 1 THEN Len(msg.data) ELSE 1

----------------------------------------------------------------------------
(* The probe engine: a pool of sources, a request that finds it empty      *)
(* waits in it, and a callback per probe in flight. Operators take and     *)
(* return the record bch, for callbacks call them in turn.                 *)

NoCallback == [kind |-> "none"]

\* what a callback is asked to do, and the probe that asks for it
Request(b, cap, then) == [block |-> b, cap |-> cap, then |-> then]

\* retrieveBlock_cb, FreeList.get takes any free source
Issue(st, rq) ==
  { [st EXCEPT !.free = @ \ {s}, !.callback[s] = rq.then,
               !.queue = Append(@, [src |-> s, block |-> rq.block, cap |-> rq.cap])]
    : s \in st.free }

\* retrieveBlock: the states it may lead to
RetrieveBlock(st, rq) ==
  IF st.free # {} THEN Issue(st, rq) ELSE {[st EXCEPT !.waiting = Append(@, rq)]}

\* mutants of Release: the reservation is not run; it is dropped with its source
Release_NoWake(st, s) == {[st EXCEPT !.free = @ \cup {s}]}
Release_Drops(st, s) ==
  {IF st.waiting = <<>> THEN [st EXCEPT !.free = @ \cup {s}] ELSE [st EXCEPT !.waiting = Tail(@)]}

\* FreeList.release on b_srcs: the source goes back, then one reservation runs
Release(st, s) ==
  LET back == [st EXCEPT !.free = @ \cup {s}]
  IN IF st.waiting = <<>> THEN {back}
     ELSE Issue([back EXCEPT !.waiting = Tail(@)], Head(st.waiting))

\* probe_blocks_rec, for a list whose order depends on a dict: any block is next
ProbeNext(st, rest) ==
  UNION { RetrieveBlock(st, Request(b, "toN", [kind |-> "probe_blocks", rest |-> rest \ {b}]))
          : b \in rest }

\* srcToCallback.call followed by b_srcs.release, as both ProbeAck handlers do
CallAndRelease(src) ==
  LET cb     == bch.callback[src]
      called == [bch EXCEPT !.callback[src] = NoCallback]
      chain  == cb.kind = "probe_blocks"
  IN /\ \E st \in IF chain /\ cb.rest # {} THEN ProbeNext(called, cb.rest) ELSE {called} :
          bch' \in Release(st, src)
     /\ drive' = (drive /\ ~(chain /\ cb.rest = {}))
     /\ probeEn' = (probeEn \/ cb.kind = "enableProbe")
     /\ dQueue' = CASE cb.kind = "AccessAckData_cb" ->
                         Append(dQueue, AccessAckData(cb.src, DataOf(mem', cb.block)))
                    [] cb.kind = "GrantData_cb" ->
                         Append(dQueue, Grant("GrantData", cb.src, cb.sink, cb.block,
                                              cb.param, DataOf(mem', cb.block)))
                    [] OTHER -> dQueue
     /\ ongoingTlc' = IF cb.kind = "GrantData_cb"
                      THEN [ongoingTlc EXCEPT ![cb.sink] = cb.block] ELSE ongoingTlc

----------------------------------------------------------------------------
(* a_port_monitor: the handlers of channel A. *)

\* block_perm.get(block_addr, TIP), stored back before the opcode is looked at
Touched(b)  == [perm EXCEPT ![b] = IF @ = "Absent" THEN "TIP" ELSE @]
IsTip_Always(b) == TRUE                                            \* mutant
IsTip(b)    == perm[b] # "TRUNK"
CapFor(grow) == IF grow = "NtoB" THEN "toB" ELSE "toT"

HandleGet(src, b) ==
  /\ drive
  /\ perm' = Touched(b)
  /\ IF IsTip(b)
     THEN /\ dQueue' = Append(dQueue, AccessAckData(src, DataOf(mem, b)))
          /\ UNCHANGED bch
     ELSE /\ bch' \in RetrieveBlock(bch, Request(b, "toT",
                        [kind |-> "AccessAckData_cb", src |-> src, block |-> b]))
          /\ UNCHANGED dQueue
  /\ UNCHANGED <<hostVars, mem, bOut, dOut, dFree, ongoingTlc, aOngoings, cOngoings>>

\* one beat of PutFullData or PutPartialData of n beats to a block that is TIP
HandlePut(src, b, n, value) ==
  LET count == aOngoings[src]
      last  == count + 1 = n
  IN /\ drive /\ IsTip(b)
     /\ perm' = Touched(b)
     /\ mem' = [mem EXCEPT ![b][count + 1] = value]
     /\ dQueue' = IF last THEN Append(dQueue, DMsg("AccessAck", src)) ELSE dQueue
     /\ aOngoings' = [aOngoings EXCEPT ![src] = IF last THEN 0 ELSE count + 1]
     /\ UNCHANGED <<hostVars, bch, bOut, dOut, dFree, ongoingTlc, cOngoings>>

\* ArithmeticData and LogicalData of one beat: the old value is the answer
HandleAtomic(src, b, value) ==
  /\ drive /\ IsTip(b)
  /\ perm' = Touched(b)
  /\ mem' = [mem EXCEPT ![b][1] = value]
  /\ dQueue' = Append(dQueue, AccessAckData(src, <<mem[b][1]>>))
  /\ UNCHANGED <<hostVars, bch, bOut, dOut, dFree, ongoingTlc, aOngoings, cOngoings>>

HandleIntent(src, b) ==
  /\ drive
  /\ perm' = Touched(b)
  /\ dQueue' = Append(dQueue, DMsg("HintAck", src))
  /\ UNCHANGED <<hostVars, mem, bch, bOut, dOut, dFree, ongoingTlc, aOngoings, cOngoings>>

HandleAcquireBlock(src, b, grow) ==
  \E sink \in dFree :
    /\ drive
    /\ dFree' = dFree \ {sink}
    /\ perm' = Touched(b)
    /\ IF IsTip(b)
       THEN /\ ongoingTlc' = [ongoingTlc EXCEPT ![sink] = b]
            /\ dQueue' = Append(dQueue, Grant("GrantData", src, sink, b, CapFor(grow),
                                              DataOf(mem, b)))
            /\ UNCHANGED bch
       ELSE /\ bch' \in RetrieveBlock(bch,
                 Request(b, IF grow = "NtoB" THEN "toB" ELSE "toN",
                         [kind |-> "GrantData_cb", src |-> src, sink |-> sink,
                          block |-> b, param |-> CapFor(grow)]))
            /\ UNCHANGED <<dQueue, ongoingTlc>>
    /\ UNCHANGED <<hostVars, mem, bOut, dOut, aOngoings, cOngoings>>

\* AcquirePerm of a block that is TIP; for others retrievePerm is missing
HandleAcquirePerm(src, b, grow) ==
  \E sink \in dFree :
    /\ drive /\ IsTip(b)
    /\ dFree' = dFree \ {sink}
    /\ perm' = Touched(b)
    /\ ongoingTlc' = [ongoingTlc EXCEPT ![sink] = b]
    /\ dQueue' = Append(dQueue, Grant("Grant", src, sink, b, CapFor(grow), <<>>))
    /\ UNCHANGED <<hostVars, mem, bch, bOut, dOut, aOngoings, cOngoings>>

----------------------------------------------------------------------------
(* c_port_monitor: the handlers of channel C. *)

Reported_Kept(report, b) ==   \* mutant: TtoT taken for a loss of ownership
  IF report \in {"TtoT", "TtoB", "TtoN"} THEN [perm EXCEPT ![b] = "TIP"] ELSE perm
Reported(report, b) == IF report \in {"TtoB", "TtoN"} THEN [perm EXCEPT ![b] = "TIP"] ELSE perm

HandleProbeAck(src, b, report) ==
  /\ drive
  /\ perm' = Reported(report, b)
  /\ UNCHANGED mem
  /\ CallAndRelease(src)
  /\ UNCHANGED <<retrieve, retrieved, probe, probeAddr, bOut, dOut, dFree, aOngoings, cOngoings>>

\* one beat of a ProbeAckData or ReleaseData burst enters memory
WriteBeat(src, b, value) == mem' = [mem EXCEPT ![b][cOngoings[src] + 1] = value]
LastBeat(src)  == cOngoings[src] + 1 = Beats
CountBeat_NoReset(src) == cOngoings' = [cOngoings EXCEPT ![src] = @ + 1]      \* mutant
CountBeat(src) == cOngoings' = [cOngoings EXCEPT ![src] = IF LastBeat(src) THEN 0 ELSE @ + 1]

HandleProbeAckData(src, b, report, value) ==
  /\ drive
  /\ WriteBeat(src, b, value)
  /\ CountBeat(src)
  /\ IF LastBeat(src)
     THEN perm' = Reported(report, b) /\ CallAndRelease(src)
     ELSE UNCHANGED <<drive, perm, bch, dQueue, ongoingTlc, probeEn>>
  /\ UNCHANGED <<retrieve, retrieved, probe, probeAddr, bOut, dOut, dFree, aOngoings>>

HandleRelease(src, b, report) ==
  /\ drive
  /\ perm' = Reported(report, b)
  /\ dQueue' = Append(dQueue, DMsg("ReleaseAck", src))
  /\ UNCHANGED <<hostVars, mem, bch, bOut, dOut, dFree, ongoingTlc, aOngoings, cOngoings>>

HandleReleaseData(src, b, report, value) ==
  /\ drive
  /\ WriteBeat(src, b, value)
  /\ CountBeat(src)
  /\ IF LastBeat(src)
     THEN /\ perm' = Reported(report, b)
          /\ dQueue' = Append(dQueue, DMsg("ReleaseAck", src))
     ELSE UNCHANGED <<perm, dQueue>>
  /\ UNCHANGED <<hostVars, bch, bOut, dOut, dFree, ongoingTlc, aOngoings>>

----------------------------------------------------------------------------
(* e_port_monitor: GrantAck. *)

\* mutants of HandleGrantAck: the sink is not released; ongoing_tlc keeps its block
HandleGrantAck_Leak(sink) ==
  /\ drive
  /\ ongoingTlc' = [ongoingTlc EXCEPT ![sink] = None]
  /\ UNCHANGED <<hostVars, perm, mem, bch, bOut, dQueue, dOut, dFree, aOngoings, cOngoings>>
HandleGrantAck_Stuck(sink) ==
  /\ drive
  /\ dFree' = dFree \cup {sink}
  /\ UNCHANGED <<hostVars, perm, mem, bch, bOut, dQueue, dOut, ongoingTlc, aOngoings, cOngoings>>

HandleGrantAck(sink) ==
  /\ drive
  /\ dFree' = dFree \cup {sink}
  /\ ongoingTlc' = [ongoingTlc EXCEPT ![sink] = None]
  /\ UNCHANGED <<hostVars, perm, mem, bch, bOut, dQueue, dOut, aOngoings, cOngoings>>

----------------------------------------------------------------------------
(* d_port_driver and b_port_driver: put the next message on the port, then *)
(* wait until the tile has taken all its beats.                            *)

\* the callback of a grant, updatePerm, runs when its first beat is popped
PopD ==
  /\ drive /\ dOut = None /\ dQueue # <<>>
  /\ dOut' = [msg |-> Head(dQueue), sent |-> 0]
  /\ dQueue' = Tail(dQueue)
  /\ perm' = IF Head(dQueue).param = "toT"
             THEN [perm EXCEPT ![Head(dQueue).block] = "TRUNK"] ELSE perm
  /\ UNCHANGED <<hostVars, mem, bch, bOut, dFree, ongoingTlc, aOngoings, cOngoings>>

LastSent == dOut.sent + 1 = BeatsOf(dOut.msg)

\* the tile takes one beat
FireD ==
  /\ drive /\ dOut # None
  /\ dOut' = IF LastSent THEN None ELSE [dOut EXCEPT !.sent = @ + 1]
  /\ UNCHANGED <<hostVars, perm, mem, bch, bOut, dQueue, dFree, ongoingTlc, aOngoings, cOngoings>>

PopB ==
  /\ drive /\ bOut = None /\ bch.queue # <<>>
  /\ bOut' = Head(bch.queue)
  /\ bch' = [bch EXCEPT !.queue = Tail(@)]
  /\ UNCHANGED <<hostVars, perm, mem, dQueue, dOut, dFree, ongoingTlc, aOngoings, cOngoings>>

FireB ==
  /\ drive /\ bOut # None
  /\ bOut' = None
  /\ UNCHANGED <<hostVars, perm, mem, bch, dQueue, dOut, dFree, ongoingTlc, aOngoings, cOngoings>>

----------------------------------------------------------------------------
(* data_retriever and host_interface. *)

\* probe_blocks: every block the tile may have modified, one probe at a time
DataRetriever ==
  LET trunk == {b \in Blocks : perm[b] = "TRUNK"}
  IN /\ retrieve /\ ~retrieved
     /\ retrieved' = TRUE
     /\ IF trunk = {} THEN drive' = FALSE /\ UNCHANGED bch
                      ELSE bch' \in ProbeNext(bch, trunk) /\ UNCHANGED drive
     /\ UNCHANGED <<retrieve, probe, probeEn, probeAddr, perm, mem, bOut, dQueue, dOut,
                    dFree, ongoingTlc, aOngoings, cOngoings>>

\* mutant of HostProbes: a probe that is not answered yet is sent again
HostProbes_Again == /\ drive /\ probe
                    /\ \A s \in Sinks : ongoingTlc[s] # probeAddr

\* the test at the top of host_interface's loop
HostProbes == /\ drive /\ probe /\ probeEn
              /\ \A s \in Sinks : ongoingTlc[s] # probeAddr

HostInterface ==
  /\ HostProbes
  /\ perm[probeAddr] = "TRUNK"
  /\ bch' \in RetrieveBlock(bch, Request(probeAddr, "toN", [kind |-> "enableProbe"]))
  /\ probe' = FALSE
  /\ probeEn' = FALSE
  /\ probeAddr' = None
  /\ UNCHANGED <<drive, retrieve, retrieved, perm, mem, bOut, dQueue, dOut, dFree,
                 ongoingTlc, aOngoings, cOngoings>>

----------------------------------------------------------------------------
(* What the host calls. *)

ZeroMem    == [b \in Blocks |-> [i \in BeatNo |-> 0]]
IdleProbes == [free |-> BSrcs, waiting |-> <<>>, queue |-> <<>>,
               callback |-> [s \in BSrcs |-> NoCallback]]

\* start and drive_input, with a memory that has the addresses of mapped
StartAdapter(mapped) ==
  /\ drive' = TRUE
  /\ retrieve' = FALSE
  /\ retrieved' = FALSE
  /\ perm' = [b \in Blocks |-> IF b \in mapped THEN "TIP" ELSE "Absent"]
  /\ mem' = ZeroMem
  /\ bch' = IdleProbes
  /\ dQueue' = <<>>
  /\ dFree' = Sinks
  /\ bOut' = None /\ dOut' = None   \* the tile is in reset meanwhile
  /\ aOngoings' = [s \in ASrcs |-> 0]
  /\ cOngoings' = [s \in CSrcs |-> 0]
  /\ UNCHANGED <<ongoingTlc, probe, probeEn, probeAddr>>

ProbeBlock(b) ==
  /\ probe' = TRUE
  /\ probeAddr' = b
  /\ UNCHANGED <<drive, retrieve, retrieved, probeEn, perm, mem, bch, bOut, dQueue, dOut,
                 dFree, ongoingTlc, aOngoings, cOngoings>>

StopAdapter ==
  /\ retrieve' = TRUE
  /\ UNCHANGED <<drive, retrieved, probe, probeEn, probeAddr, perm, mem, bch, bOut, dQueue,
                 dOut, dFree, ongoingTlc, aOngoings, cOngoings>>

\* __init__, no test was started
InitAdapter ==
  /\ drive = FALSE /\ retrieve = FALSE /\ retrieved = FALSE
  /\ perm = [b \in Blocks |-> "Absent"]
  /\ mem = ZeroMem
  /\ bch = IdleProbes
  /\ bOut = None /\ dQueue = <<>> /\ dOut = None /\ dFree = Sinks
  /\ ongoingTlc = [s \in Sinks |-> None]
  /\ aOngoings = [s \in ASrcs |-> 0] /\ cOngoings = [s \in CSrcs |-> 0]
  /\ probe = FALSE /\ probeEn = TRUE /\ probeAddr = None
=============================================================================
