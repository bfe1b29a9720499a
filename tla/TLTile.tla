------------------------------- MODULE TLTile -------------------------------
(***************************************************************************)
(* The adapter of module TLAdapter with the tile under test behind its     *)
(* ports. The tile is hardware and not part of the repository: it is       *)
(* described by what the TileLink protocol lets a tile with one coherent   *)
(* data cache and one uncached master (instruction fetch, device access)   *)
(* do. What is stored is a version number: latest[b] counts the stores to  *)
(* block b, wherever the current copy is.                                  *)
(*                                                                         *)
(* The host is present with all that it may do at any time: start a test,  *)
(* ask for a probe, stop the test. Module RTLHost says when it does.       *)
(***************************************************************************)
EXTENDS TLAdapter

CONSTANTS
  Uncached,  \* the blocks that are never cached
  Tohosts,   \* the blocks that may hold tohost
  Images,    \* the sets of blocks that the memory image of a test may cover
  Programs,  \* the sets of blocks that the program of a test may access
  MaxVer     \* bound: stores to each block in a test

ASSUME SourcesAssumption == /\ Uncached \subseteq Blocks
                            /\ Tohosts \subseteq Blocks \ Uncached
                            /\ Images \subseteq SUBSET Blocks
                            /\ Programs \subseteq SUBSET Blocks
                            /\ MaxVer \in [Blocks -> Nat]

VARIABLES
  line,     \* the cache's state of each block: N, B, T, or D when T and modified
  latest,   \* the number of stores each block has seen
  mshr,     \* the miss of each MSHR: its block, and the sink once it is granted
  gets,     \* the request each uncached source waits for
  aBurst,   \* the multi-beat Put being sent on channel A
  cBurst,   \* the data burst being sent on channel C
  rel,      \* the block whose ReleaseAck is awaited
  pend,     \* the probes received and not answered
  snap,     \* latest when the retriever took its snapshot (history variable)
  reach     \* the blocks that the program accesses

tVars == <<line, latest, mshr, gets, aBurst, cBurst, rel, pend, snap, reach>>
vars  == <<aVars, tVars>>

Cacheable == Blocks \ Uncached
OnGoing   == aBurst # None \/ cBurst # None   \* onGoing: a or c valid

NoLine == [b \in Blocks |-> "N"]
Zero   == [b \in Blocks |-> 0]
NoMiss == [m \in MSHRs |-> None]
NoGet  == [g \in GSrcs |-> None]

InitTile ==
  /\ line = NoLine /\ latest = Zero /\ mshr = NoMiss /\ gets = NoGet
  /\ aBurst = None /\ cBurst = None /\ rel = None /\ pend = {} /\ snap = Zero
  /\ reach = {}

ResetTile ==
  /\ line' = NoLine /\ latest' = Zero /\ mshr' = NoMiss /\ gets' = NoGet
  /\ aBurst' = None /\ cBurst' = None /\ rel' = None /\ pend' = {} /\ snap' = Zero

Init == InitAdapter /\ InitTile

----------------------------------------------------------------------------
(* Channel A: the uncached master. *)

Free(g, b) == aBurst = None /\ gets[g] = None /\ b \in reach
Expect(g, op, b) == gets' = [gets EXCEPT ![g] = [op |-> op, block |-> b, ver |-> latest[b]]]

Get(g, b) ==
  /\ Free(g, b)
  /\ Expect(g, "Get", b)
  /\ HandleGet(g, b)
  /\ UNCHANGED <<line, latest, mshr, aBurst, cBurst, rel, pend, snap, reach>>

Intent(g, b) ==
  /\ Free(g, b)
  /\ Expect(g, "Intent", b)
  /\ HandleIntent(g, b)
  /\ UNCHANGED <<line, latest, mshr, aBurst, cBurst, rel, pend, snap, reach>>

Atomic(g, b) ==
  /\ Free(g, b) /\ b \in Uncached /\ latest[b] < MaxVer[b]
  /\ latest' = [latest EXCEPT ![b] = @ + 1]
  /\ Expect(g, "Atomic", b)
  /\ HandleAtomic(g, b, latest[b] + 1)
  /\ UNCHANGED <<line, mshr, aBurst, cBurst, rel, pend, snap, reach>>

\* a Put of all beats of a block; the new version counts once it is complete
PutFirst(g, b) ==
  /\ Free(g, b) /\ b \in Uncached /\ latest[b] < MaxVer[b]
  /\ Expect(g, "Put", b)
  /\ aBurst' = IF Beats = 1 THEN None ELSE [src |-> g, block |-> b, sent |-> 1]
  /\ latest' = IF Beats = 1 THEN [latest EXCEPT ![b] = @ + 1] ELSE latest
  /\ HandlePut(g, b, Beats, latest[b] + 1)
  /\ UNCHANGED <<line, mshr, cBurst, rel, pend, snap, reach>>

PutBeat ==
  /\ aBurst # None
  /\ LET done == aBurst.sent + 1 = Beats
         b    == aBurst.block
     IN /\ aBurst' = IF done THEN None ELSE [aBurst EXCEPT !.sent = @ + 1]
        /\ latest' = IF done THEN [latest EXCEPT ![b] = @ + 1] ELSE latest
        /\ HandlePut(aBurst.src, b, Beats, latest[b] + 1)
  /\ UNCHANGED <<line, mshr, gets, cBurst, rel, pend, snap, reach>>

----------------------------------------------------------------------------
(* Channel A: the data cache. One miss per block, none for a block whose   *)
(* release is not acknowledged.                                            *)

Sending(b) == cBurst # None /\ cBurst.block = b
Missing(b) == \E m \in MSHRs : mshr[m] # None /\ mshr[m].block = b
MayAcquire(m, b) == /\ mshr[m] = None /\ aBurst = None
                    /\ b \in Cacheable \cap reach /\ ~Missing(b) /\ rel # b

AcquireBlock(m, b, grow) ==
  /\ MayAcquire(m, b)
  /\ IF grow = "BtoT" THEN line[b] = "B" ELSE line[b] = "N"
  /\ mshr' = [mshr EXCEPT ![m] = [block |-> b, sink |-> None]]
  /\ HandleAcquireBlock(m, b, grow)
  /\ UNCHANGED <<line, latest, gets, aBurst, cBurst, rel, pend, snap, reach>>

\* the cache is about to overwrite the whole block and asks for no data; it may
\* not do so while it is still sending the block back
AcquirePerm(m, b) ==
  /\ MayAcquire(m, b)
  /\ line[b] = "N" /\ latest[b] < MaxVer[b]
  /\ ~Sending(b)
  /\ mshr' = [mshr EXCEPT ![m] = [block |-> b, sink |-> None]]
  /\ HandleAcquirePerm(m, b, "NtoT")
  /\ UNCHANGED <<line, latest, gets, aBurst, cBurst, rel, pend, snap, reach>>

Store(b) ==
  /\ drive
  /\ line[b] \in {"T", "D"} /\ latest[b] < MaxVer[b]
  /\ ~Sending(b)
  /\ line' = [line EXCEPT ![b] = "D"]
  /\ latest' = [latest EXCEPT ![b] = @ + 1]
  /\ UNCHANGED <<aVars, mshr, gets, aBurst, cBurst, rel, pend, snap, reach>>

----------------------------------------------------------------------------
(* Channels B and C: probes and releases. *)

ReceiveProbe ==
  /\ FireB
  /\ pend' = pend \cup {bOut}
  /\ UNCHANGED <<line, latest, mshr, gets, aBurst, cBurst, rel, snap, reach>>

Level(l) == IF l = "D" THEN "T" ELSE l

\* the state a probe leaves and the report: <<old, cap>> to <<new, report>>
Shrink(l, cap) ==
  CASE Level(l) = "T" /\ cap = "toT" -> <<"T", "TtoT">>
    [] Level(l) = "T" /\ cap = "toB" -> <<"B", "TtoB">>
    [] Level(l) = "T" /\ cap = "toN" -> <<"N", "TtoN">>
    [] l = "B" /\ cap = "toN"        -> <<"N", "BtoN">>
    [] l = "B" /\ cap # "toN"        -> <<"B", "BtoB">>
    [] l = "N"                       -> <<"N", "NtoN">>

Arriving(b) == dOut # None /\ dOut.msg.block = b /\ dOut.sent > 0

\* a probe waits for the acknowledgement of a release and for the end of a grant
\* that is arriving
MayAnswer(p) ==
  /\ drive /\ cBurst = None /\ rel # p.block
  /\ ~Arriving(p.block)

ProbeAck(p) ==
  /\ MayAnswer(p) /\ line[p.block] # "D"
  /\ pend' = pend \ {p}
  /\ line' = [line EXCEPT ![p.block] = Shrink(@, p.cap)[1]]
  /\ HandleProbeAck(p.src, p.block, Shrink(line[p.block], p.cap)[2])
  /\ UNCHANGED <<latest, mshr, gets, aBurst, cBurst, rel, snap, reach>>

StartProbeAckData(p) ==
  /\ MayAnswer(p) /\ line[p.block] = "D"
  /\ pend' = pend \ {p}
  /\ line' = [line EXCEPT ![p.block] = Shrink(@, p.cap)[1]]
  /\ cBurst' = [op |-> "ProbeAckData", src |-> p.src, block |-> p.block,
                report |-> Shrink(line[p.block], p.cap)[2], sent |-> 0]
  /\ UNCHANGED <<aVars, latest, mshr, gets, aBurst, rel, snap, reach>>

MayRelease(b) == /\ drive /\ cBurst = None /\ rel = None
                 /\ line[b] # "N" /\ ~Missing(b)

ReleaseClean(b) ==
  /\ MayRelease(b) /\ line[b] # "D"
  /\ line' = [line EXCEPT ![b] = "N"]
  /\ rel' = b
  /\ HandleRelease(RelSrc, b, Shrink(line[b], "toN")[2])
  /\ UNCHANGED <<latest, mshr, gets, aBurst, cBurst, pend, snap, reach>>

StartReleaseData(b) ==
  /\ MayRelease(b) /\ line[b] = "D"
  /\ line' = [line EXCEPT ![b] = "N"]
  /\ rel' = b
  /\ cBurst' = [op |-> "ReleaseData", src |-> RelSrc, block |-> b,
                report |-> "TtoN", sent |-> 0]
  /\ UNCHANGED <<aVars, latest, mshr, gets, aBurst, pend, snap, reach>>

\* the next beat of the burst on channel C
BurstBeat ==
  /\ cBurst # None
  /\ cBurst' = IF cBurst.sent + 1 = Beats THEN None ELSE [cBurst EXCEPT !.sent = @ + 1]
  /\ LET b == cBurst.block
     IN \/ /\ cBurst.op = "ProbeAckData"
           /\ HandleProbeAckData(cBurst.src, b, cBurst.report, latest[b])
        \/ /\ cBurst.op = "ReleaseData"
           /\ HandleReleaseData(cBurst.src, b, cBurst.report, latest[b])
  /\ UNCHANGED <<line, latest, mshr, gets, aBurst, rel, pend, snap, reach>>

----------------------------------------------------------------------------
(* Channels D and E: the answer of the adapter, and GrantAck. *)

GetsGrant(msg) == msg.op \in {"Grant", "GrantData"}

ReceiveD ==
  /\ FireD
  /\ LET msg == dOut.msg
     IN IF ~LastSent THEN UNCHANGED <<line, latest, mshr, gets, rel>>
        ELSE /\ line' = IF ~GetsGrant(msg) THEN line
                        ELSE [line EXCEPT ![msg.block] =
                                IF msg.op = "Grant" THEN "D"
                                ELSE IF msg.param = "toT" THEN "T" ELSE "B"]
             /\ latest' = IF msg.op = "Grant" THEN [latest EXCEPT ![msg.block] = @ + 1]
                          ELSE latest
             /\ mshr' = IF ~GetsGrant(msg) THEN mshr
                        ELSE [mshr EXCEPT ![msg.src] = [block |-> msg.block, sink |-> msg.sink]]
             /\ gets' = IF msg.src \in GSrcs THEN [gets EXCEPT ![msg.src] = None] ELSE gets
             /\ rel' = IF msg.op = "ReleaseAck" THEN None ELSE rel
  /\ UNCHANGED <<aBurst, cBurst, pend, snap, reach>>

GrantAck(m) ==
  /\ mshr[m] # None /\ mshr[m].sink # None
  /\ mshr' = [mshr EXCEPT ![m] = None]
  /\ HandleGrantAck(mshr[m].sink)
  /\ UNCHANGED <<line, latest, gets, aBurst, cBurst, rel, pend, snap, reach>>

----------------------------------------------------------------------------
(* The adapter's own coroutines, and the host. *)

DriveD == PopD /\ UNCHANGED tVars
DriveB == PopB /\ UNCHANGED tVars

Retrieve == /\ DataRetriever
            /\ snap' = latest
            /\ UNCHANGED <<line, latest, mshr, gets, aBurst, cBurst, rel, pend, reach>>

ProbeTohost == HostInterface /\ UNCHANGED tVars

HostStart(mapped) == ~drive /\ StartAdapter(mapped) /\ ResetTile /\ reach' \in Programs
HostProbe(b)      == drive /\ ~retrieve /\ ProbeBlock(b) /\ UNCHANGED tVars
HostStop          == drive /\ ~retrieve /\ ~OnGoing /\ StopAdapter /\ UNCHANGED tVars

Uncaching == \/ \E g \in GSrcs, b \in Blocks : Get(g, b) \/ Intent(g, b)
             \/ \E g \in GSrcs, b \in Uncached : Atomic(g, b) \/ PutFirst(g, b)
             \/ PutBeat
Caching   == \/ \E m \in MSHRs, b \in Cacheable :
                  \/ \E grow \in {"NtoB", "NtoT", "BtoT"} : AcquireBlock(m, b, grow)
                  \/ AcquirePerm(m, b)
             \/ \E b \in Cacheable : Store(b) \/ ReleaseClean(b) \/ StartReleaseData(b)
             \/ \E m \in MSHRs : GrantAck(m)
Answering == \/ ReceiveProbe \/ BurstBeat \/ ReceiveD
             \/ \E p \in pend : ProbeAck(p) \/ StartProbeAckData(p)
Adapter   == DriveD \/ DriveB \/ Retrieve \/ ProbeTohost
Running   == Uncaching \/ Caching \/ Answering \/ Adapter

Next == \/ Running
        \/ \E mapped \in Images : HostStart(mapped)
        \/ \E b \in Tohosts : HostProbe(b)
        \/ HostStop

Spec == Init /\ [][Next]_vars

----------------------------------------------------------------------------
(* Type correctness. *)

Pending   == {[kind |-> "enableProbe"]}
       \cup [kind : {"AccessAckData_cb"}, src : GSrcs, block : Blocks]
       \cup [kind : {"GrantData_cb"}, src : MSHRs, sink : Sinks, block : Blocks,
             param : {"toT", "toB"}]
       \cup [kind : {"probe_blocks"}, rest : SUBSET Blocks]
Callbacks == Pending \cup {NoCallback}
Caps      == {"toT", "toB", "toN"}
Requests  == [block : Blocks, cap : Caps, then : Pending]
Probes    == [src : BSrcs, block : Blocks, cap : Caps]
Engines   == [free : SUBSET BSrcs, waiting : Seq(Requests), queue : Seq(Probes),
              callback : [BSrcs -> Callbacks]]
Answers   == [op : {"AccessAckData", "AccessAck", "HintAck", "ReleaseAck"},
              src : GSrcs \cup {RelSrc}, sink : {None}, block : {None},
              param : {"none"}, data : Seq(Nat)]
Grants    == [op : {"Grant", "GrantData"}, src : MSHRs, sink : Sinks, block : Blocks,
              param : {"toT", "toB"}, data : Seq(Nat)]
DMessages == Answers \cup Grants
AckBursts == [op : {"ProbeAckData"}, src : BSrcs, block : Blocks,
              report : {"TtoT", "TtoB", "TtoN"}, sent : 0..(Beats - 1)]
RelBursts == [op : {"ReleaseData"}, src : {RelSrc}, block : Blocks,
              report : {"TtoN"}, sent : 0..(Beats - 1)]
Bursts    == AckBursts \cup RelBursts

PutBursts == [src : GSrcs, block : Blocks, sent : 1..(Beats - 1)]

\* no message is None
ASSUME NoMessageAssumption == None \notin Probes \cup Bursts \cup PutBursts

\* nor is what a miss, a request of the uncached master or the D port holds
ASSUME NoRecordAssumption ==
  None \notin [block : Blocks, sink : Sinks \cup {None}]
             \cup [op : {"Get", "Put", "Atomic", "Intent"}, block : Blocks, ver : Nat]
             \cup [msg : DMessages, sent : Nat]

HostTypes    == /\ drive \in BOOLEAN /\ retrieve \in BOOLEAN /\ retrieved \in BOOLEAN
                /\ probe \in BOOLEAN /\ probeEn \in BOOLEAN
                /\ probeAddr \in Blocks \cup {None}
                /\ probe => probeAddr # None
MemoryTypes  == /\ perm \in [Blocks -> {"Absent", "TIP", "TRUNK"}]
                /\ mem \in [Blocks -> [BeatNo -> Nat]]
EngineTypes  == /\ bch \in Engines
                /\ bOut \in Probes \cup {None}
                /\ pend \in SUBSET Probes
                /\ cBurst \in Bursts \cup {None}
ChannelTypes == /\ dQueue \in Seq(DMessages)
                /\ dOut \in [msg : DMessages, sent : Nat] \cup {None}
                /\ dFree \in SUBSET Sinks
                /\ ongoingTlc \in [Sinks -> Blocks \cup {None}]
                /\ aOngoings \in [ASrcs -> 0..(Beats - 1)]
                /\ cOngoings \in [CSrcs -> 0..(Beats - 1)]
TileTypes    == /\ line \in [Blocks -> {"N", "B", "T", "D"}]
                /\ latest \in [Blocks -> Nat] /\ snap \in [Blocks -> Nat]
                /\ reach \in SUBSET Blocks
                /\ mshr \in [MSHRs -> {None} \cup [block : Blocks, sink : Sinks \cup {None}]]
                /\ gets \in [GSrcs -> {None} \cup [op : {"Get", "Put", "Atomic", "Intent"},
                                                   block : Blocks, ver : Nat]]
                /\ aBurst \in PutBursts \cup {None}
                /\ rel \in Blocks \cup {None}

\* every component of the adapter and of the tile keeps its type
TypeOK == HostTypes /\ MemoryTypes /\ EngineTypes /\ ChannelTypes /\ TileTypes

----------------------------------------------------------------------------
(* Safety. *)

\* the sources that left the engine's queue and have not come back
OnPort   == IF bOut = None THEN {} ELSE {bOut.src}
InTile   == {p.src : p \in pend}
InAnswer == IF cBurst = None THEN {} ELSE {cBurst.src} \ {RelSrc}
Outside  == OnPort \cup InTile \cup InAnswer

QueuedSrcs(st) == {st.queue[i].src : i \in DOMAIN st.queue}

\* the engine when the sources out are outside and those of called have had their
\* callback run already
SourcesOK(st, out, called) ==
  /\ \A i, j \in DOMAIN st.queue : st.queue[i].src = st.queue[j].src => i = j
  /\ QueuedSrcs(st) \cap out = {}
  /\ st.free \cap (QueuedSrcs(st) \cup out) = {}
  /\ BSrcs = st.free \cup QueuedSrcs(st) \cup out
  /\ \A s \in BSrcs : st.callback[s] = NoCallback <=> s \in st.free \cup called

EngineOK(st, out, called) ==
  /\ SourcesOK(st, out, called)
  /\ st.waiting # <<>> => st.free = {}

\* FreeList and srcToCallback (the assertions of utils.py:235-263 and 273-279): a probe
\* source is either free, with no callback, or in exactly one place between
\* retrieveBlock and the answer, with its callback set; requests wait for a source
\* only while there is none
ProbeSources ==
  /\ EngineOK(bch, Outside, {})
  /\ OnPort \cap InTile = {} /\ OnPort \cap InAnswer = {} /\ InTile \cap InAnswer = {}
  /\ \A p, q \in pend : p.src = q.src => p = q

\* d_sinks (utils.py:240 "is empty", 252-255): whenever the cache may start a miss
\* there is a free sink, and a sink granted to a miss is neither free nor forgotten
GrantSinks ==
  drive =>
    /\ \A m \in MSHRs, b \in Blocks : MayAcquire(m, b) => dFree # {}
    /\ \A m \in MSHRs : mshr[m] # None /\ mshr[m].sink # None =>
         /\ mshr[m].sink \notin dFree
         /\ ongoingTlc[mshr[m].sink] = mshr[m].block

\* block_perm never forgets an owner: a block the cache may modify, or is sending back
\* modified, is TRUNK, or the retrieval at the end of the test would miss it
OwnersKnown ==
  drive => \A b \in Blocks :
    \/ line[b] \in {"T", "D"}
    \/ cBurst # None /\ cBurst.block = b
    => perm[b] = "TRUNK"

DMessagesInFlight == {dQueue[i] : i \in DOMAIN dQueue}
                     \cup (IF dOut = None THEN {} ELSE {dOut.msg})

\* a grant carries the last stored version of every beat, although a store, a release
\* or a probe of the block may have come between Acquire and grant
GrantsCurrent ==
  drive => \A msg \in DMessagesInFlight :
    msg.op = "GrantData" => \A i \in BeatNo : msg.data[i] = latest[msg.block]

\* an answer to the uncached master is no older than its request and not torn between
\* two versions, also when the data had to be retrieved from the cache first
AnswersFresh ==
  drive => \A msg \in DMessagesInFlight :
    msg.op = "AccessAckData" =>
      LET rq == gets[msg.src]
      IN /\ rq # None
         /\ msg.data[1] >= rq.ver
         /\ rq.block \in Cacheable => \A i \in BeatNo : msg.data[i] = msg.data[1]

\* whatever is on its way to the tile is as new as it has to be
DataFresh == GrantsCurrent /\ AnswersFresh

\* when the retriever has ended the run (drive is off), memory holds every store made
\* before it took its list of blocks: the signature is read from that memory
RetrievalComplete ==
  retrieved /\ ~drive => \A b \in Cacheable, i \in BeatNo : mem[b][i] >= snap[b]

\* two sources never send bursts on channel A or C at once, and the counters of both
\* monitors agree with the beats sent (adapter.py:324-325 and 553-554)
BurstsCounted ==
  /\ \A s \in CSrcs : cOngoings[s] = IF cBurst # None /\ cBurst.src = s THEN cBurst.sent ELSE 0
  /\ \A s \in ASrcs : aOngoings[s] = IF aBurst # None /\ aBurst.src = s THEN aBurst.sent ELSE 0

----------------------------------------------------------------------------
(* Liveness. The simulator resumes every coroutine at every clock edge, and *)
(* the tile takes and answers what it is sent; channel C is arbitrated      *)
(* fairly between probes and releases.                                      *)

Fairness ==
  /\ WF_vars(DriveD) /\ WF_vars(DriveB) /\ WF_vars(Retrieve)
  /\ WF_vars(ReceiveD) /\ WF_vars(ReceiveProbe) /\ WF_vars(BurstBeat)
  /\ \A s \in BSrcs : SF_vars(\E p \in pend : p.src = s /\ (ProbeAck(p) \/ StartProbeAckData(p)))
  /\ \A m \in MSHRs : WF_vars(GrantAck(m))
  /\ WF_vars(ProbeTohost)

FairSpec == Spec /\ Fairness

\* every probe the adapter has taken a source for gives the source back
ProbesEnd == \A s \in BSrcs : s \notin bch.free ~> (s \in bch.free \/ ~drive)
=============================================================================
