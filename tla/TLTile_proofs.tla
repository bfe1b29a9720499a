--------------------------- MODULE TLTile_proofs ---------------------------
(***************************************************************************)
(* Proofs about the TileLink adapter, for any number of blocks, beats and  *)
(* ids: the state keeps its type, and the probe engine never loses or      *)
(* doubles a source.                                                       *)
(***************************************************************************)
EXTENDS TLTile, SequenceTheorems, TLAPS

----------------------------------------------------------------------------
(* The probe engine. The lemmas follow FreeList.get, FreeList.release,     *)
(* retrieveBlock and the chain of probe_blocks_rec on one value of the     *)
(* engine.                                                                 *)

\* FreeList.get and srcToCallback.set: one free source moves into the queue, with its
\* callback, and no other changes place
LEMMA IssueTakesOne ==
  ASSUME NEW st \in Engines, NEW rq \in Requests, NEW out, NEW called,
         SourcesOK(st, out, called), st.free \cap called = {},
         NEW st2 \in Issue(st, rq)
  PROVE  /\ st2 \in Engines
         /\ SourcesOK(st2, out, called)
         /\ st2.waiting = st.waiting
         /\ \E s \in st.free : st2.free = st.free \ {s}
<1>1. PICK s \in st.free :
        st2 = [st EXCEPT !.free = @ \ {s}, !.callback[s] = rq.then,
                         !.queue = Append(@, [src |-> s, block |-> rq.block, cap |-> rq.cap])]
  BY DEF Issue
<1> DEFINE msg == [src |-> s, block |-> rq.block, cap |-> rq.cap]
<1>2. s \in BSrcs /\ msg \in Probes /\ rq.then \in Pending
  BY DEF Engines, Requests, Probes
<1>3. rq.then # NoCallback
  BY <1>2 DEF Pending, NoCallback
<1>4. /\ st2.free = st.free \ {s}
      /\ st2.waiting = st.waiting
      /\ st2.queue = Append(st.queue, msg)
      /\ st2.callback = [st.callback EXCEPT ![s] = rq.then]
  BY <1>1 DEF Engines
<1>5. st2 \in Engines
  <2>1. st2.queue \in Seq(Probes)
    BY <1>2, <1>4, AppendProperties DEF Engines
  <2>2. st2.callback \in [BSrcs -> Callbacks]
    BY <1>2, <1>4 DEF Engines, Callbacks
  <2> QED BY <1>1, <1>2, <2>1, <2>2 DEF Engines
<1>6. /\ DOMAIN st.queue = 1..Len(st.queue) /\ Len(st.queue) \in Nat
      /\ DOMAIN st2.queue = 1..(Len(st.queue) + 1)
      /\ \A i \in 1..Len(st.queue) : st2.queue[i] = st.queue[i]
      /\ st2.queue[Len(st.queue) + 1] = msg
  BY <1>2, <1>4, AppendProperties DEF Engines
<1>7. QueuedSrcs(st2) = QueuedSrcs(st) \cup {s}
  <2>1. \A x \in QueuedSrcs(st) \cup {s} : x \in QueuedSrcs(st2)
    BY <1>6, SMTT(20) DEF QueuedSrcs
  <2>2. \A i \in 1..(Len(st.queue) + 1) : st2.queue[i].src \in QueuedSrcs(st) \cup {s}
    BY <1>6, SMTT(20) DEF QueuedSrcs
  <2> QED BY <1>6, <2>1, <2>2 DEF QueuedSrcs
<1>8. s \notin QueuedSrcs(st) \cup out
  BY DEF SourcesOK
<1>9. SourcesOK(st2, out, called)
  <2>1. \A i, j \in DOMAIN st2.queue : st2.queue[i].src = st2.queue[j].src => i = j
    BY <1>6, <1>8 DEF SourcesOK, QueuedSrcs
  <2>2. \A x \in BSrcs : st2.callback[x] = NoCallback <=> x \in st2.free \cup called
    BY <1>2, <1>3, <1>4 DEF SourcesOK, Engines
  <2> QED BY <1>4, <1>7, <1>8, <2>1, <2>2 DEF SourcesOK
<1> QED BY <1>4, <1>5, <1>9

\* retrieveBlock: the request takes a source or waits for one
LEMMA RetrieveKeeps ==
  ASSUME NEW st \in Engines, NEW rq \in Requests, NEW out, NEW called,
         EngineOK(st, out, called), called \subseteq out,
         NEW st2 \in RetrieveBlock(st, rq)
  PROVE  st2 \in Engines /\ EngineOK(st2, out, called)
<1>1. CASE st.free # {}
  <2>1. st.waiting = <<>>
    BY <1>1 DEF EngineOK
  <2>2. st2 \in Issue(st, rq) /\ SourcesOK(st, out, called) /\ st.free \cap called = {}
    BY <1>1 DEF RetrieveBlock, EngineOK, SourcesOK
  <2>3. st2 \in Engines /\ SourcesOK(st2, out, called) /\ st2.waiting = st.waiting
    BY <2>2, IssueTakesOne
  <2> QED BY <2>1, <2>3 DEF EngineOK
<1>2. CASE st.free = {}
  <2>1. st2 = [st EXCEPT !.waiting = Append(@, rq)]
    BY <1>2 DEF RetrieveBlock
  <2>2. /\ st2.free = st.free /\ st2.queue = st.queue /\ st2.callback = st.callback
        /\ st2.waiting = Append(st.waiting, rq)
    BY <2>1 DEF Engines
  <2>3. st2.waiting \in Seq(Requests)
    BY <2>2, AppendProperties DEF Engines
  <2>4. st2 \in Engines
    BY <2>1, <2>2, <2>3 DEF Engines
  <2> QED BY <1>2, <2>2, <2>4 DEF EngineOK, SourcesOK, QueuedSrcs
<1> QED BY <1>1, <1>2

\* probe_blocks_rec on a list that is not empty is a retrieveBlock
LEMMA ProbeNextKeeps ==
  ASSUME NEW st \in Engines, NEW rest \in SUBSET Blocks, NEW out, NEW called,
         EngineOK(st, out, called), called \subseteq out,
         NEW st2 \in ProbeNext(st, rest)
  PROVE  st2 \in Engines /\ EngineOK(st2, out, called)
<1> DEFINE rq(b) == Request(b, "toN", [kind |-> "probe_blocks", rest |-> rest \ {b}])
<1>1. PICK b \in rest : st2 \in RetrieveBlock(st, rq(b))
  BY DEF ProbeNext
<1>2. rq(b) \in Requests
  BY DEF Request, Requests, Pending, Caps
<1> QED BY <1>1, <1>2, RetrieveKeeps

\* FreeList.release: the source that was answered comes back, and the first request
\* that waits takes it
LEMMA ReleaseKeeps ==
  ASSUME NEW st \in Engines, NEW out, NEW s \in out \cap BSrcs,
         EngineOK(st, out, {s}),
         NEW st2 \in Release(st, s)
  PROVE  st2 \in Engines /\ EngineOK(st2, out \ {s}, {})
<1> DEFINE back == [st EXCEPT !.free = @ \cup {s}]
<1>1. /\ back.free = st.free \cup {s} /\ back.queue = st.queue
      /\ back.callback = st.callback /\ back.waiting = st.waiting
      /\ back \in Engines
  BY DEF Engines
<1>2. SourcesOK(back, out \ {s}, {})
  BY <1>1 DEF EngineOK, SourcesOK, QueuedSrcs
<1>3. CASE st.waiting = <<>>
  BY <1>1, <1>2, <1>3 DEF Release, EngineOK
<1>4. CASE st.waiting # <<>>
  <2> DEFINE woken == [back EXCEPT !.waiting = Tail(@)]
  <2>1. /\ woken.free = back.free /\ woken.queue = back.queue
        /\ woken.callback = back.callback /\ woken.waiting = Tail(st.waiting)
    BY <1>1 DEF Engines
  <2>2. Head(st.waiting) \in Requests /\ Tail(st.waiting) \in Seq(Requests)
    BY <1>4, HeadTailProperties DEF Engines
  <2>3. woken \in Engines
    BY <1>1, <2>1, <2>2 DEF Engines
  <2>4. SourcesOK(woken, out \ {s}, {})
    BY <1>2, <2>1 DEF SourcesOK, QueuedSrcs
  <2>5. st2 \in Issue(woken, Head(st.waiting))
    BY <1>4, <1>1 DEF Release
  <2>6. /\ st2 \in Engines /\ SourcesOK(st2, out \ {s}, {})
        /\ \E x \in woken.free : st2.free = woken.free \ {x}
    <3>1. woken.free \cap {} = {}
      OBVIOUS
    <3> HIDE DEF woken, back
    <3> QED BY <2>2, <2>3, <2>4, <2>5, <3>1, IssueTakesOne
  <2>7. woken.free = {s}
    BY <1>1, <1>4, <2>1 DEF EngineOK
  <2>8. st2.free = {}
    BY <2>6, <2>7
  <2> QED BY <2>6, <2>8 DEF EngineOK
<1> QED BY <1>3, <1>4

----------------------------------------------------------------------------
(* Messages have their type. *)

LEMMA DataTyped ==
  ASSUME NEW m \in [Blocks -> [BeatNo -> Nat]], NEW b \in Blocks
  PROVE  DataOf(m, b) \in Seq(Nat)
<1>1. Beats \in Nat
  BY BeatsAssumption
<1>2. DataOf(m, b) \in [1..Beats -> Nat]
  BY DEF DataOf, BeatNo
<1> QED BY <1>1, <1>2, SeqDef

LEMMA MessageTyped ==
  ASSUME NEW op \in {"AccessAckData", "AccessAck", "HintAck", "ReleaseAck"},
         NEW src \in GSrcs \cup {RelSrc}
  PROVE  DMsg(op, src) \in Answers
BY EmptySeq DEF DMsg, Answers

LEMMA AckDataTyped ==
  ASSUME NEW src \in GSrcs, NEW data \in Seq(Nat)
  PROVE  AccessAckData(src, data) \in DMessages
<1>1. DMsg("AccessAckData", src) \in Answers
  BY MessageTyped
<1> QED BY <1>1 DEF AccessAckData, Answers, DMessages

LEMMA GrantTyped ==
  ASSUME NEW op \in {"Grant", "GrantData"}, NEW src \in MSHRs, NEW sink \in Sinks,
         NEW b \in Blocks, NEW param \in {"toT", "toB"}, NEW data \in Seq(Nat)
  PROVE  Grant(op, src, sink, b, param, data) \in DMessages
BY DEF Grant, DMsg, Grants, DMessages

----------------------------------------------------------------------------
(* A probe that was answered: the callback runs and the source comes back. *)

LEMMA CallAndReleaseKeeps ==
  ASSUME TypeOK, MemoryTypes', NEW out, NEW src \in out \cap BSrcs,
         EngineOK(bch, out, {}), CallAndRelease(src)
  PROVE  /\ bch' \in Engines /\ EngineOK(bch', out \ {src}, {})
         /\ drive' \in BOOLEAN /\ probeEn' \in BOOLEAN
         /\ dQueue' \in Seq(DMessages)
         /\ ongoingTlc' \in [Sinks -> Blocks \cup {None}]
<1> DEFINE cb     == bch.callback[src]
           called == [bch EXCEPT !.callback[src] = NoCallback]
           chain  == cb.kind = "probe_blocks"
<1>1. bch \in Engines /\ cb \in Callbacks
  BY DEF TypeOK, EngineTypes, Engines
<1>2. /\ called.free = bch.free /\ called.queue = bch.queue /\ called.waiting = bch.waiting
      /\ called.callback = [bch.callback EXCEPT ![src] = NoCallback]
      /\ called \in Engines
  BY <1>1 DEF Engines, Callbacks
<1>3. EngineOK(called, out, {src})
  <2>1. src \notin bch.free
    BY DEF EngineOK, SourcesOK
  <2>2. \A s \in BSrcs : called.callback[s] = NoCallback <=> s \in called.free \cup {src}
    BY <1>1, <1>2, <2>1 DEF EngineOK, SourcesOK, Engines
  <2> QED BY <1>2, <2>2 DEF EngineOK, SourcesOK, QueuedSrcs
<1>4. PICK st \in IF chain /\ cb.rest # {} THEN ProbeNext(called, cb.rest) ELSE {called} :
        bch' \in Release(st, src)
  BY DEF CallAndRelease
<1>5. st \in Engines /\ EngineOK(st, out, {src})
  <2>1. CASE chain /\ cb.rest # {}
    <3>1. cb.rest \in SUBSET Blocks
      BY <1>1, <2>1 DEF Callbacks, Pending, NoCallback
    <3>2. st \in ProbeNext(called, cb.rest)
      BY <1>4, <2>1
    <3>3. {src} \subseteq out
      OBVIOUS
    <3> HIDE DEF called, cb, chain
    <3> QED BY <1>2, <1>3, <3>1, <3>2, <3>3, ProbeNextKeeps
  <2>2. CASE ~(chain /\ cb.rest # {})
    BY <1>2, <1>3, <1>4, <2>2
  <2> QED BY <2>1, <2>2
<1>6. bch' \in Engines /\ EngineOK(bch', out \ {src}, {})
  BY <1>4, <1>5, ReleaseKeeps
<1>7. drive' \in BOOLEAN /\ probeEn' \in BOOLEAN
  BY DEF CallAndRelease, TypeOK, HostTypes
<1>8. cb.kind = "AccessAckData_cb" => cb.src \in GSrcs /\ cb.block \in Blocks
  BY <1>1 DEF Callbacks, Pending, NoCallback
<1>9. cb.kind = "GrantData_cb" => /\ cb.src \in MSHRs /\ cb.block \in Blocks
                                  /\ cb.sink \in Sinks /\ cb.param \in {"toT", "toB"}
  BY <1>1 DEF Callbacks, Pending, NoCallback
<1>10. dQueue' \in Seq(DMessages)
  <2>1. dQueue \in Seq(DMessages) /\ mem' \in [Blocks -> [BeatNo -> Nat]]
    BY DEF TypeOK, ChannelTypes, MemoryTypes
  <2>2. CASE cb.kind = "AccessAckData_cb"
    <3>1. dQueue' = Append(dQueue, AccessAckData(cb.src, DataOf(mem', cb.block)))
      BY <2>2 DEF CallAndRelease
    <3> QED BY <1>8, <2>1, <2>2, <3>1, DataTyped, AckDataTyped, AppendProperties
  <2>3. CASE cb.kind = "GrantData_cb"
    <3>1. dQueue' = Append(dQueue, Grant("GrantData", cb.src, cb.sink, cb.block,
                                         cb.param, DataOf(mem', cb.block)))
      BY <2>3 DEF CallAndRelease
    <3>2. Grant("GrantData", cb.src, cb.sink, cb.block, cb.param, DataOf(mem', cb.block))
            \in DMessages
      BY <1>9, <2>1, <2>3, DataTyped, GrantTyped
    <3> QED BY <2>1, <3>1, <3>2, AppendProperties
  <2>4. CASE cb.kind \notin {"AccessAckData_cb", "GrantData_cb"}
    BY <2>1, <2>4 DEF CallAndRelease
  <2> QED BY <2>2, <2>3, <2>4
<1>11. ongoingTlc' \in [Sinks -> Blocks \cup {None}]
  BY <1>9 DEF CallAndRelease, TypeOK, ChannelTypes
<1> QED BY <1>6, <1>7, <1>10, <1>11

----------------------------------------------------------------------------
(* The inductive invariant, and what the steps do to the engine's part.    *)

IInv == TypeOK /\ ProbeSources /\ BurstsCounted

EngineInv == EngineTypes /\ ProbeSources

\* a step that leaves the engine and the probes outside it alone
LEMMA EngineFrame ==
  ASSUME IInv, UNCHANGED <<bch, bOut, pend, cBurst>>
  PROVE  EngineInv'
BY DEF IInv, TypeOK, EngineInv, EngineTypes, ProbeSources, Outside, OnPort, InTile, InAnswer

\* a step that only asks for a block
LEMMA EngineRequest ==
  ASSUME IInv, NEW rq \in Requests, bch' \in RetrieveBlock(bch, rq),
         UNCHANGED <<bOut, pend, cBurst>>
  PROVE  EngineInv'
<1>1. bch \in Engines /\ EngineOK(bch, Outside, {})
  BY DEF IInv, TypeOK, EngineTypes, ProbeSources
<1>2. {} \subseteq Outside
  OBVIOUS
<1>3. bch' \in Engines /\ EngineOK(bch', Outside, {})
  BY <1>1, <1>2, RetrieveKeeps
<1>4. Outside' = Outside
  BY DEF Outside, OnPort, InTile, InAnswer
<1>5. EngineTypes'
  BY <1>3 DEF IInv, TypeOK, EngineTypes
<1>6. ProbeSources'
  BY <1>3, <1>4 DEF IInv, ProbeSources, OnPort, InTile, InAnswer
<1> QED BY <1>5, <1>6 DEF EngineInv

\* a step that leaves the adapter's channels alone
LEMMA ChannelFrame ==
  ASSUME TypeOK, UNCHANGED <<dQueue, dOut, dFree, ongoingTlc, aOngoings, cOngoings>>
  PROVE  ChannelTypes'
BY DEF TypeOK, ChannelTypes

LEMMA BurstFrame ==
  ASSUME BurstsCounted, UNCHANGED <<aBurst, cBurst, aOngoings, cOngoings>>
  PROVE  BurstsCounted'
BY DEF BurstsCounted

LEMMA HostFrame ==
  ASSUME TypeOK, UNCHANGED hostVars
  PROVE  HostTypes'
BY DEF TypeOK, HostTypes, hostVars

LEMMA TouchedTyped ==
  ASSUME TypeOK, NEW b \in Blocks
  PROVE  /\ Touched(b) \in [Blocks -> {"Absent", "TIP", "TRUNK"}]
         /\ \A r \in {"TtoT", "TtoB", "TtoN", "BtoN", "BtoB", "NtoN"} :
              Reported(r, b) \in [Blocks -> {"Absent", "TIP", "TRUNK"}]
BY DEF TypeOK, MemoryTypes, Touched, Reported

\* a step that moves no source, whatever it does to a burst that has RelSrc or keeps
\* its source
LEMMA EngineBurst ==
  ASSUME IInv, UNCHANGED <<bch, bOut, pend>>, cBurst' \in Bursts \cup {None},
         InAnswer' = InAnswer
  PROVE  EngineInv'
BY DEF IInv, TypeOK, EngineInv, EngineTypes, ProbeSources, Outside, OnPort, InTile

LEMMA MemoryWrite ==
  ASSUME NEW m \in [Blocks -> [BeatNo -> Nat]], NEW b \in Blocks, NEW k, NEW v \in Nat
  PROVE  [m EXCEPT ![b][k] = v] \in [Blocks -> [BeatNo -> Nat]]
<1>1. [m[b] EXCEPT ![k] = v] \in [BeatNo -> Nat]
  OBVIOUS
<1> QED BY <1>1

----------------------------------------------------------------------------
(* Channel A. *)

LEMMA GetStep ==
  ASSUME IInv, NEW g \in GSrcs, NEW b \in Blocks, Get(g, b)
  PROVE  IInv'
<1> USE DEF IInv, TypeOK
<1>1. /\ HandleGet(g, b) /\ Expect(g, "Get", b)
      /\ UNCHANGED <<line, latest, mshr, aBurst, cBurst, rel, pend, snap, reach>>
  BY DEF Get
<1>2. HostTypes' /\ MemoryTypes'
  BY <1>1, HostFrame, TouchedTyped DEF HandleGet, MemoryTypes
<1>3. TileTypes' /\ BurstsCounted'
  BY <1>1, BurstFrame DEF HandleGet, Expect, TileTypes
<1>4. CASE IsTip(b)
  <2>1. /\ dQueue' = Append(dQueue, AccessAckData(g, DataOf(mem, b)))
        /\ UNCHANGED <<bch, bOut, dOut, dFree, ongoingTlc, aOngoings, cOngoings>>
    BY <1>1, <1>4 DEF HandleGet
  <2>2. AccessAckData(g, DataOf(mem, b)) \in DMessages
    BY DataTyped, AckDataTyped DEF MemoryTypes
  <2>3. ChannelTypes'
    BY <2>1, <2>2, AppendProperties DEF ChannelTypes
  <2>4. EngineInv'
    BY <1>1, <2>1, EngineFrame
  <2> QED BY <1>2, <1>3, <2>3, <2>4 DEF EngineInv
<1>5. CASE ~IsTip(b)
  <2> DEFINE rq == Request(b, "toT", [kind |-> "AccessAckData_cb", src |-> g, block |-> b])
  <2>1. /\ bch' \in RetrieveBlock(bch, rq)
        /\ UNCHANGED <<dQueue, bOut, dOut, dFree, ongoingTlc, aOngoings, cOngoings>>
    BY <1>1, <1>5 DEF HandleGet
  <2>2. rq \in Requests
    BY DEF Request, Requests, Pending, Caps
  <2>3. ChannelTypes'
    BY <2>1, ChannelFrame
  <2>4. EngineInv'
    BY <1>1, <2>1, <2>2, EngineRequest
  <2> QED BY <1>2, <1>3, <2>3, <2>4 DEF EngineInv
<1> QED BY <1>4, <1>5

LEMMA IntentStep ==
  ASSUME IInv, NEW g \in GSrcs, NEW b \in Blocks, Intent(g, b)
  PROVE  IInv'
<1> USE DEF IInv, TypeOK
<1>1. /\ HandleIntent(g, b) /\ Expect(g, "Intent", b)
      /\ UNCHANGED <<line, latest, mshr, aBurst, cBurst, rel, pend, snap, reach>>
  BY DEF Intent
<1>2. HostTypes' /\ MemoryTypes'
  BY <1>1, HostFrame, TouchedTyped DEF HandleIntent, MemoryTypes
<1>3. TileTypes' /\ BurstsCounted'
  BY <1>1, BurstFrame DEF HandleIntent, Expect, TileTypes
<1>4. DMsg("HintAck", g) \in DMessages
  BY MessageTyped DEF DMessages, ASrcs
<1>5. ChannelTypes'
  BY <1>1, <1>4, AppendProperties DEF HandleIntent, ChannelTypes
<1>6. EngineInv'
  BY <1>1, EngineFrame DEF HandleIntent
<1> QED BY <1>2, <1>3, <1>5, <1>6 DEF EngineInv

LEMMA AtomicStep ==
  ASSUME IInv, NEW g \in GSrcs, NEW b \in Uncached, Atomic(g, b)
  PROVE  IInv'
<1> USE DEF IInv, TypeOK
<1>0. b \in Blocks
  BY SourcesAssumption
<1>1. /\ HandleAtomic(g, b, latest[b] + 1) /\ Expect(g, "Atomic", b)
      /\ latest' = [latest EXCEPT ![b] = @ + 1]
      /\ UNCHANGED <<line, mshr, aBurst, cBurst, rel, pend, snap, reach>>
  BY DEF Atomic
<1>2. HostTypes'
  BY <1>1, HostFrame DEF HandleAtomic
<1>3. latest[b] \in Nat
  BY <1>0 DEF TileTypes
<1>4. MemoryTypes'
  <2>1. perm' = Touched(b) /\ mem' = [mem EXCEPT ![b][1] = latest[b] + 1]
    BY <1>1 DEF HandleAtomic
  <2>2. latest[b] + 1 \in Nat
    BY <1>3
  <2> QED BY <1>0, <2>1, <2>2, TouchedTyped, MemoryWrite DEF MemoryTypes
<1>5. TileTypes' /\ BurstsCounted'
  BY <1>0, <1>1, BurstFrame DEF HandleAtomic, Expect, TileTypes
<1>6. AccessAckData(g, <<mem[b][1]>>) \in DMessages
  <2>1. 1 \in BeatNo
    BY BeatsAssumption DEF BeatNo
  <2>2. mem[b][1] \in Nat
    BY <1>0, <2>1 DEF MemoryTypes
  <2>3. <<mem[b][1]>> \in Seq(Nat)
    BY <2>2
  <2> QED BY <2>3, AckDataTyped
<1>7. ChannelTypes'
  BY <1>1, <1>6, AppendProperties DEF HandleAtomic, ChannelTypes
<1>8. EngineInv'
  BY <1>1, EngineFrame DEF HandleAtomic
<1> QED BY <1>2, <1>4, <1>5, <1>7, <1>8 DEF EngineInv

\* a beat of a Put, whichever it is
LEMMA PutTyped ==
  ASSUME IInv, NEW g \in GSrcs, NEW b \in Blocks, NEW v \in Nat,
         HandlePut(g, b, Beats, v), UNCHANGED <<cBurst, pend>>
  PROVE  HostTypes' /\ MemoryTypes' /\ ChannelTypes' /\ EngineInv'
<1> USE DEF IInv, TypeOK
<1> DEFINE count == aOngoings[g]
           last  == count + 1 = Beats
<1>1. HostTypes' /\ EngineInv'
  BY HostFrame, EngineFrame DEF HandlePut
<1>2. MemoryTypes'
  <2>1. perm' = Touched(b) /\ mem' = [mem EXCEPT ![b][count + 1] = v]
    BY DEF HandlePut
  <2> QED BY <2>1, TouchedTyped, MemoryWrite DEF MemoryTypes
<1>3. g \in ASrcs /\ DMsg("AccessAck", g) \in DMessages
  BY MessageTyped DEF DMessages, ASrcs
<1>4. dQueue' \in Seq(DMessages)
  BY <1>3, AppendProperties DEF HandlePut, ChannelTypes
<1>5. aOngoings' \in [ASrcs -> 0..(Beats - 1)]
  BY <1>3, BeatsAssumption DEF HandlePut, ChannelTypes
<1>6. ChannelTypes'
  BY <1>4, <1>5 DEF HandlePut, ChannelTypes
<1> QED BY <1>1, <1>2, <1>6

LEMMA PutFirstStep ==
  ASSUME IInv, NEW g \in GSrcs, NEW b \in Uncached, PutFirst(g, b)
  PROVE  IInv'
<1> USE DEF IInv, TypeOK
<1>1. b \in Blocks /\ latest[b] + 1 \in Nat
  BY SourcesAssumption DEF TileTypes
<1>2. HostTypes' /\ MemoryTypes' /\ ChannelTypes' /\ EngineInv'
  BY <1>1, PutTyped DEF PutFirst
<1>3. TileTypes'
  BY <1>1, BeatsAssumption DEF PutFirst, Expect, TileTypes, PutBursts
<1>4. BurstsCounted'
  <2>1. \A s \in ASrcs : aOngoings[s] = 0
    BY DEF PutFirst, Free, BurstsCounted
  <2>2. g \in ASrcs /\ aBurst' = IF Beats = 1 THEN None ELSE [src |-> g, block |-> b, sent |-> 1]
    BY DEF PutFirst, ASrcs
  <2>3. aOngoings' = [aOngoings EXCEPT ![g] = IF Beats = 1 THEN 0 ELSE 1]
    <3>1. HandlePut(g, b, Beats, latest[b] + 1) /\ aOngoings[g] = 0
      BY <2>1, <2>2 DEF PutFirst
    <3>2. aOngoings' = [aOngoings EXCEPT ![g] = IF 0 + 1 = Beats THEN 0 ELSE 0 + 1]
      BY <3>1 DEF HandlePut
    <3>3. (IF 0 + 1 = Beats THEN 0 ELSE 0 + 1) = (IF Beats = 1 THEN 0 ELSE 1)
      BY BeatsAssumption
    <3> QED BY <3>2, <3>3, Zenon
  <2>4. CASE Beats = 1
    BY <2>1, <2>2, <2>3, <2>4 DEF ChannelTypes, PutFirst, HandlePut, BurstsCounted
  <2>5. CASE Beats # 1
    <3>1. aBurst' = [src |-> g, block |-> b, sent |-> 1] /\ aBurst' \in PutBursts
      BY <1>1, <2>2, <2>5, BeatsAssumption DEF PutBursts
    <3>2. aBurst' # None
      BY <3>1, NoMessageAssumption
    <3>3. \A s \in ASrcs : aOngoings'[s] = IF s = g THEN 1 ELSE 0
      BY <2>1, <2>3, <2>5 DEF ChannelTypes
    <3>4. aBurst'.src = g /\ aBurst'.sent = 1
      BY <3>1
    <3>5. UNCHANGED <<cBurst, cOngoings>>
      BY DEF PutFirst, HandlePut
    <3> QED BY <3>2, <3>3, <3>4, <3>5 DEF BurstsCounted
  <2> QED BY <2>4, <2>5
<1> QED BY <1>2, <1>3, <1>4 DEF EngineInv

LEMMA PutBeatStep ==
  ASSUME IInv, PutBeat
  PROVE  IInv'
<1> USE DEF IInv, TypeOK
<1>1. /\ aBurst \in PutBursts
      /\ latest[aBurst.block] + 1 \in Nat /\ aBurst.src \in GSrcs /\ aBurst.block \in Blocks
  BY DEF PutBeat, TileTypes, PutBursts
<1>2. HostTypes' /\ MemoryTypes' /\ ChannelTypes' /\ EngineInv'
  BY <1>1, PutTyped DEF PutBeat
<1>3. aBurst' \in PutBursts \cup {None}
  BY <1>1, BeatsAssumption DEF PutBeat, PutBursts
<1>4. TileTypes'
  BY <1>1, <1>3 DEF PutBeat, TileTypes
<1>5. BurstsCounted'
  <2> DEFINE g == aBurst.src
             done == aBurst.sent + 1 = Beats
  <2>1. g \in ASrcs /\ aOngoings[g] = aBurst.sent
    BY <1>1 DEF PutBeat, ASrcs, BurstsCounted
  <2>2. aOngoings' = [aOngoings EXCEPT ![g] = IF done THEN 0 ELSE aBurst.sent + 1]
    BY <2>1 DEF PutBeat, HandlePut
  <2>3. aBurst' = IF done THEN None ELSE [aBurst EXCEPT !.sent = @ + 1]
    BY DEF PutBeat
  <2>4. ~done => aBurst' # None /\ aBurst'.src = g /\ aBurst'.sent = aBurst.sent + 1
    <3> SUFFICES ASSUME ~done PROVE aBurst' # None /\ aBurst'.src = g
                                   /\ aBurst'.sent = aBurst.sent + 1
      OBVIOUS
    <3> DEFINE next == [aBurst EXCEPT !.sent = aBurst.sent + 1]
    <3>1. aBurst' = next
      BY <2>3
    <3>2. next \in PutBursts /\ next.src = g /\ next.sent = aBurst.sent + 1
      BY <1>1, BeatsAssumption DEF PutBursts
    <3> QED BY <3>1, <3>2, NoMessageAssumption
  <2>5. \A s \in ASrcs : aOngoings'[s] = IF s = g /\ ~done THEN aBurst.sent + 1 ELSE 0
    <3>1. \A s \in ASrcs : s # g => aOngoings[s] = 0
      BY DEF BurstsCounted
    <3> QED BY <2>1, <2>2, <3>1 DEF ChannelTypes
  <2>6. UNCHANGED <<cBurst, cOngoings>>
    BY DEF PutBeat, HandlePut
  <2>7. \A s \in CSrcs : cOngoings'[s] = IF cBurst' # None /\ cBurst'.src = s
                                         THEN cBurst'.sent ELSE 0
    BY <2>6 DEF BurstsCounted
  <2>8. \A s \in ASrcs : aOngoings'[s] = IF aBurst' # None /\ aBurst'.src = s
                                         THEN aBurst'.sent ELSE 0
    <3>1. done => aBurst' = None
      BY <2>3
    <3> HIDE DEF done, g
    <3> QED BY <2>4, <2>5, <3>1
  <2> QED BY <2>7, <2>8 DEF BurstsCounted
<1> QED BY <1>2, <1>4, <1>5 DEF EngineInv

LEMMA AcquireBlockStep ==
  ASSUME IInv, NEW m \in MSHRs, NEW b \in Cacheable, NEW grow, AcquireBlock(m, b, grow)
  PROVE  IInv'
<1> USE DEF IInv, TypeOK
<1>1. /\ b \in Blocks /\ HandleAcquireBlock(m, b, grow)
      /\ mshr' = [mshr EXCEPT ![m] = [block |-> b, sink |-> None]]
      /\ UNCHANGED <<line, latest, gets, aBurst, cBurst, rel, pend, snap, reach>>
  BY DEF AcquireBlock, Cacheable
<1>2. HostTypes' /\ MemoryTypes'
  BY <1>1, HostFrame, TouchedTyped DEF HandleAcquireBlock, MemoryTypes
<1>3. TileTypes' /\ BurstsCounted'
  BY <1>1, BurstFrame DEF HandleAcquireBlock, TileTypes
<1>4. CapFor(grow) \in {"toT", "toB"}
  BY DEF CapFor
<1>5. PICK sink \in dFree :
        /\ dFree' = dFree \ {sink}
        /\ IF IsTip(b)
           THEN /\ ongoingTlc' = [ongoingTlc EXCEPT ![sink] = b]
                /\ dQueue' = Append(dQueue, Grant("GrantData", m, sink, b, CapFor(grow),
                                                  DataOf(mem, b)))
                /\ UNCHANGED bch
           ELSE /\ bch' \in RetrieveBlock(bch,
                     Request(b, IF grow = "NtoB" THEN "toB" ELSE "toN",
                             [kind |-> "GrantData_cb", src |-> m, sink |-> sink,
                              block |-> b, param |-> CapFor(grow)]))
                /\ UNCHANGED <<dQueue, ongoingTlc>>
        /\ UNCHANGED <<bOut, dOut, aOngoings, cOngoings>>
  BY <1>1 DEF HandleAcquireBlock
<1>6. sink \in Sinks /\ m \in ASrcs
  BY DEF ChannelTypes, ASrcs
<1>7. CASE IsTip(b)
  <2>1. Grant("GrantData", m, sink, b, CapFor(grow), DataOf(mem, b)) \in DMessages
    BY <1>1, <1>4, <1>6, DataTyped, GrantTyped DEF MemoryTypes
  <2>2. dQueue' \in Seq(DMessages)
    <3>1. dQueue' = Append(dQueue, Grant("GrantData", m, sink, b, CapFor(grow), DataOf(mem, b)))
      BY <1>5, <1>7
    <3>2. dQueue \in Seq(DMessages)
      BY DEF ChannelTypes
    <3> QED BY <2>1, <3>1, <3>2, AppendProperties
  <2>3. ongoingTlc' \in [Sinks -> Blocks \cup {None}] /\ dFree' \in SUBSET Sinks
    BY <1>1, <1>5, <1>6, <1>7 DEF ChannelTypes
  <2>4. ChannelTypes'
    BY <1>5, <2>2, <2>3 DEF ChannelTypes
  <2>5. EngineInv'
    BY <1>1, <1>5, <1>7, EngineFrame
  <2> QED BY <1>2, <1>3, <2>4, <2>5 DEF EngineInv
<1>8. CASE ~IsTip(b)
  <2> DEFINE rq == Request(b, IF grow = "NtoB" THEN "toB" ELSE "toN",
                           [kind |-> "GrantData_cb", src |-> m, sink |-> sink,
                            block |-> b, param |-> CapFor(grow)])
  <2>1. rq \in Requests
    <3>1. [kind |-> "GrantData_cb", src |-> m, sink |-> sink, block |-> b,
           param |-> CapFor(grow)] \in Pending
      BY <1>1, <1>4, <1>6 DEF Pending
    <3> QED BY <1>1, <3>1 DEF Request, Requests, Caps
  <2>2. bch' \in RetrieveBlock(bch, rq)
    BY <1>5, <1>8
  <2>3. ChannelTypes'
    BY <1>5, <1>8 DEF ChannelTypes
  <2>4. EngineInv'
    BY <1>1, <1>5, <2>1, <2>2, EngineRequest
  <2> QED BY <1>2, <1>3, <2>3, <2>4 DEF EngineInv
<1> QED BY <1>7, <1>8

LEMMA AcquirePermStep ==
  ASSUME IInv, NEW m \in MSHRs, NEW b \in Cacheable, AcquirePerm(m, b)
  PROVE  IInv'
<1> USE DEF IInv, TypeOK
<1>1. /\ b \in Blocks /\ HandleAcquirePerm(m, b, "NtoT")
      /\ mshr' = [mshr EXCEPT ![m] = [block |-> b, sink |-> None]]
      /\ UNCHANGED <<line, latest, gets, aBurst, cBurst, rel, pend, snap, reach>>
  BY DEF AcquirePerm, Cacheable
<1>2. HostTypes' /\ MemoryTypes'
  BY <1>1, HostFrame, TouchedTyped DEF HandleAcquirePerm, MemoryTypes
<1>3. TileTypes' /\ BurstsCounted'
  BY <1>1, BurstFrame DEF HandleAcquirePerm, TileTypes
<1>4. PICK sink \in dFree :
        /\ dFree' = dFree \ {sink}
        /\ ongoingTlc' = [ongoingTlc EXCEPT ![sink] = b]
        /\ dQueue' = Append(dQueue, Grant("Grant", m, sink, b, CapFor("NtoT"), <<>>))
        /\ UNCHANGED <<bch, bOut, dOut, aOngoings, cOngoings>>
  BY <1>1 DEF HandleAcquirePerm
<1>5. Grant("Grant", m, sink, b, CapFor("NtoT"), <<>>) \in DMessages
  <2>1. sink \in Sinks /\ m \in ASrcs /\ CapFor("NtoT") \in {"toT", "toB"} /\ <<>> \in Seq(Nat)
    BY DEF ChannelTypes, ASrcs, CapFor
  <2> QED BY <1>1, <2>1, GrantTyped
<1>6. ChannelTypes'
  BY <1>1, <1>4, <1>5, AppendProperties DEF ChannelTypes
<1>7. EngineInv'
  BY <1>1, <1>4, EngineFrame
<1> QED BY <1>2, <1>3, <1>6, <1>7 DEF EngineInv

LEMMA StoreStep ==
  ASSUME IInv, NEW b \in Cacheable, Store(b)
  PROVE  IInv'
<1> USE DEF IInv, TypeOK
<1>1. EngineInv' /\ BurstsCounted' /\ ChannelTypes' /\ HostTypes' /\ MemoryTypes'
  BY EngineFrame, BurstFrame, ChannelFrame, HostFrame DEF Store, aVars, hostVars, MemoryTypes
<1>2. TileTypes'
  BY DEF Store, TileTypes, Cacheable
<1> QED BY <1>1, <1>2 DEF EngineInv

----------------------------------------------------------------------------
(* Channels B and C. *)

\* the probe on the port reaches the tile
LEMMA ReceiveProbeStep ==
  ASSUME IInv, ReceiveProbe
  PROVE  IInv'
<1> USE DEF IInv, TypeOK
<1>1. /\ bOut # None /\ bOut' = None /\ pend' = pend \cup {bOut}
      /\ UNCHANGED <<hostVars, perm, mem, bch, dQueue, dOut, dFree, ongoingTlc, aOngoings,
                     cOngoings, line, latest, mshr, gets, aBurst, cBurst, rel, snap, reach>>
  BY DEF ReceiveProbe, FireB
<1>2. HostTypes' /\ MemoryTypes' /\ ChannelTypes' /\ TileTypes' /\ BurstsCounted'
  BY <1>1, HostFrame, ChannelFrame, BurstFrame DEF MemoryTypes, TileTypes
<1>3. EngineTypes'
  BY <1>1 DEF EngineTypes
<1>4. OnPort' = {} /\ OnPort = {bOut.src} /\ InTile' = InTile \cup {bOut.src}
      /\ InAnswer' = InAnswer
  BY <1>1 DEF OnPort, InTile, InAnswer
<1>5. Outside' = Outside
  BY <1>4 DEF Outside
<1>6. \A p, q \in pend' : p.src = q.src => p = q
  BY <1>1, <1>4 DEF ProbeSources, InTile
<1>7. ProbeSources'
  BY <1>1, <1>4, <1>5, <1>6 DEF ProbeSources
<1> QED BY <1>2, <1>3, <1>7

LEMMA ShrinkTyped ==
  ASSUME NEW l \in {"N", "B", "T", "D"}, NEW cap \in Caps
  PROVE  /\ Shrink(l, cap)[1] \in {"N", "B", "T", "D"}
         /\ Shrink(l, cap)[2] \in {"TtoT", "TtoB", "TtoN", "BtoN", "BtoB", "NtoN"}
         /\ l = "D" => Shrink(l, cap)[2] \in {"TtoT", "TtoB", "TtoN"}
<1>1. CASE l \in {"T", "D"}
  BY <1>1 DEF Caps, Shrink, Level
<1>2. CASE l = "B"
  BY <1>2 DEF Caps, Shrink, Level
<1>3. CASE l = "N"
  BY <1>3 DEF Caps, Shrink, Level
<1> QED BY <1>1, <1>2, <1>3

LEMMA ProbeAckStep ==
  ASSUME IInv, NEW p \in pend, ProbeAck(p)
  PROVE  IInv'
<1> USE DEF IInv, TypeOK
<1> DEFINE report == Shrink(line[p.block], p.cap)[2]
<1>1. /\ cBurst = None /\ pend' = pend \ {p}
      /\ line' = [line EXCEPT ![p.block] = Shrink(@, p.cap)[1]]
      /\ HandleProbeAck(p.src, p.block, report)
      /\ UNCHANGED <<latest, mshr, gets, aBurst, cBurst, rel, snap, reach>>
  BY DEF ProbeAck, MayAnswer
<1>2. /\ p \in Probes /\ p.src \in BSrcs /\ p.block \in Blocks /\ p.cap \in Caps
      /\ line[p.block] \in {"N", "B", "T", "D"}
  BY DEF EngineTypes, Probes, TileTypes
<1>3. MemoryTypes'
  <2>1. report \in {"TtoT", "TtoB", "TtoN", "BtoN", "BtoB", "NtoN"}
    BY <1>2, ShrinkTyped
  <2>2. perm' = Reported(report, p.block) /\ mem' = mem
    BY <1>1 DEF HandleProbeAck
  <2> HIDE DEF report
  <2> QED BY <1>2, <2>1, <2>2, TouchedTyped DEF MemoryTypes
<1>4. p.src \in Outside \cap BSrcs /\ CallAndRelease(p.src) /\ EngineOK(bch, Outside, {})
  BY <1>1, <1>2 DEF Outside, InTile, HandleProbeAck, ProbeSources
<1>5. /\ bch' \in Engines /\ EngineOK(bch', Outside \ {p.src}, {})
      /\ drive' \in BOOLEAN /\ probeEn' \in BOOLEAN
      /\ dQueue' \in Seq(DMessages)
      /\ ongoingTlc' \in [Sinks -> Blocks \cup {None}]
  BY <1>3, <1>4, CallAndReleaseKeeps
<1>6. UNCHANGED <<retrieve, retrieved, probe, probeAddr, bOut, dOut, dFree, aOngoings, cOngoings>>
  BY <1>1 DEF HandleProbeAck
<1>7. HostTypes' /\ ChannelTypes' /\ BurstsCounted'
  BY <1>1, <1>5, <1>6, BurstFrame DEF HostTypes, ChannelTypes
<1>8. TileTypes'
  <2>1. Shrink(line[p.block], p.cap)[1] \in {"N", "B", "T", "D"}
    BY <1>2, ShrinkTyped
  <2>2. line' \in [Blocks -> {"N", "B", "T", "D"}]
    BY <1>1, <2>1 DEF TileTypes
  <2> QED BY <1>1, <2>2 DEF TileTypes
<1>9. EngineTypes'
  BY <1>1, <1>5, <1>6 DEF EngineTypes
<1>10. /\ OnPort' = OnPort /\ InAnswer' = InAnswer
       /\ InTile' = InTile \ {p.src}
  BY <1>1, <1>6 DEF OnPort, InAnswer, InTile, ProbeSources
<1>11. Outside' = Outside \ {p.src}
  <2>1. p.src \in InTile
    BY DEF InTile
  <2> QED BY <1>10, <2>1 DEF Outside, ProbeSources
<1>12. ProbeSources'
  BY <1>1, <1>5, <1>10, <1>11 DEF ProbeSources
<1> QED BY <1>3, <1>7, <1>8, <1>9, <1>12

\* the burst takes over the source of the probe
LEMMA StartProbeAckDataStep ==
  ASSUME IInv, NEW p \in pend, StartProbeAckData(p)
  PROVE  IInv'
<1> USE DEF IInv, TypeOK
<1> DEFINE burst == [op |-> "ProbeAckData", src |-> p.src, block |-> p.block,
                     report |-> Shrink(line[p.block], p.cap)[2], sent |-> 0]
<1>1. /\ cBurst = None /\ line[p.block] = "D" /\ pend' = pend \ {p}
      /\ line' = [line EXCEPT ![p.block] = Shrink(@, p.cap)[1]]
      /\ cBurst' = burst
      /\ UNCHANGED <<aVars, latest, mshr, gets, aBurst, rel, snap, reach>>
  BY DEF StartProbeAckData, MayAnswer
<1>2. /\ p \in Probes /\ p.src \in BSrcs /\ p.block \in Blocks /\ p.cap \in Caps
      /\ line[p.block] \in {"N", "B", "T", "D"}
  BY DEF EngineTypes, Probes, TileTypes
<1>3. burst \in AckBursts
  BY <1>1, <1>2, ShrinkTyped, BeatsAssumption DEF AckBursts
<1>4. cBurst' \in Bursts /\ cBurst' # None
  BY <1>1, <1>3, NoMessageAssumption DEF Bursts
<1>5. HostTypes' /\ MemoryTypes' /\ ChannelTypes' /\ TileTypes'
  BY <1>1, <1>2, ShrinkTyped DEF HostTypes, MemoryTypes, ChannelTypes, TileTypes, aVars
<1>6. EngineTypes'
  BY <1>1, <1>4 DEF EngineTypes, aVars
<1>7. /\ OnPort' = OnPort /\ InAnswer = {} /\ InAnswer' = {p.src}
      /\ InTile' = InTile \ {p.src} /\ p.src \in InTile
  <2>1. p.src # RelSrc
    BY <1>2, NoneAssumption
  <2>2. cBurst'.src = p.src
    BY <1>1
  <2> QED BY <1>1, <1>4, <2>1, <2>2 DEF OnPort, InAnswer, InTile, ProbeSources, aVars
<1>8. Outside' = Outside
  BY <1>7 DEF Outside
<1>9. ProbeSources'
  BY <1>1, <1>7, <1>8 DEF ProbeSources, aVars
<1>10. BurstsCounted'
  <2>1. UNCHANGED <<aBurst, aOngoings, cOngoings>> /\ cBurst'.sent = 0
    BY <1>1 DEF aVars
  <2> QED BY <1>1, <2>1 DEF BurstsCounted
<1> QED BY <1>5, <1>6, <1>9, <1>10

LEMMA ReleaseCleanStep ==
  ASSUME IInv, NEW b \in Cacheable, ReleaseClean(b)
  PROVE  IInv'
<1> USE DEF IInv, TypeOK
<1> DEFINE report == Shrink(line[b], "toN")[2]
<1>1. /\ b \in Blocks /\ rel' = b
      /\ line' = [line EXCEPT ![b] = "N"]
      /\ HandleRelease(RelSrc, b, report)
      /\ UNCHANGED <<latest, mshr, gets, aBurst, cBurst, pend, snap, reach>>
  BY DEF ReleaseClean, Cacheable
<1>2. report \in {"TtoT", "TtoB", "TtoN", "BtoN", "BtoB", "NtoN"}
  <2>1. line[b] \in {"N", "B", "T", "D"} /\ "toN" \in Caps
    BY <1>1 DEF TileTypes, Caps
  <2> QED BY <2>1, ShrinkTyped
<1> HIDE DEF report
<1>3. HostTypes' /\ EngineInv' /\ BurstsCounted'
  BY <1>1, HostFrame, EngineFrame, BurstFrame DEF HandleRelease
<1>4. MemoryTypes'
  BY <1>1, <1>2, TouchedTyped DEF HandleRelease, MemoryTypes
<1>5. DMsg("ReleaseAck", RelSrc) \in DMessages
  BY MessageTyped DEF DMessages
<1>6. ChannelTypes'
  BY <1>1, <1>5, AppendProperties DEF HandleRelease, ChannelTypes
<1>7. TileTypes'
  BY <1>1 DEF TileTypes
<1> QED BY <1>3, <1>4, <1>6, <1>7 DEF EngineInv

LEMMA StartReleaseDataStep ==
  ASSUME IInv, NEW b \in Cacheable, StartReleaseData(b)
  PROVE  IInv'
<1> USE DEF IInv, TypeOK
<1> DEFINE burst == [op |-> "ReleaseData", src |-> RelSrc, block |-> b,
                     report |-> "TtoN", sent |-> 0]
<1>1. /\ b \in Blocks /\ cBurst = None /\ cBurst' = burst /\ rel' = b
      /\ line' = [line EXCEPT ![b] = "N"]
      /\ UNCHANGED <<aVars, latest, mshr, gets, aBurst, pend, snap, reach>>
  BY DEF StartReleaseData, MayRelease, Cacheable
<1>2. cBurst' \in Bursts /\ cBurst'.src = RelSrc /\ cBurst'.sent = 0
  BY <1>1, BeatsAssumption DEF Bursts, RelBursts
<1>3. InAnswer' = InAnswer
  BY <1>1, <1>2 DEF InAnswer
<1>4. EngineInv'
  BY <1>1, <1>2, <1>3, EngineBurst DEF aVars
<1>5. HostTypes' /\ MemoryTypes' /\ ChannelTypes' /\ TileTypes'
  BY <1>1 DEF HostTypes, MemoryTypes, ChannelTypes, TileTypes, aVars
<1>6. BurstsCounted'
  BY <1>1, <1>2 DEF BurstsCounted, aVars
<1> QED BY <1>4, <1>5, <1>6 DEF EngineInv

\* the counter of the monitor, and the tile's count of the beats it has sent, agree on
\* which beat is the last
LEMMA BeatCounted ==
  ASSUME IInv, cBurst # None, CountBeat(cBurst.src), UNCHANGED <<aBurst, aOngoings>>,
         cBurst' = IF cBurst.sent + 1 = Beats THEN None ELSE [cBurst EXCEPT !.sent = @ + 1]
  PROVE  /\ cBurst \in Bursts /\ cBurst.src \in CSrcs /\ cBurst.block \in Blocks
         /\ LastBeat(cBurst.src) <=> cBurst.sent + 1 = Beats
         /\ LastBeat(cBurst.src) => cBurst' = None
         /\ ~LastBeat(cBurst.src) => cBurst' \in Bursts /\ cBurst'.src = cBurst.src
         /\ cOngoings' \in [CSrcs -> 0..(Beats - 1)]
         /\ BurstsCounted'
<1> USE DEF IInv, TypeOK
<1> DEFINE s == cBurst.src
           k == cBurst.sent
<1>1. /\ cBurst \in Bursts /\ s \in CSrcs /\ cBurst.block \in Blocks /\ k \in 0..(Beats - 1)
  BY DEF EngineTypes, Bursts, AckBursts, RelBursts, CSrcs
<1>2. cOngoings[s] = k /\ \A t \in CSrcs : t # s => cOngoings[t] = 0
  BY <1>1 DEF BurstsCounted
<1>3. LastBeat(s) <=> k + 1 = Beats
  BY <1>2 DEF LastBeat
<1>4. CASE k + 1 = Beats
  <2>1. cOngoings' = [cOngoings EXCEPT ![s] = 0]
    BY <1>3, <1>4 DEF CountBeat
  <2>2. cBurst' = None
    BY <1>4
  <2>3. cOngoings' \in [CSrcs -> 0..(Beats - 1)] /\ \A t \in CSrcs : cOngoings'[t] = 0
    BY <1>1, <1>2, <2>1, BeatsAssumption DEF ChannelTypes
  <2> QED BY <1>1, <1>3, <1>4, <2>2, <2>3 DEF BurstsCounted
<1>5. CASE k + 1 # Beats
  <2> DEFINE next == [cBurst EXCEPT !.sent = cBurst.sent + 1]
  <2>1. cOngoings' = [cOngoings EXCEPT ![s] = k + 1]
    BY <1>2, <1>3, <1>5 DEF CountBeat
  <2>2. cBurst' = next
    BY <1>5
  <2>3. next \in Bursts /\ next.src = s /\ next.sent = k + 1
    BY <1>1, <1>5, BeatsAssumption DEF Bursts, AckBursts, RelBursts
  <2>4. cBurst' # None /\ cBurst' \in Bursts /\ cBurst'.src = s /\ cBurst'.sent = k + 1
    BY <2>2, <2>3, NoMessageAssumption
  <2>5. cOngoings' \in [CSrcs -> 0..(Beats - 1)]
        /\ \A t \in CSrcs : cOngoings'[t] = IF t = s THEN k + 1 ELSE 0
    BY <1>1, <1>2, <1>5, <2>1, BeatsAssumption DEF ChannelTypes
  <2>6. BurstsCounted'
    <3> HIDE DEF s, k, next
    <3>1. \A t \in CSrcs : cOngoings'[t] = IF cBurst' # None /\ cBurst'.src = t
                                           THEN cBurst'.sent ELSE 0
      BY <2>4, <2>5
    <3> QED BY <3>1 DEF BurstsCounted
  <2> QED BY <1>1, <1>3, <1>5, <2>4, <2>5, <2>6
<1> QED BY <1>4, <1>5

LEMMA BurstBeatStep ==
  ASSUME IInv, BurstBeat
  PROVE  IInv'
<1> USE DEF IInv, TypeOK
<1> DEFINE src  == cBurst.src
           b    == cBurst.block
           last == LastBeat(src)
<1>1. /\ cBurst # None
      /\ cBurst' = IF cBurst.sent + 1 = Beats THEN None ELSE [cBurst EXCEPT !.sent = @ + 1]
      /\ UNCHANGED <<line, latest, mshr, gets, aBurst, rel, pend, snap, reach>>
  BY DEF BurstBeat
<1>2. /\ CountBeat(src) /\ WriteBeat(src, b, latest[b])
      /\ UNCHANGED <<retrieve, retrieved, probe, probeAddr, bOut, dOut, dFree, aOngoings>>
  BY DEF BurstBeat, HandleProbeAckData, HandleReleaseData, hostVars
<1>3. /\ cBurst \in Bursts /\ b \in Blocks
      /\ last => cBurst' = None
      /\ ~last => cBurst' \in Bursts /\ cBurst'.src = src
      /\ cOngoings' \in [CSrcs -> 0..(Beats - 1)]
      /\ BurstsCounted'
  BY <1>1, <1>2, BeatCounted
<1>4. mem' \in [Blocks -> [BeatNo -> Nat]]
  <2>1. mem' = [mem EXCEPT ![b][cOngoings[src] + 1] = latest[b]] /\ latest[b] \in Nat
    BY <1>2, <1>3 DEF WriteBeat, TileTypes
  <2> QED BY <1>3, <2>1, MemoryWrite DEF MemoryTypes
<1>5. TileTypes'
  BY <1>1 DEF TileTypes
<1>6. \A r \in {"TtoT", "TtoB", "TtoN", "BtoN", "BtoB", "NtoN"} :
        Reported(r, b) \in [Blocks -> {"Absent", "TIP", "TRUNK"}]
  BY <1>3, TouchedTyped
<1>7. cBurst.report \in {"TtoT", "TtoB", "TtoN"}
  BY <1>3 DEF Bursts, AckBursts, RelBursts
<1>8. cBurst.op = "ReleaseData" => src = RelSrc
  BY <1>3 DEF Bursts, AckBursts, RelBursts
<1>9. cBurst.op = "ProbeAckData" => src \in BSrcs /\ src # RelSrc
  BY <1>3, NoneAssumption DEF Bursts, AckBursts, RelBursts
<1>10. CASE ~last
  <2>1. UNCHANGED <<drive, perm, bch, dQueue, ongoingTlc, probeEn>>
    BY <1>10 DEF BurstBeat, HandleProbeAckData, HandleReleaseData, hostVars
  <2>2. HostTypes' /\ MemoryTypes' /\ ChannelTypes'
    BY <1>2, <1>3, <1>4, <2>1 DEF HostTypes, MemoryTypes, ChannelTypes
  <2>3. cBurst' # None /\ InAnswer' = InAnswer
    BY <1>1, <1>3, <1>10, NoMessageAssumption DEF InAnswer
  <2>4. EngineInv'
    <3> HIDE DEF src, last
    <3> QED BY <1>1, <1>2, <1>3, <1>10, <2>1, <2>3, EngineBurst
  <2> QED BY <1>3, <1>5, <2>2, <2>4 DEF EngineInv
<1>11. CASE last /\ cBurst.op = "ReleaseData"
  <2>1. /\ perm' = Reported(cBurst.report, b)
        /\ dQueue' = Append(dQueue, DMsg("ReleaseAck", src))
        /\ UNCHANGED <<hostVars, bch, ongoingTlc>>
    BY <1>11 DEF BurstBeat, HandleReleaseData
  <2>2. HostTypes' /\ MemoryTypes'
    BY <1>4, <1>6, <1>7, <2>1, HostFrame DEF MemoryTypes
  <2>3. DMsg("ReleaseAck", src) \in DMessages
    BY <1>8, <1>11, MessageTyped DEF DMessages
  <2>4. dQueue' \in Seq(DMessages)
    BY <2>1, <2>3, AppendProperties DEF ChannelTypes
  <2>5. ChannelTypes'
    BY <1>2, <1>3, <2>1, <2>4 DEF ChannelTypes
  <2>6. InAnswer' = InAnswer
    BY <1>1, <1>3, <1>8, <1>11 DEF InAnswer
  <2>7. EngineInv'
    BY <1>1, <1>2, <1>3, <1>11, <2>1, <2>6, EngineBurst
  <2> QED BY <1>3, <1>5, <2>2, <2>5, <2>7 DEF EngineInv
<1>12. CASE last /\ cBurst.op = "ProbeAckData"
  <2>1. perm' = Reported(cBurst.report, b) /\ CallAndRelease(src)
    BY <1>12 DEF BurstBeat, HandleProbeAckData
  <2>2. MemoryTypes'
    BY <1>4, <1>6, <1>7, <2>1 DEF MemoryTypes
  <2>3. InAnswer = {src} /\ src \in BSrcs /\ InAnswer' = {}
    BY <1>1, <1>3, <1>9, <1>12 DEF InAnswer
  <2>4. src \in Outside \cap BSrcs /\ EngineOK(bch, Outside, {})
    BY <2>3 DEF Outside, ProbeSources
  <2>5. /\ bch' \in Engines /\ EngineOK(bch', Outside \ {src}, {})
        /\ drive' \in BOOLEAN /\ probeEn' \in BOOLEAN
        /\ dQueue' \in Seq(DMessages)
        /\ ongoingTlc' \in [Sinks -> Blocks \cup {None}]
    BY <2>1, <2>2, <2>4, CallAndReleaseKeeps
  <2>6. HostTypes' /\ ChannelTypes'
    BY <1>2, <1>3, <2>5 DEF HostTypes, ChannelTypes
  <2>7. EngineTypes'
    BY <1>1, <1>2, <1>3, <1>12, <2>5 DEF EngineTypes
  <2>8. OnPort' = OnPort /\ InTile' = InTile
    BY <1>1, <1>2 DEF OnPort, InTile
  <2>9. Outside' = Outside \ {src}
    BY <2>3, <2>8 DEF Outside, ProbeSources
  <2>10. ProbeSources'
    BY <1>1, <2>3, <2>5, <2>8, <2>9 DEF ProbeSources
  <2> QED BY <1>3, <1>5, <2>2, <2>6, <2>7, <2>10
<1> QED BY <1>10, <1>11, <1>12 DEF BurstBeat

----------------------------------------------------------------------------
(* Channels D and E, and the adapter's drivers. *)

LEMMA ReceiveDStep ==
  ASSUME IInv, ReceiveD
  PROVE  IInv'
<1> USE DEF IInv, TypeOK
<1>1. /\ dOut # None /\ dOut' = IF LastSent THEN None ELSE [dOut EXCEPT !.sent = @ + 1]
      /\ UNCHANGED <<hostVars, perm, mem, bch, bOut, dQueue, dFree, ongoingTlc,
                     aOngoings, cOngoings, aBurst, cBurst, pend, snap, reach>>
  BY DEF ReceiveD, FireD
<1>2. HostTypes' /\ MemoryTypes' /\ EngineInv' /\ BurstsCounted'
  BY <1>1, HostFrame, EngineFrame, BurstFrame DEF MemoryTypes
<1>3. dOut' \in [msg : DMessages, sent : Nat] \cup {None}
  BY <1>1 DEF ChannelTypes
<1>4. ChannelTypes'
  BY <1>1, <1>3 DEF ChannelTypes
<1>5. dOut.msg \in DMessages
  BY <1>1 DEF ChannelTypes
<1>6. CASE ~LastSent
  <2>1. UNCHANGED <<line, latest, mshr, gets, rel>>
    BY <1>6 DEF ReceiveD
  <2> QED BY <1>1, <1>2, <1>4, <2>1 DEF EngineInv, TileTypes
<1>7. CASE LastSent
  <2> DEFINE msg == dOut.msg
  <2>1. GetsGrant(msg) => msg.block \in Blocks /\ msg.sink \in Sinks
    BY <1>5 DEF GetsGrant, DMessages, Answers, Grants
  <2>2. line' \in [Blocks -> {"N", "B", "T", "D"}]
    BY <1>7 DEF ReceiveD, TileTypes
  <2>3. latest' \in [Blocks -> Nat]
    BY <1>7 DEF ReceiveD, TileTypes
  <2>4. mshr' \in [MSHRs -> {None} \cup [block : Blocks, sink : Sinks \cup {None}]]
    BY <1>7, <2>1 DEF ReceiveD, TileTypes
  <2>5. gets' \in [GSrcs -> {None} \cup [op : {"Get", "Put", "Atomic", "Intent"},
                                          block : Blocks, ver : Nat]]
    BY <1>7 DEF ReceiveD, TileTypes
  <2>6. rel' \in Blocks \cup {None}
    BY <1>7 DEF ReceiveD, TileTypes
  <2>7. TileTypes'
    BY <1>1, <2>2, <2>3, <2>4, <2>5, <2>6 DEF TileTypes
  <2> QED BY <1>2, <1>4, <2>7 DEF EngineInv
<1> QED BY <1>6, <1>7

LEMMA GrantAckStep ==
  ASSUME IInv, NEW m \in MSHRs, GrantAck(m)
  PROVE  IInv'
<1> USE DEF IInv, TypeOK
<1>1. mshr[m].sink \in Sinks
  BY DEF GrantAck, TileTypes
<1>2. HostTypes' /\ MemoryTypes' /\ EngineInv' /\ BurstsCounted'
  BY HostFrame, EngineFrame, BurstFrame DEF GrantAck, HandleGrantAck, MemoryTypes
<1>3. ChannelTypes'
  BY <1>1 DEF GrantAck, HandleGrantAck, ChannelTypes
<1>4. TileTypes'
  BY DEF GrantAck, TileTypes
<1> QED BY <1>2, <1>3, <1>4 DEF EngineInv

LEMMA DriveDStep ==
  ASSUME IInv, DriveD
  PROVE  IInv'
<1> USE DEF IInv, TypeOK
<1>1. /\ dQueue # <<>> /\ dOut' = [msg |-> Head(dQueue), sent |-> 0] /\ dQueue' = Tail(dQueue)
      /\ perm' = IF Head(dQueue).param = "toT"
                 THEN [perm EXCEPT ![Head(dQueue).block] = "TRUNK"] ELSE perm
      /\ UNCHANGED <<hostVars, mem, bch, bOut, dFree, ongoingTlc, aOngoings, cOngoings, tVars>>
  BY DEF DriveD, PopD
<1>2. HostTypes' /\ EngineInv' /\ BurstsCounted' /\ TileTypes'
  BY <1>1, HostFrame, EngineFrame, BurstFrame DEF tVars, TileTypes
<1>3. MemoryTypes'
  BY <1>1 DEF MemoryTypes
<1>4. Head(dQueue) \in DMessages /\ Tail(dQueue) \in Seq(DMessages)
  BY <1>1, HeadTailProperties DEF ChannelTypes
<1>5. ChannelTypes'
  BY <1>1, <1>4 DEF ChannelTypes
<1> QED BY <1>2, <1>3, <1>5 DEF EngineInv

\* the first probe leaves the queue for the port
LEMMA DriveBStep ==
  ASSUME IInv, DriveB
  PROVE  IInv'
<1> USE DEF IInv, TypeOK
<1> DEFINE first == Head(bch.queue)
<1>1. /\ bOut = None /\ bch.queue # <<>> /\ bOut' = first
      /\ bch' = [bch EXCEPT !.queue = Tail(@)]
      /\ UNCHANGED <<hostVars, perm, mem, dQueue, dOut, dFree, ongoingTlc, aOngoings,
                     cOngoings, tVars>>
  BY DEF DriveB, PopB
<1>2. HostTypes' /\ MemoryTypes' /\ ChannelTypes' /\ BurstsCounted' /\ TileTypes'
  BY <1>1, HostFrame, ChannelFrame, BurstFrame DEF tVars, MemoryTypes, TileTypes
<1>3. /\ bch \in Engines /\ bch.queue \in Seq(Probes)
      /\ EngineOK(bch, Outside, {})
  BY DEF EngineTypes, Engines, ProbeSources
<1>4. first \in Probes /\ Tail(bch.queue) \in Seq(Probes)
  BY <1>1, <1>3, HeadTailProperties
<1>5. /\ bch' \in Engines /\ bch'.queue = Tail(bch.queue) /\ bch'.free = bch.free
      /\ bch'.waiting = bch.waiting /\ bch'.callback = bch.callback
  BY <1>1, <1>3, <1>4 DEF Engines
<1>6. EngineTypes'
  BY <1>1, <1>4, <1>5 DEF EngineTypes, tVars
<1>7. /\ first = bch.queue[1] /\ Len(bch.queue) \in Nat /\ Len(bch.queue) # 0
      /\ DOMAIN bch.queue = 1..Len(bch.queue)
      /\ DOMAIN bch'.queue = 1..(Len(bch.queue) - 1)
      /\ \A i \in 1..(Len(bch.queue) - 1) : bch'.queue[i] = bch.queue[i + 1]
  BY <1>1, <1>3, <1>5, HeadTailProperties, EmptySeq
<1>8. QueuedSrcs(bch') = QueuedSrcs(bch) \ {first.src} /\ first.src \in QueuedSrcs(bch)
  <2>1. \A i \in 2..Len(bch.queue) : bch.queue[i].src # first.src
    <3>1. SourcesOK(bch, Outside, {})
      BY <1>3 DEF EngineOK
    <3> QED BY <1>7, <3>1, SMTT(20) DEF SourcesOK
  <2>2. \A i \in 2..Len(bch.queue) : i - 1 \in 1..(Len(bch.queue) - 1)
                                   /\ bch.queue[i] = bch'.queue[i - 1]
    BY <1>7
  <2>3. first.src \in QueuedSrcs(bch)
    BY <1>7 DEF QueuedSrcs
  <2>4. \A x \in QueuedSrcs(bch') : x \in QueuedSrcs(bch) \ {first.src}
    <3> SUFFICES ASSUME NEW i \in 1..(Len(bch.queue) - 1)
                 PROVE  bch'.queue[i].src \in QueuedSrcs(bch) \ {first.src}
      BY <1>7 DEF QueuedSrcs
    <3>1. i + 1 \in 2..Len(bch.queue) /\ i + 1 \in 1..Len(bch.queue)
          /\ bch'.queue[i] = bch.queue[i + 1]
      BY <1>7
    <3> QED BY <1>7, <2>1, <3>1 DEF QueuedSrcs
  <2>5. \A x \in QueuedSrcs(bch) \ {first.src} : x \in QueuedSrcs(bch')
    <3> SUFFICES ASSUME NEW i \in 1..Len(bch.queue), bch.queue[i].src # first.src
                 PROVE  bch.queue[i].src \in QueuedSrcs(bch')
      BY <1>7 DEF QueuedSrcs
    <3>1. i \in 2..Len(bch.queue)
      BY <1>7
    <3> QED BY <1>7, <2>2, <3>1 DEF QueuedSrcs
  <2> QED BY <2>3, <2>4, <2>5
<1>9. /\ OnPort = {} /\ OnPort' = {first.src} /\ InTile' = InTile /\ InAnswer' = InAnswer
  BY <1>1, <1>4, NoMessageAssumption DEF OnPort, InTile, InAnswer, tVars
<1>10. Outside' = Outside \cup {first.src} /\ first.src \notin Outside
  BY <1>3, <1>8, <1>9 DEF Outside, EngineOK, SourcesOK
<1>11. EngineOK(bch', Outside', {})
  <2>1. \A i, j \in DOMAIN bch'.queue : bch'.queue[i].src = bch'.queue[j].src => i = j
    <3> SUFFICES ASSUME NEW i \in 1..(Len(bch.queue) - 1), NEW j \in 1..(Len(bch.queue) - 1),
                        bch'.queue[i].src = bch'.queue[j].src
                 PROVE  i = j
      BY <1>7
    <3>1. /\ i + 1 \in 1..Len(bch.queue) /\ bch'.queue[i] = bch.queue[i + 1]
          /\ j + 1 \in 1..Len(bch.queue) /\ bch'.queue[j] = bch.queue[j + 1]
      BY <1>7
    <3>2. i + 1 = j + 1
      BY <1>3, <1>7, <3>1 DEF EngineOK, SourcesOK
    <3> QED BY <3>2
  <2> QED BY <1>3, <1>5, <1>8, <1>10, <2>1 DEF EngineOK, SourcesOK
<1>12. ProbeSources'
  BY <1>1, <1>9, <1>10, <1>11 DEF ProbeSources, Outside, tVars
<1> QED BY <1>2, <1>6, <1>12

\* probe_blocks starts its chain when a block may be modified
LEMMA RetrieveStep ==
  ASSUME IInv, Retrieve
  PROVE  IInv'
<1> USE DEF IInv, TypeOK
<1> DEFINE trunk == {b \in Blocks : perm[b] = "TRUNK"}
<1>1. /\ retrieved' = TRUE /\ drive' \in {drive, FALSE}
      /\ trunk = {} => UNCHANGED bch
      /\ trunk # {} => bch' \in ProbeNext(bch, trunk)
      /\ UNCHANGED <<retrieve, probe, probeEn, probeAddr, perm, mem, bOut, dQueue, dOut,
                     dFree, ongoingTlc, aOngoings, cOngoings>>
      /\ snap' = latest
      /\ UNCHANGED <<line, latest, mshr, gets, aBurst, cBurst, rel, pend, reach>>
  BY DEF Retrieve, DataRetriever
<1>2. HostTypes' /\ MemoryTypes' /\ ChannelTypes' /\ BurstsCounted' /\ TileTypes'
  BY <1>1, ChannelFrame, BurstFrame DEF HostTypes, MemoryTypes, TileTypes
<1>3. bch' \in Engines /\ EngineOK(bch', Outside, {})
  <2>1. bch \in Engines /\ EngineOK(bch, Outside, {}) /\ trunk \in SUBSET Blocks
        /\ {} \subseteq Outside
    BY DEF EngineTypes, ProbeSources
  <2> HIDE DEF trunk
  <2> QED BY <1>1, <2>1, ProbeNextKeeps
<1>4. OnPort' = OnPort /\ InTile' = InTile /\ InAnswer' = InAnswer /\ Outside' = Outside
  BY <1>1 DEF Outside, OnPort, InTile, InAnswer
<1>5. EngineTypes' /\ ProbeSources'
  BY <1>1, <1>3, <1>4 DEF EngineTypes, ProbeSources
<1> QED BY <1>2, <1>5

LEMMA ProbeTohostStep ==
  ASSUME IInv, ProbeTohost
  PROVE  IInv'
<1> USE DEF IInv, TypeOK
<1> DEFINE rq == Request(probeAddr, "toN", [kind |-> "enableProbe"])
<1>1. /\ probe /\ bch' \in RetrieveBlock(bch, rq)
      /\ probe' = FALSE /\ probeEn' = FALSE /\ probeAddr' = None
      /\ UNCHANGED <<drive, retrieve, retrieved, perm, mem, bOut, dQueue, dOut, dFree,
                     ongoingTlc, aOngoings, cOngoings, tVars>>
  BY DEF ProbeTohost, HostInterface, HostProbes
<1>2. HostTypes' /\ MemoryTypes' /\ ChannelTypes' /\ BurstsCounted' /\ TileTypes'
  BY <1>1, ChannelFrame, BurstFrame DEF HostTypes, MemoryTypes, TileTypes, tVars
<1>3. rq \in Requests
  <2>1. probeAddr \in Blocks
    BY <1>1 DEF HostTypes
  <2> QED BY <2>1 DEF Request, Requests, Pending, Caps
<1>4. EngineInv'
  <2> HIDE DEF rq
  <2> QED BY <1>1, <1>3, EngineRequest DEF tVars
<1> QED BY <1>2, <1>4 DEF EngineInv

----------------------------------------------------------------------------
(* The host's calls, the initial state, and the theorems.                  *)

\* start replaces every queue and pool
LEMMA HostStartStep ==
  ASSUME TypeOK, NEW mapped \in Images, HostStart(mapped)
  PROVE  IInv'
<1> USE DEF IInv, TypeOK
<1>1. StartAdapter(mapped) /\ ResetTile /\ reach' \in SUBSET Blocks
  BY SourcesAssumption DEF HostStart
<1>2. HostTypes' /\ MemoryTypes' /\ TileTypes'
  BY <1>1 DEF StartAdapter, ResetTile, ZeroMem, HostTypes, MemoryTypes, TileTypes,
              NoLine, Zero, NoMiss, NoGet
<1>3. ChannelTypes'
  BY <1>1, EmptySeq, BeatsAssumption DEF StartAdapter, ChannelTypes
<1>4. IdleProbes \in Engines
  BY EmptySeq DEF IdleProbes, Engines, Callbacks
<1>5. EngineTypes'
  BY <1>1, <1>4 DEF StartAdapter, ResetTile, EngineTypes
<1>6. OnPort' = {} /\ InTile' = {} /\ InAnswer' = {} /\ Outside' = {}
  BY <1>1 DEF StartAdapter, ResetTile, OnPort, InTile, InAnswer, Outside
<1>7. EngineOK(IdleProbes, {}, {})
  BY EmptySeq DEF EngineOK, SourcesOK, IdleProbes, QueuedSrcs
<1>8. ProbeSources'
  BY <1>1, <1>6, <1>7 DEF StartAdapter, ResetTile, ProbeSources
<1>9. BurstsCounted'
  BY <1>1 DEF StartAdapter, ResetTile, BurstsCounted
<1> QED BY <1>2, <1>3, <1>5, <1>8, <1>9

LEMMA InitStep ==
  ASSUME Init
  PROVE  IInv
<1> USE DEF IInv, TypeOK, Init
<1>1. HostTypes /\ MemoryTypes /\ TileTypes
  BY DEF InitAdapter, InitTile, ZeroMem, HostTypes, MemoryTypes, TileTypes,
         NoLine, Zero, NoMiss, NoGet
<1>2. ChannelTypes
  BY EmptySeq, BeatsAssumption DEF InitAdapter, ChannelTypes
<1>3. IdleProbes \in Engines
  BY EmptySeq DEF IdleProbes, Engines, Callbacks
<1>4. EngineTypes
  BY <1>3 DEF InitAdapter, InitTile, EngineTypes
<1>5. OnPort = {} /\ InTile = {} /\ InAnswer = {} /\ Outside = {}
  BY DEF InitAdapter, InitTile, OnPort, InTile, InAnswer, Outside
<1>6. EngineOK(IdleProbes, {}, {})
  BY EmptySeq DEF EngineOK, SourcesOK, IdleProbes, QueuedSrcs
<1>7. ProbeSources
  BY <1>5, <1>6 DEF InitAdapter, InitTile, ProbeSources
<1>8. BurstsCounted
  BY DEF InitAdapter, InitTile, BurstsCounted
<1> QED BY <1>1, <1>2, <1>4, <1>7, <1>8

LEMMA HostCallStep ==
  ASSUME IInv, (\E b \in Tohosts : HostProbe(b)) \/ HostStop
  PROVE  IInv'
<1> USE DEF IInv, TypeOK
<1>1. /\ UNCHANGED <<perm, mem, bch, bOut, dQueue, dOut, dFree, ongoingTlc, aOngoings,
                     cOngoings, drive, retrieved, probeEn, tVars>>
      /\ HostTypes'
  <2>1. CASE HostStop
    BY <2>1 DEF HostStop, StopAdapter, HostTypes
  <2>2. CASE \E b \in Tohosts : HostProbe(b)
    <3>1. PICK b \in Tohosts : HostProbe(b)
      BY <2>2
    <3>2. b \in Blocks /\ b # None
      BY SourcesAssumption, NoneAssumption
    <3> QED BY <3>1, <3>2 DEF HostProbe, ProbeBlock, HostTypes
  <2> QED BY <2>1, <2>2
<1>2. MemoryTypes' /\ ChannelTypes' /\ TileTypes' /\ BurstsCounted' /\ EngineInv'
  BY <1>1, ChannelFrame, BurstFrame, EngineFrame DEF MemoryTypes, TileTypes, tVars
<1> QED BY <1>1, <1>2 DEF EngineInv

LEMMA IInvStep ==
  ASSUME IInv, [Next]_vars
  PROVE  IInv'
<1>1. CASE Uncaching
  BY <1>1, GetStep, IntentStep, AtomicStep, PutFirstStep, PutBeatStep DEF Uncaching
<1>2. CASE Caching
  BY <1>2, AcquireBlockStep, AcquirePermStep, StoreStep, ReleaseCleanStep,
     StartReleaseDataStep, GrantAckStep DEF Caching
<1>3. CASE Answering
  BY <1>3, ReceiveProbeStep, BurstBeatStep, ReceiveDStep, ProbeAckStep,
     StartProbeAckDataStep DEF Answering
<1>4. CASE Adapter
  BY <1>4, DriveDStep, DriveBStep, RetrieveStep, ProbeTohostStep DEF Adapter
<1>5. CASE \E mapped \in Images : HostStart(mapped)
  BY <1>5, HostStartStep DEF IInv
<1>6. CASE (\E b \in Tohosts : HostProbe(b)) \/ HostStop
  BY <1>6, HostCallStep
<1>7. CASE UNCHANGED vars
  <2>1. UNCHANGED <<aVars, tVars>>
    BY <1>7 DEF vars
  <2>2. EngineInv' /\ BurstsCounted' /\ ChannelTypes' /\ HostTypes'
    BY <2>1, EngineFrame, BurstFrame, ChannelFrame, HostFrame
    DEF IInv, aVars, tVars, hostVars
  <2>3. MemoryTypes' /\ TileTypes'
    BY <2>1 DEF IInv, TypeOK, MemoryTypes, TileTypes, aVars, tVars
  <2> QED BY <2>2, <2>3 DEF IInv, TypeOK, EngineInv
<1> QED BY <1>1, <1>2, <1>3, <1>4, <1>5, <1>6, <1>7 DEF Next, Running

\* the inductive invariant holds in every behaviour
THEOREM Inductive == Spec => []IInv
<1>1. Init => IInv
  BY InitStep
<1>2. IInv /\ [Next]_vars => IInv'
  BY IInvStep
<1> QED BY <1>1, <1>2, PTL DEF Spec

\* adapter.py: no step takes a queue, a pool or a counter of the adapter out of its type,
\* for any number of blocks, beats, sources and sinks
THEOREM TypeCorrect == Spec => []TypeOK
<1>1. IInv => TypeOK
  BY DEF IInv
<1> QED BY <1>1, Inductive, PTL

\* utils.py FreeList and srcToCallback with retrieveBlock, the two ProbeAck handlers and
\* probe_blocks_rec: no probe source is lost, doubled or left with a wrong callback
THEOREM SourcesNeverLost == Spec => []ProbeSources
<1>1. IInv => ProbeSources
  BY DEF IInv
<1> QED BY <1>1, Inductive, PTL

\* a_port_monitor and c_port_monitor count exactly the beats that were sent
THEOREM CountersAgree == Spec => []BurstsCounted
<1>1. IInv => BurstsCounted
  BY DEF IInv
<1> QED BY <1>1, Inductive, PTL
=============================================================================
