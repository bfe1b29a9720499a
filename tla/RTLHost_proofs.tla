--------------------------- MODULE RTLHost_proofs ---------------------------
(***************************************************************************)
(* Proofs about the host: what is proved of one test's tile and adapter    *)
(* holds when the host runs one test after the other on one adapter, also  *)
(* tests that time out, and the signature that a successful test saves is  *)
(* complete.                                                               *)
(***************************************************************************)
EXTENDS RTLHost, TLData_proofs

\* every step of the host, of the tile or of the adapter is one of TLTile's, or leaves
\* the adapter and the tile alone
LEMMA HostStepRefines ==
  ASSUME HostTypeOK, [HostNext]_allVars
  PROVE  [Next]_vars
<1>1. CASE \E mapped \in Images, b \in Tohosts : StartTest(mapped, b)
  BY <1>1 DEF StartTest, Next
<1>2. CASE Poll
  <2>1. CASE mem[tohost][1] # 0
    BY <1>2, <2>1 DEF Poll
  <2>2. CASE mem[tohost][1] = 0
    <3>1. tohost \in Tohosts /\ HostProbe(tohost)
      BY <1>2, <2>2 DEF Poll, HostTypeOK
    <3> QED BY <3>1 DEF Next
  <2> QED BY <2>1, <2>2
<1>3. CASE CyclesUp \/ Finish
  BY <1>3 DEF CyclesUp, Finish
<1>4. CASE Stop
  BY <1>4 DEF Stop, Next
<1>5. CASE TileStep
  BY <1>5 DEF TileStep, Next
<1>6. CASE UNCHANGED allVars
  BY <1>6 DEF allVars
<1> QED BY <1>1, <1>2, <1>3, <1>4, <1>5, <1>6 DEF HostNext

LEMMA HostStepTyped ==
  ASSUME HostTypeOK, IInv, IInv', [HostNext]_allVars
  PROVE  HostTypeOK'
<1> USE DEF HostTypeOK
<1>1. latest' \in [Blocks -> Nat]
  BY DEF IInv, TypeOK, TileTypes
<1>2. CASE \E mapped \in Images, b \in Tohosts : StartTest(mapped, b)
  <2>1. PICK mapped \in Images, b \in Tohosts : StartTest(mapped, b)
    BY <1>2
  <2>2. b \in Blocks /\ b # None
    BY SourcesAssumption, NoneAssumption
  <2> QED BY <2>1, <2>2 DEF StartTest, Zero
<1>3. CASE Poll \/ CyclesUp \/ Stop \/ Finish
  BY <1>3 DEF Poll, CyclesUp, Stop, Finish
<1>4. CASE TileStep
  BY <1>1, <1>4 DEF TileStep
<1>5. CASE UNCHANGED allVars
  BY <1>5 DEF allVars, hVars
<1> QED BY <1>2, <1>3, <1>4, <1>5 DEF HostNext

LEMMA HostInductive == HostSpec => []HostTypeOK /\ []IInv
<1> DEFINE HInv == HostTypeOK /\ IInv
<1>1. HostInit => HInv
  <2>1. HostInit => lost \in BOOLEAN
    BY Zenon DEF HostInit
  <2> QED BY <2>1, InitStep DEF HostInit, HostTypeOK, Zero
<1>2. HInv /\ [HostNext]_allVars => HInv'
  BY HostStepRefines, HostStepTyped, IInvStep
<1> QED BY <1>1, <1>2, PTL DEF HostSpec

\* run_test keeps its own state in its type, and runs no test without a tohost
THEOREM HostTypeCorrect == HostSpec => []HostTypeOK
BY HostInductive, PTL

\* hence a behaviour of the host is one of the tile with its adapter: what the results on
\* the tile are carried over with, and no more than that
LEMMA HostIsTile == HostSpec => Spec
<1>1. HostInit => Init
  BY DEF HostInit
<1>2. HostTypeOK /\ [HostNext]_allVars => [Next]_vars
  BY HostStepRefines
<1> QED BY <1>1, <1>2, HostInductive, PTL DEF HostSpec, Spec

\* the probe engine keeps its sources over any sequence of tests, polls and stops
THEOREM HostSourcesNeverLost == HostSpec => []ProbeSources
BY HostIsTile, SourcesNeverLost, PTL

\* no test finds d_sinks empty when a miss starts, or the sink of a miss given away, with no
\* fewer sinks than misses in flight
THEOREM HostGrantSinksHeld ==
  ASSUME IsFiniteSet(Sinks), IsFiniteSet(MSHRs), Cardinality(MSHRs) <= Cardinality(Sinks)
  PROVE  HostSpec => []GrantSinks
<1>1. Spec => []GrantSinks
  BY GrantSinksHeld
<1> QED BY <1>1, HostIsTile, PTL

\* over any sequence of tests the adapter knows the owners and sends nothing stale
THEOREM HostDataNeverStale == HostSpec => [](OwnersKnown /\ DataFresh /\ RetrievalComplete)
BY HostIsTile, OwnersNeverForgotten, DataNeverStale, RetrievalEndsComplete, PTL

----------------------------------------------------------------------------
(* The signature.                                                          *)

\* where run_test is with the retriever, and what its store to tohost left behind: tohost is
\* seen in memory only after the store, and then atExit does not move any more
Exits ==
  /\ hpc \in {"running", "stopping"} => ~retrieve /\ ~retrieved
  /\ hpc = "retrieving" => retrieve
  /\ \A b \in Blocks : atExit[b] <= latest[b]
  /\ ended = "tohost" => hpc # "running" /\ tohost # None /\ mem[tohost][1] > 0
  /\ ended = "tohost" /\ retrieved => \A b \in Blocks : atExit[b] <= snap[b]
  /\ status = "SUCCESS" => hpc = "idle" /\ ended = "tohost" /\ retrieved /\ ~drive

LEMMA HostTyped ==
  ASSUME HostTypeOK, IInv, Retrieval
  PROVE  /\ latest \in [Blocks -> Nat] /\ snap \in [Blocks -> Nat]
         /\ mem \in [Blocks -> [BeatNo -> Nat]] /\ atExit \in [Blocks -> Nat]
         /\ 1 \in BeatNo /\ None \notin Blocks /\ Tohosts \subseteq Blocks
         /\ tohost # None => /\ tohost \in Cacheable /\ tohost \in Blocks
                             /\ mem[tohost][1] <= latest[tohost]
BY RetrievalTyped, BeatsAssumption, SourcesAssumption, NoneAssumption
   DEF HostTypeOK, Retrieval, BeatNo, Cacheable

\* what the tile and the adapter do while run_test looks elsewhere
LEMMA RunningOnward ==
  ASSUME IInv, Versions, Running
  PROVE  Onward \/ (Retrieve /\ retrieved' /\ UNCHANGED <<retrieve, mem, latest>> /\ (drive' => drive))
<1>1. CASE Retrieve
  <2>1. retrieved' /\ UNCHANGED <<retrieve, mem, latest>>
    BY <1>1 DEF Retrieve, DataRetriever
  <2>2. drive' => drive
    BY <1>1 DEF Retrieve, DataRetriever
  <2> QED BY <1>1, <2>1, <2>2
<1>2. CASE ~Retrieve
  BY <1>2, UncachingOnward, CachingOnward, AnsweringOnward, AdapterOnward DEF Running, Adapter
<1> QED BY <1>1, <1>2

LEMMA TileExits ==
  ASSUME HostTypeOK, IInv, IInv', Versions, Retrieval, Exits, TileStep
  PROVE  Exits'
<1>1. /\ UNCHANGED <<hpc, tohost, ended, status>> /\ Running
      /\ atExit' = IF tohost # None /\ latest[tohost] = 0 /\ latest'[tohost] > 0
                   THEN latest' ELSE atExit
  BY DEF TileStep
<1>2. /\ latest \in [Blocks -> Nat] /\ snap \in [Blocks -> Nat] /\ snap' \in [Blocks -> Nat]
      /\ mem \in [Blocks -> [BeatNo -> Nat]] /\ atExit \in [Blocks -> Nat]
      /\ latest' \in [Blocks -> Nat] /\ mem' \in [Blocks -> [BeatNo -> Nat]]
      /\ 1 \in BeatNo
      /\ tohost # None => /\ tohost \in Cacheable /\ tohost \in Blocks
                          /\ mem[tohost][1] <= latest[tohost]
  BY HostTyped DEF IInv, TypeOK, TileTypes, MemoryTypes
<1>3. Onward \/ (Retrieve /\ retrieved' /\ UNCHANGED <<retrieve, mem, latest>> /\ (drive' => drive))
  BY <1>1, RunningOnward
<1>4. /\ UNCHANGED retrieve /\ (drive' => drive) /\ (retrieved => retrieved')
      /\ \A b \in Blocks : latest'[b] >= latest[b]
      /\ \A b \in Cacheable, i \in BeatNo : mem'[b][i] = mem[b][i] \/ mem'[b][i] = latest'[b]
  BY <1>2, <1>3 DEF Onward
<1>5. retrieved' => retrieved \/ (retrieve /\ snap' = latest /\ latest' = latest)
  BY <1>3 DEF Onward, Retrieve, DataRetriever
<1>6. retrieved => snap' = snap /\ retrieved'
  BY <1>3 DEF Onward, Retrieve, DataRetriever
<1>7. \A b \in Blocks : atExit'[b] <= latest'[b]
  BY <1>1, <1>2, <1>4 DEF Exits
<1>8. ended = "tohost" => /\ latest[tohost] > 0 /\ atExit' = atExit
                          /\ mem[tohost][1] \in Nat /\ mem'[tohost][1] \in Nat
  BY <1>1, <1>2 DEF Exits
<1>9. ended = "tohost" => mem'[tohost][1] > 0
  BY <1>2, <1>4, <1>8 DEF Exits
<1>10. ended = "tohost" /\ retrieved' => \A b \in Blocks : atExit'[b] <= snap'[b]
  BY <1>2, <1>5, <1>6, <1>8 DEF Exits
<1>11. hpc' \in {"running", "stopping"} => ~retrieve' /\ ~retrieved'
  BY <1>1, <1>4, <1>5 DEF Exits
<1> QED BY <1>1, <1>4, <1>6, <1>7, <1>8, <1>9, <1>10, <1>11 DEF Exits

LEMMA HostExits ==
  ASSUME HostTypeOK, IInv, IInv', Versions, Retrieval, Exits, [HostNext]_allVars
  PROVE  Exits'
<1>1. CASE \E mapped \in Images, b \in Tohosts : StartTest(mapped, b)
  <2>1. /\ hpc' = "running" /\ ended' = "no" /\ status' = "no" /\ atExit' = Zero
        /\ latest' = Zero /\ ~retrieve' /\ ~retrieved'
    BY <1>1 DEF StartTest, HostStart, StartAdapter, ResetTile
  <2>2. \A b \in Blocks : atExit'[b] <= latest'[b]
    BY <2>1 DEF Zero
  <2> QED BY <2>1, <2>2 DEF Exits
<1>2. CASE Poll
  <2>1. CASE mem[tohost][1] # 0
    <3>1. /\ UNCHANGED vars /\ hpc = "running" /\ hpc' = "stopping" /\ ended' = "tohost"
          /\ UNCHANGED <<tohost, status, atExit>>
      BY <1>2, <2>1 DEF Poll
    <3>2. UNCHANGED <<mem, latest, retrieve, retrieved, snap, drive>>
      BY <3>1 DEF vars, aVars, tVars
    <3>3. tohost # None /\ mem[tohost][1] > 0
      <4>1. tohost # None
        BY <3>1 DEF HostTypeOK
      <4>2. mem[tohost][1] \in Nat
        BY <4>1, HostTyped
      <4> QED BY <2>1, <4>1, <4>2
    <3> QED BY <3>1, <3>2, <3>3 DEF Exits
  <2>2. CASE mem[tohost][1] = 0
    <3>1. HostProbe(tohost) /\ UNCHANGED <<hpc, ended, tohost, status, atExit>>
      BY <1>2, <2>2 DEF Poll
    <3>2. UNCHANGED <<mem, latest, retrieve, retrieved, snap, drive>>
      BY <3>1 DEF HostProbe, ProbeBlock, tVars
    <3> QED BY <3>1, <3>2 DEF Exits
  <2> QED BY <2>1, <2>2
<1>3. CASE CyclesUp
  <2>1. UNCHANGED <<mem, latest, retrieve, retrieved, snap, drive>>
    BY <1>3 DEF CyclesUp, vars, aVars, tVars
  <2> QED BY <1>3, <2>1 DEF CyclesUp, Exits
<1>4. CASE Stop
  <2>1. UNCHANGED <<mem, latest, retrieved, snap, drive>> /\ retrieve'
    BY <1>4 DEF Stop, HostStop, StopAdapter, tVars
  <2> QED BY <1>4, <2>1 DEF Stop, Exits
<1>5. CASE Finish
  <2>1. UNCHANGED <<mem, latest, retrieve, retrieved, snap, drive>>
    BY <1>5 DEF Finish, vars, aVars, tVars
  <2>2. retrieved
    BY <1>5 DEF Finish, Exits, Retrieval
  <2> QED BY <1>5, <2>1, <2>2 DEF Finish, Exits
<1>6. CASE UNCHANGED allVars
  <2>1. UNCHANGED <<mem, latest, retrieve, retrieved, snap, drive, hVars>>
    BY <1>6 DEF allVars, vars, aVars, tVars
  <2> QED BY <2>1 DEF hVars, Exits
<1> QED BY <1>1, <1>2, <1>3, <1>4, <1>5, <1>6, TileExits DEF HostNext

\* host.py:170-200: a test that succeeds saves a signature from a memory that holds every
\* store made before the one to tohost, wherever the cache had them when tohost was seen
THEOREM SignatureAlwaysComplete == HostSpec => []SignatureComplete
<1> DEFINE HInv == HostTypeOK /\ IInv /\ Versions /\ Retrieval
<1>1. HostSpec => []HInv
  <2>1. DataIInv => Versions
    BY DEF DataIInv
  <2> QED BY <2>1, HostInductive, HostIsTile, DataInductive, RetrievalInductive, PTL
<1>2. HostInit => Exits
  BY DEF HostInit, Init, InitAdapter, InitTile, Exits, Zero
<1>3. HInv /\ HInv' /\ Exits /\ [HostNext]_allVars => Exits'
  BY HostExits
<1>4. HInv /\ Exits => SignatureComplete
  <2> SUFFICES ASSUME HInv, Exits, status = "SUCCESS"
               PROVE  /\ mem[tohost][1] > 0
                      /\ \A b \in Cacheable, i \in BeatNo : mem[b][i] >= atExit[b]
    BY DEF SignatureComplete
  <2>1. retrieved /\ ~drive /\ ended = "tohost" /\ mem[tohost][1] > 0
    BY DEF Exits
  <2> SUFFICES ASSUME NEW b \in Cacheable, NEW i \in BeatNo
               PROVE  mem[b][i] >= atExit[b]
    BY <2>1
  <2>2. b \in Blocks /\ mem[b][i] \in Nat /\ snap[b] \in Nat /\ atExit[b] \in Nat
    BY HostTyped, RetrievalTyped
  <2>3. ~(mem[b][i] < snap[b])
    BY <2>1 DEF Retrieval, Behind
  <2>4. atExit[b] <= snap[b]
    BY <2>1, <2>2 DEF Exits
  <2> QED BY <2>2, <2>3, <2>4
<1> HIDE DEF HInv
<1> QED BY <1>1, <1>2, <1>3, <1>4, PTL DEF HostSpec
----------------------------------------------------------------------------
(* The interface to the host.                                              *)

\* the answer to a probe of tohost sets probe_en again; such a probe is asked for once
Enables(cb) == cb.kind = "enableProbe"
Awaits(st)  == \/ \E s \in BSrcs : Enables(st.callback[s])
               \/ \E i \in DOMAIN st.waiting : Enables(st.waiting[i].then)
AwaitsOnce(st) ==
  /\ \A s, q \in BSrcs : Enables(st.callback[s]) /\ Enables(st.callback[q]) => s = q
  /\ \A i, j \in DOMAIN st.waiting :
       Enables(st.waiting[i].then) /\ Enables(st.waiting[j].then) => i = j
  /\ \A i \in DOMAIN st.waiting, s \in BSrcs :
       ~(Enables(st.waiting[i].then) /\ Enables(st.callback[s]))

\* what InterfaceKept says of probe_en, and that no second answer is on its way: it would
\* set probe_en while a later probe is not answered
Reserved == AwaitsOnce(bch) /\ (probeEn <=> ~Awaits(bch))

\* what InterfaceKept says of ongoing_tlc
TakenFor(b) == \A s \in Sinks : ongoingTlc[s] = b => s \notin dFree

LEMMA IssueAwaits ==
  ASSUME NEW st \in Engines, NEW rq \in Requests, FreeIsIdle(st), AwaitsOnce(st),
         Enables(rq.then) => ~Awaits(st), NEW st2 \in Issue(st, rq)
  PROVE  AwaitsOnce(st2) /\ (Awaits(st2) <=> Awaits(st) \/ Enables(rq.then))
<1>1. PICK s \in st.free :
        st2 = [st EXCEPT !.free = @ \ {s}, !.callback[s] = rq.then,
                         !.queue = Append(@, [src |-> s, block |-> rq.block, cap |-> rq.cap])]
  BY DEF Issue
<1>2. s \in BSrcs /\ st2.waiting = st.waiting
      /\ st2.callback = [st.callback EXCEPT ![s] = rq.then]
  BY <1>1 DEF Engines
<1>3. /\ \A q \in BSrcs : st2.callback[q] = IF q = s THEN rq.then ELSE st.callback[q]
      /\ ~Enables(st.callback[s])
  BY <1>2 DEF Engines, FreeIsIdle, Enables, NoCallback
<1>4. AwaitsOnce(st2)
  BY <1>2, <1>3 DEF AwaitsOnce, Awaits
<1>5. Awaits(st2) <=> Awaits(st) \/ Enables(rq.then)
  BY <1>2, <1>3 DEF Awaits
<1> QED BY <1>4, <1>5

LEMMA RetrieveAwaits ==
  ASSUME NEW st \in Engines, NEW rq \in Requests, FreeIsIdle(st), AwaitsOnce(st),
         Enables(rq.then) => ~Awaits(st), NEW st2 \in RetrieveBlock(st, rq)
  PROVE  AwaitsOnce(st2) /\ (Awaits(st2) <=> Awaits(st) \/ Enables(rq.then))
<1>1. CASE st.free # {}
  BY <1>1, IssueAwaits DEF RetrieveBlock
<1>2. CASE st.free = {}
  <2>1. st2.callback = st.callback /\ st2.waiting = Append(st.waiting, rq)
    BY <1>2 DEF RetrieveBlock, Engines
  <2>2. /\ DOMAIN st.waiting = 1..Len(st.waiting) /\ Len(st.waiting) \in Nat
        /\ DOMAIN st2.waiting = 1..(Len(st.waiting) + 1)
        /\ \A i \in 1..Len(st.waiting) : st2.waiting[i] = st.waiting[i]
        /\ st2.waiting[Len(st.waiting) + 1] = rq
    BY <2>1, AppendProperties DEF Engines
  <2>3. /\ \A i \in DOMAIN st2.waiting :
             \/ i \in DOMAIN st.waiting /\ st2.waiting[i] = st.waiting[i]
             \/ i = Len(st.waiting) + 1 /\ st2.waiting[i] = rq
        /\ \A i \in DOMAIN st.waiting : i \in DOMAIN st2.waiting /\ st2.waiting[i] = st.waiting[i]
        /\ \E i \in DOMAIN st2.waiting : st2.waiting[i] = rq
    BY <2>2
  <2>4. AwaitsOnce(st2)
    BY <2>1, <2>3 DEF AwaitsOnce, Awaits
  <2>5. Awaits(st2) <=> Awaits(st) \/ Enables(rq.then)
    BY <2>1, <2>3 DEF Awaits
  <2> QED BY <2>4, <2>5
<1> QED BY <1>1, <1>2

\* a request that waits is issued: it is still asked for once
LEMMA ReleaseAwaits ==
  ASSUME NEW st \in Engines, NEW s \in BSrcs, FreeIsIdle(st),
         st.callback[s] = NoCallback, s \notin QueuedSrcs(st),
         AwaitsOnce(st), NEW st2 \in Release(st, s)
  PROVE  AwaitsOnce(st2) /\ (Awaits(st2) <=> Awaits(st))
<1> DEFINE back == [st EXCEPT !.free = @ \cup {s}]
<1>1. /\ back.free = st.free \cup {s} /\ back.queue = st.queue
      /\ back.callback = st.callback /\ back.waiting = st.waiting
      /\ back \in Engines
  BY DEF Engines
<1>2. CASE st.waiting = <<>>
  <2>1. st2 = back
    BY <1>2 DEF Release
  <2> HIDE DEF back
  <2> QED BY <1>1, <2>1 DEF AwaitsOnce, Awaits
<1>3. CASE st.waiting # <<>>
  <2> DEFINE woken == [back EXCEPT !.waiting = Tail(@)]
             rq    == Head(st.waiting)
  <2>1. /\ woken.free = back.free /\ woken.queue = back.queue
        /\ woken.callback = back.callback /\ woken.waiting = Tail(st.waiting)
    BY <1>1 DEF Engines
  <2>2. rq \in Requests /\ Tail(st.waiting) \in Seq(Requests)
    BY <1>3, HeadTailProperties DEF Engines
  <2>3. woken \in Engines
    BY <1>1, <2>1, <2>2 DEF Engines
  <2>4. st2 \in Issue(woken, rq)
    BY <1>1, <1>3 DEF Release
  <2> HIDE DEF woken, back
  <2>5. FreeIsIdle(woken)
    BY <1>1, <2>1 DEF FreeIsIdle, QueuedSrcs
  <2>6. /\ DOMAIN st.waiting = 1..Len(st.waiting) /\ Len(st.waiting) \in Nat \ {0}
        /\ rq = st.waiting[1]
        /\ DOMAIN woken.waiting = 1..(Len(st.waiting) - 1)
        /\ \A i \in 1..(Len(st.waiting) - 1) : woken.waiting[i] = st.waiting[i + 1]
    BY <1>3, <2>1, HeadTailProperties, EmptySeq DEF Engines
  <2>7. /\ 1 \in DOMAIN st.waiting
        /\ \A i \in DOMAIN woken.waiting :
             i + 1 \in DOMAIN st.waiting /\ i + 1 # 1 /\ woken.waiting[i] = st.waiting[i + 1]
        /\ \A i \in DOMAIN woken.waiting, j \in DOMAIN woken.waiting : i + 1 = j + 1 => i = j
    BY <2>6
  <2>8. \A i \in DOMAIN st.waiting : i = 1 \/ \E j \in DOMAIN woken.waiting :
                                                 woken.waiting[j] = st.waiting[i]
    <3> SUFFICES ASSUME NEW i \in DOMAIN st.waiting, i # 1
                 PROVE  \E j \in DOMAIN woken.waiting : woken.waiting[j] = st.waiting[i]
      OBVIOUS
    <3>1. i - 1 \in DOMAIN woken.waiting /\ (i - 1) + 1 = i
      BY <2>6
    <3> QED BY <2>6, <3>1
  <2>9. woken.callback = st.callback
    BY <1>1, <2>1
  <2>10. AwaitsOnce(woken)
    <3>1. ASSUME NEW i \in DOMAIN woken.waiting, NEW j \in DOMAIN woken.waiting,
                 Enables(woken.waiting[i].then), Enables(woken.waiting[j].then)
          PROVE  i = j
      <4>1. i + 1 = j + 1
        BY <2>7, <3>1 DEF AwaitsOnce
      <4> QED BY <2>7, <4>1
    <3> QED BY <2>7, <2>9, <3>1 DEF AwaitsOnce
  <2>11. Enables(rq.then) => ~Awaits(woken)
    <3> SUFFICES ASSUME Enables(st.waiting[1].then)
                 PROVE  ~Awaits(woken)
      BY <2>6
    <3>1. \A i \in DOMAIN woken.waiting : ~Enables(woken.waiting[i].then)
      BY <2>7 DEF AwaitsOnce
    <3>2. \A q \in BSrcs : ~Enables(woken.callback[q])
      BY <2>7, <2>9 DEF AwaitsOnce
    <3> QED BY <3>1, <3>2 DEF Awaits
  <2>12. Awaits(st) <=> Awaits(woken) \/ Enables(rq.then)
    <3> HIDE DEF rq
    <3> QED BY <2>6, <2>7, <2>8, <2>9 DEF Awaits
  <2> HIDE DEF rq
  <2> QED BY <2>2, <2>3, <2>4, <2>5, <2>10, <2>11, <2>12, IssueAwaits
<1> QED BY <1>2, <1>3

\* a probe was answered: it is no longer awaited, and what the callback and the release of
\* the source ask for is no probe of tohost
LEMMA CalledAwaits ==
  ASSUME IInv, AwaitsOnce(bch), NEW src \in Outside, CallAndRelease(src)
  PROVE  /\ AwaitsOnce(bch')
         /\ Awaits(bch') <=> Awaits(bch) /\ ~Enables(bch.callback[src])
<1> DEFINE cb     == bch.callback[src]
           called == [bch EXCEPT !.callback[src] = NoCallback]
           chain  == cb.kind = "probe_blocks"
<1>1. /\ bch \in Engines /\ cb \in Callbacks /\ src \in BSrcs
      /\ EngineOK(bch, Outside, {}) /\ FreeIsIdle(bch)
      /\ src \notin bch.free /\ src \notin QueuedSrcs(bch)
  BY EngineFacts DEF Engines, EngineOK, SourcesOK
<1>2. /\ called.free = bch.free /\ called.queue = bch.queue /\ called.waiting = bch.waiting
      /\ called.callback = [bch.callback EXCEPT ![src] = NoCallback]
      /\ called \in Engines
  BY <1>1 DEF Engines, Callbacks
<1>3. \A q \in BSrcs : called.callback[q] = IF q = src THEN NoCallback ELSE bch.callback[q]
  BY <1>1, <1>2 DEF Engines
<1>4. EngineOK(called, Outside, {src}) /\ FreeIsIdle(called)
  BY <1>1, <1>2, <1>3 DEF EngineOK, SourcesOK, QueuedSrcs, FreeIsIdle
<1>5. PICK st \in IF chain /\ cb.rest # {} THEN ProbeNext(called, cb.rest) ELSE {called} :
        bch' \in Release(st, src)
  BY DEF CallAndRelease
<1>6. ~Enables(NoCallback)
  BY DEF Enables, NoCallback
<1>7. AwaitsOnce(called)
  BY <1>2, <1>3, <1>6 DEF AwaitsOnce
<1>8. Awaits(called) <=> Awaits(bch) /\ ~Enables(cb)
  <2>1. Enables(cb) => \A q \in BSrcs : Enables(bch.callback[q]) => q = src
    BY <1>1 DEF AwaitsOnce
  <2>2. Enables(cb) => \A i \in DOMAIN bch.waiting : ~Enables(bch.waiting[i].then)
    BY <1>1 DEF AwaitsOnce
  <2> HIDE DEF called
  <2> QED BY <1>1, <1>2, <1>3, <1>6, <2>1, <2>2 DEF Awaits
<1> HIDE DEF called
<1>9. st \in Engines /\ EngineOK(st, Outside, {src}) /\ AwaitsOnce(st) /\ (Awaits(st) <=> Awaits(called))
  <2>1. CASE chain /\ cb.rest # {}
    <3>1. cb.rest \in SUBSET Blocks /\ st \in ProbeNext(called, cb.rest)
      BY <1>1, <1>5, <2>1 DEF Callbacks, Pending, NoCallback
    <3>2. st \in Engines /\ EngineOK(st, Outside, {src})
      BY <1>2, <1>4, <3>1, ProbeNextKeeps
    <3> DEFINE rq(b) == Request(b, "toN", [kind |-> "probe_blocks", rest |-> cb.rest \ {b}])
    <3>3. PICK b \in cb.rest : st \in RetrieveBlock(called, rq(b))
      BY <3>1 DEF ProbeNext
    <3>4. rq(b) \in Requests /\ ~Enables(rq(b).then)
      BY <3>1 DEF Request, Requests, Pending, Caps, Enables
    <3> HIDE DEF rq
    <3> QED BY <1>2, <1>4, <1>7, <3>2, <3>3, <3>4, RetrieveAwaits
  <2>2. CASE ~(chain /\ cb.rest # {})
    BY <1>2, <1>4, <1>5, <1>7, <2>2
  <2> QED BY <2>1, <2>2
<1>10. FreeIsIdle(st) /\ st.callback[src] = NoCallback /\ src \notin QueuedSrcs(st)
  BY <1>1, <1>9 DEF EngineOK, SourcesOK, FreeIsIdle, Engines
<1>11. AwaitsOnce(bch') /\ (Awaits(bch') <=> Awaits(st))
  BY <1>1, <1>5, <1>9, <1>10, ReleaseAwaits
<1> QED BY <1>8, <1>9, <1>11

LEMMA CalledReserved ==
  ASSUME IInv, Reserved, NEW src \in Outside, CallAndRelease(src)
  PROVE  Reserved'
<1>1. probeEn' <=> probeEn \/ Enables(bch.callback[src])
  BY DEF CallAndRelease, Enables
<1>2. src \in BSrcs
  BY EngineFacts
<1>3. Enables(bch.callback[src]) => Awaits(bch)
  BY <1>2 DEF Awaits
<1>4. AwaitsOnce(bch') /\ (Awaits(bch') <=> Awaits(bch) /\ ~Enables(bch.callback[src]))
  BY CalledAwaits DEF Reserved
<1> QED BY <1>1, <1>3, <1>4 DEF Reserved

LEMMA RequestReserved ==
  ASSUME IInv, Reserved, NEW rq \in Requests, ~Enables(rq.then),
         bch' \in RetrieveBlock(bch, rq), probeEn' = probeEn
  PROVE  Reserved'
<1>1. AwaitsOnce(bch') /\ (Awaits(bch') <=> Awaits(bch))
  BY EngineFacts, RetrieveAwaits DEF Reserved
<1> QED BY <1>1 DEF Reserved

LEMMA SameReserved ==
  ASSUME Reserved, UNCHANGED <<bch, probeEn>>
  PROVE  Reserved'
BY DEF Reserved

\* what the tile and the adapter do between two steps of the host
LEMMA RunningReserved ==
  ASSUME IInv, Reserved, Running
  PROVE  Reserved'
<1>1. TypeOK /\ GSrcs \subseteq ASrcs /\ pend \subseteq Probes
  BY DEF IInv, TypeOK, EngineTypes, ASrcs
<1>2. CASE Uncaching
  <2>1. ASSUME NEW g \in GSrcs, NEW b \in Blocks, Get(g, b)
        PROVE  Reserved'
    <3>1. HandleGet(g, b) /\ probeEn' = probeEn
      BY <2>1 DEF Get, HandleGet, hostVars
    <3>2. CASE IsTip(b)
      BY <3>1, <3>2, SameReserved DEF HandleGet
    <3>3. CASE ~IsTip(b)
      <4> DEFINE rq == Request(b, "toT", [kind |-> "AccessAckData_cb", src |-> g, block |-> b])
      <4>1. rq \in Requests /\ ~Enables(rq.then) /\ bch' \in RetrieveBlock(bch, rq)
        BY <3>1, <3>3 DEF HandleGet, Request, Requests, Pending, Caps, Enables
      <4> HIDE DEF rq
      <4> QED BY <3>1, <4>1, RequestReserved
    <3> QED BY <3>2, <3>3
  <2>2. ASSUME NEW g \in GSrcs, NEW b \in Blocks, Intent(g, b)
        PROVE  Reserved'
    BY <2>2, SameReserved DEF Intent, HandleIntent, hostVars
  <2>3. ASSUME NEW g \in GSrcs, NEW b \in Uncached, Atomic(g, b) \/ PutFirst(g, b)
        PROVE  Reserved'
    BY <2>3, SameReserved DEF Atomic, HandleAtomic, PutFirst, HandlePut, hostVars
  <2>4. CASE PutBeat
    BY <2>4, SameReserved DEF PutBeat, HandlePut, hostVars
  <2> QED BY <1>2, <2>1, <2>2, <2>3, <2>4 DEF Uncaching
<1>3. CASE Caching
  <2>1. ASSUME NEW m \in MSHRs, NEW b \in Cacheable, NEW grow \in {"NtoB", "NtoT", "BtoT"},
               AcquireBlock(m, b, grow)
        PROVE  Reserved'
    <3>1. HandleAcquireBlock(m, b, grow) /\ b \in Blocks /\ CapFor(grow) \in {"toT", "toB"}
      BY <2>1 DEF AcquireBlock, Cacheable, CapFor
    <3>2. probeEn' = probeEn
      BY <3>1 DEF HandleAcquireBlock, hostVars
    <3>3. CASE IsTip(b)
      BY <3>1, <3>2, <3>3, SameReserved DEF HandleAcquireBlock
    <3>4. CASE ~IsTip(b)
      <4> DEFINE rq(sink) == Request(b, IF grow = "NtoB" THEN "toB" ELSE "toN",
                                     [kind |-> "GrantData_cb", src |-> m, sink |-> sink,
                                      block |-> b, param |-> CapFor(grow)])
      <4>1. PICK sink \in dFree : bch' \in RetrieveBlock(bch, rq(sink))
        BY <3>1, <3>4 DEF HandleAcquireBlock
      <4>2. sink \in Sinks
        BY <1>1 DEF TypeOK, ChannelTypes
      <4>3. rq(sink) \in Requests /\ ~Enables(rq(sink).then)
        BY <3>1, <4>2 DEF Request, Requests, Pending, Caps, Enables
      <4> HIDE DEF rq
      <4> QED BY <3>2, <4>1, <4>3, RequestReserved
    <3> QED BY <3>3, <3>4
  <2>2. ASSUME NEW m \in MSHRs, NEW b \in Cacheable, AcquirePerm(m, b)
        PROVE  Reserved'
    BY <2>2, SameReserved DEF AcquirePerm, HandleAcquirePerm, hostVars
  <2>3. ASSUME NEW b \in Cacheable, Store(b) \/ ReleaseClean(b) \/ StartReleaseData(b)
        PROVE  Reserved'
    BY <2>3, SameReserved DEF Store, ReleaseClean, HandleRelease, StartReleaseData, hostVars, aVars
  <2>4. ASSUME NEW m \in MSHRs, GrantAck(m)
        PROVE  Reserved'
    BY <2>4, SameReserved DEF GrantAck, HandleGrantAck, hostVars
  <2> QED BY <1>3, <2>1, <2>2, <2>3, <2>4 DEF Caching
<1>4. CASE Answering
  <2>1. CASE ReceiveProbe
    BY <2>1, SameReserved DEF ReceiveProbe, FireB, hostVars
  <2>2. CASE BurstBeat
    <3>1. CASE cBurst.op = "ProbeAckData" /\ LastBeat(cBurst.src)
      <4>1. CallAndRelease(cBurst.src) /\ cBurst.src \in Outside
        <5>1. cBurst # None /\ CallAndRelease(cBurst.src)
          BY <2>2, <3>1 DEF BurstBeat, HandleProbeAckData
        <5>2. cBurst.src # RelSrc
          BY <1>1, <3>1, <5>1, NoneAssumption
             DEF TypeOK, EngineTypes, Bursts, AckBursts, RelBursts
        <5> QED BY <5>1, <5>2 DEF Outside, InAnswer
      <4> QED BY <4>1, CalledReserved
    <3>2. CASE ~(cBurst.op = "ProbeAckData" /\ LastBeat(cBurst.src))
      <4>1. UNCHANGED <<bch, probeEn>>
        BY <2>2, <3>2 DEF BurstBeat, HandleProbeAckData, HandleReleaseData, hostVars
      <4> QED BY <4>1, SameReserved
    <3> QED BY <3>1, <3>2
  <2>3. CASE ReceiveD
    BY <2>3, SameReserved DEF ReceiveD, FireD, hostVars
  <2>4. ASSUME NEW p \in pend, ProbeAck(p)
        PROVE  Reserved'
    BY <2>4, ProbeAckCases, CalledReserved
  <2>5. ASSUME NEW p \in pend, StartProbeAckData(p)
        PROVE  Reserved'
    BY <2>5, SameReserved DEF StartProbeAckData, aVars
  <2> QED BY <1>4, <2>1, <2>2, <2>3, <2>4, <2>5 DEF Answering
<1>5. CASE DriveD
  BY <1>5, SameReserved DEF DriveD, PopD, hostVars
<1>6. CASE DriveB
  <2>1. bch'.callback = bch.callback /\ bch'.waiting = bch.waiting /\ probeEn' = probeEn
    BY <1>1, <1>6 DEF DriveB, PopB, hostVars, TypeOK, EngineTypes, Engines
  <2> QED BY <2>1 DEF Reserved, AwaitsOnce, Awaits
<1>7. CASE Retrieve
  <2> DEFINE trunk == {b \in Blocks : perm[b] = "TRUNK"}
             rq(b) == Request(b, "toN", [kind |-> "probe_blocks", rest |-> trunk \ {b}])
  <2>1. probeEn' = probeEn /\ (trunk = {} => UNCHANGED bch) /\ (trunk # {} => bch' \in ProbeNext(bch, trunk))
    BY <1>7 DEF Retrieve, DataRetriever
  <2>2. CASE trunk = {}
    BY <2>1, <2>2, SameReserved
  <2>3. CASE trunk # {}
    <3>1. PICK b \in trunk : bch' \in RetrieveBlock(bch, rq(b))
      BY <2>1, <2>3 DEF ProbeNext
    <3>2. rq(b) \in Requests /\ ~Enables(rq(b).then)
      BY DEF Request, Requests, Pending, Caps, Enables
    <3> HIDE DEF rq, trunk
    <3> QED BY <2>1, <3>1, <3>2, RequestReserved
  <2> QED BY <2>2, <2>3
<1>8. CASE ProbeTohost
  <2> DEFINE rq == Request(probeAddr, "toN", [kind |-> "enableProbe"])
  <2>1. bch' \in RetrieveBlock(bch, rq) /\ probeEn' = FALSE /\ probeEn /\ probe
    BY <1>8 DEF ProbeTohost, HostInterface, HostProbes
  <2>2. rq \in Requests /\ Enables(rq.then)
    BY <1>1, <2>1 DEF TypeOK, HostTypes, Request, Requests, Pending, Caps, Enables
  <2> HIDE DEF rq
  <2>3. ~Awaits(bch) /\ AwaitsOnce(bch)
    BY <2>1 DEF Reserved
  <2>4. AwaitsOnce(bch') /\ Awaits(bch')
    BY <2>1, <2>2, <2>3, EngineFacts, RetrieveAwaits
  <2> QED BY <2>1, <2>4 DEF Reserved
<1> QED BY <1>2, <1>3, <1>4, <1>5, <1>6, <1>7, <1>8 DEF Running, Adapter

\* a block enters ongoing_tlc under a sink its miss has taken, and leaves with it
LEMMA RunningTaken ==
  ASSUME IInv, MemoryTypes', OneAnswer, SinksHeld, NEW b \in Blocks, TakenFor(b), Running
  PROVE  TakenFor(b)'
<1>1. PICK at \in [MSHRs -> Sinks \cup {None}] : SinksAt(at)
  BY DEF SinksHeld
<1>2. TypeOK /\ b # None /\ ongoingTlc \in [Sinks -> Blocks \cup {None}]
  BY NoneAssumption DEF IInv, TypeOK, ChannelTypes
<1>3. CASE Tame
  <2>1. dFree' = dFree
    BY <1>3 DEF Tame
  <2>2. CASE ongoingTlc' = ongoingTlc
    BY <2>1, <2>2 DEF TakenFor
  <2>3. ASSUME NEW cb, Called(cb)
        PROVE  TakenFor(b)'
    <3>1. /\ cb \in CbsOf(bch) /\ cb.kind = "GrantData_cb"
          /\ ongoingTlc' = [ongoingTlc EXCEPT ![cb.sink] = cb.block]
      BY <2>3 DEF Called
    <3>2. cb.src \in MSHRs /\ cb.sink \in Sinks /\ cb.sink = at[cb.src]
      BY <1>1, <3>1, SourcesBusy DEF SinksAt
    <3>3. cb.sink \notin dFree
      BY <1>1, <3>2 DEF SinksAt
    <3> QED BY <1>2, <2>1, <3>1, <3>2, <3>3 DEF TakenFor
  <2> QED BY <1>3, <2>2, <2>3 DEF Tame
<1>4. ASSUME NEW m \in MSHRs, NEW c \in Cacheable,
             \/ \E grow \in {"NtoB", "NtoT", "BtoT"} : AcquireBlock(m, c, grow)
             \/ AcquirePerm(m, c)
      PROVE  TakenFor(b)'
  <2>1. PICK sink \in dFree : Acquired(m, c, sink)
    BY <1>4, AcquireCases
  <2>2. dFree' = dFree \ {sink} /\ sink \in Sinks
    BY <2>1 DEF Acquired
  <2>3. ongoingTlc' = ongoingTlc \/ ongoingTlc' = [ongoingTlc EXCEPT ![sink] = c]
    BY <2>1 DEF Acquired, GrantPushed, GrantAsked
  <2> QED BY <1>2, <2>2, <2>3 DEF TakenFor
<1>5. ASSUME NEW m \in MSHRs, GrantAck(m)
      PROVE  TakenFor(b)'
  <2>1. /\ dFree' = dFree \cup {mshr[m].sink}
        /\ ongoingTlc' = [ongoingTlc EXCEPT ![mshr[m].sink] = None]
    BY <1>5 DEF GrantAck, HandleGrantAck
  <2> QED BY <1>2, <2>1 DEF TakenFor
<1>6. CASE ReceiveD
  BY <1>6, ReceiveDCases DEF TakenFor
<1>7. CASE Uncaching \/ Adapter
  BY <1>3, <1>7, UncachingTame, AdapterTame
<1>8. CASE Caching
  BY <1>3, <1>4, <1>5, <1>8, CacheTame DEF Caching
<1>9. CASE Answering
  <2>1. CASE ReceiveD
    BY <1>6, <2>1
  <2>2. CASE ~ReceiveD
    BY <1>3, <1>9, <2>2, ProbesTame DEF Answering
  <2> QED BY <2>1, <2>2
<1> QED BY <1>7, <1>8, <1>9 DEF Running

\* what a test that began with a free interface keeps
Interface == ~lost => Reserved /\ (tohost # None => TakenFor(tohost))

LEMMA HostInterfaceKept ==
  ASSUME HostTypeOK, IInv, IInv', OneAnswer, SinksHeld, Interface, [HostNext]_allVars
  PROVE  Interface'
<1>1. ASSUME UNCHANGED <<bch, probeEn, ongoingTlc, dFree, tohost, lost>>
      PROVE  Interface'
  BY <1>1 DEF Interface, Reserved, TakenFor
<1>2. CASE \E mapped \in Images, b \in Tohosts : StartTest(mapped, b)
  <2>1. PICK mapped \in Images, b \in Tohosts : StartTest(mapped, b)
    BY <1>2
  <2>2. /\ bch' = IdleProbes /\ tohost' = b /\ UNCHANGED <<probeEn, ongoingTlc>>
        /\ ~lost' => probeEn /\ \A s \in Sinks : ongoingTlc[s] # b
    BY <2>1 DEF StartTest, HostStart, StartAdapter
  <2>3. AwaitsOnce(bch') /\ ~Awaits(bch')
    BY <2>2 DEF IdleProbes, AwaitsOnce, Awaits, Enables, NoCallback
  <2> QED BY <2>2, <2>3 DEF Interface, Reserved, TakenFor
<1>3. CASE Poll
  <2>1. CASE mem[tohost][1] # 0
    BY <1>1, <1>3, <2>1 DEF Poll, vars, aVars
  <2>2. CASE mem[tohost][1] = 0
    BY <1>1, <1>3, <2>2 DEF Poll, HostProbe, ProbeBlock
  <2> QED BY <2>1, <2>2
<1>4. CASE CyclesUp \/ Finish
  BY <1>1, <1>4 DEF CyclesUp, Finish, vars, aVars
<1>5. CASE Stop
  BY <1>1, <1>5 DEF Stop, HostStop, StopAdapter
<1>6. CASE TileStep
  <2>1. Running /\ UNCHANGED <<tohost, lost>>
    BY <1>6 DEF TileStep
  <2>2. tohost # None => tohost \in Blocks
    BY SourcesAssumption DEF HostTypeOK
  <2>3. MemoryTypes'
    BY DEF IInv, TypeOK
  <2>4. ~lost => Reserved'
    BY <2>1, RunningReserved DEF Interface
  <2>5. ~lost /\ tohost # None => TakenFor(tohost)'
    BY <2>1, <2>2, <2>3, RunningTaken DEF Interface, TakenFor
  <2> QED BY <2>1, <2>4, <2>5 DEF Interface
<1>7. CASE UNCHANGED allVars
  BY <1>1, <1>7 DEF allVars, hVars, vars, aVars
<1> QED BY <1>2, <1>3, <1>4, <1>5, <1>6, <1>7 DEF HostNext

\* adapter.py:711-747: a test that began with a free host_interface gives it back, whatever
\* acquires, releases and answers fall around its probes of tohost
THEOREM InterfaceAlwaysKept == HostSpec => []InterfaceKept
<1> DEFINE HInv == HostTypeOK /\ IInv /\ OneAnswer /\ SinksHeld
<1>1. HostSpec => []HInv
  <2>1. DataIInv => OneAnswer /\ SinksHeld
    BY DEF DataIInv
  <2> QED BY <2>1, HostInductive, HostIsTile, DataInductive, PTL
<1>2. HostInit => Interface
  BY DEF HostInit, Init, InitAdapter, Interface, Reserved, IdleProbes, AwaitsOnce, Awaits,
         Enables, NoCallback
<1>3. HInv /\ HInv' /\ Interface /\ [HostNext]_allVars => Interface'
  BY HostInterfaceKept
<1>4. Interface => InterfaceKept
  BY DEF Interface, Reserved, Awaits, Enables, TakenFor, InterfaceKept, Asking
<1> HIDE DEF HInv
<1> QED BY <1>1, <1>2, <1>3, <1>4, PTL DEF HostSpec

=============================================================================
