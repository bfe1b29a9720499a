--------------------------- MODULE TLData_proofs ---------------------------
(***************************************************************************)
(* Proofs about the data and the ids of the TileLink adapter, for any      *)
(* number of blocks, beats and ids. A request of channel A has one answer  *)
(* at a time on its way: a callback of a probe, a message in the queue of  *)
(* channel D or the one on its port. From this follow, in turn: a sink     *)
(* belongs to one miss, block_perm knows the owner of each block, memory   *)
(* is current wherever no owner has modified the block, and what is sent   *)
(* to the tile is current too.                                             *)
(***************************************************************************)
EXTENDS TLTile_proofs, FiniteSetTheorems

----------------------------------------------------------------------------
(* Answers on their way. *)

Replies(cb) == cb.kind \in {"AccessAckData_cb", "GrantData_cb"}

\* the callbacks of an engine, and the sources whose answer they are to send
CbsOf(st)   == {st.waiting[i].then : i \in DOMAIN st.waiting} \cup {st.callback[s] : s \in BSrcs}
AskedIn(st) == {cb.src : cb \in {c \in CbsOf(st) : Replies(c)}}

\* no source is answered by two callbacks
OncePerSource(st) ==
  /\ \A i, j \in DOMAIN st.waiting :
       Replies(st.waiting[i].then) /\ Replies(st.waiting[j].then)
       /\ st.waiting[i].then.src = st.waiting[j].then.src => i = j
  /\ \A s, t \in BSrcs :
       Replies(st.callback[s]) /\ Replies(st.callback[t])
       /\ st.callback[s].src = st.callback[t].src => s = t
  /\ \A i \in DOMAIN st.waiting, s \in BSrcs :
       Replies(st.waiting[i].then) /\ Replies(st.callback[s])
       => st.waiting[i].then.src # st.callback[s].src

\* a callback that answers a Get reads the block that was probed for it; one of the
\* retriever's chain leaves out no block of W
Reads(cb, b)   == cb.kind = "AccessAckData_cb" => cb.block = b
Fits(cb, b, W) == Reads(cb, b) /\ (cb.kind = "probe_blocks" => W \subseteq cb.rest \cup {b})
AllFit(st, W) ==
  /\ \A i \in DOMAIN st.waiting : Fits(st.waiting[i].then, st.waiting[i].block, W)
  /\ \A i \in DOMAIN st.queue : Fits(st.callback[st.queue[i].src], st.queue[i].block, W)

InQueue == {dQueue[i].src : i \in DOMAIN dQueue} \ {RelSrc}
OnD     == (IF dOut = None THEN {} ELSE {dOut.msg.src}) \ {RelSrc}
Putting == IF aBurst = None THEN {} ELSE {aBurst.src}
Busy    == {m \in MSHRs : mshr[m] # None /\ mshr[m].sink = None}
           \cup {g \in GSrcs : gets[g] # None}

QueueOnce ==
  \A i, j \in DOMAIN dQueue : dQueue[i].src = dQueue[j].src /\ dQueue[i].src # RelSrc => i = j

OneAnswer ==
  /\ OncePerSource(bch)
  /\ QueueOnce
  /\ AskedIn(bch) \cup InQueue \cup OnD \cup Putting \subseteq Busy
  /\ AskedIn(bch) \cap InQueue = {} /\ AskedIn(bch) \cap OnD = {} /\ AskedIn(bch) \cap Putting = {}
  /\ InQueue \cap OnD = {} /\ InQueue \cap Putting = {} /\ OnD \cap Putting = {}

----------------------------------------------------------------------------
(* Misses and sinks. *)

Miss(b) == [block |-> b, sink |-> None]

Misses ==
  /\ \A m \in MSHRs : mshr[m] # None => mshr[m].block \in Cacheable
  /\ \A m, n \in MSHRs : mshr[m] # None /\ mshr[n] # None /\ mshr[m].block = mshr[n].block => m = n
  /\ \A m \in MSHRs : mshr[m] # None /\ mshr[m].sink = None => line[mshr[m].block] \in {"N", "B"}
  /\ \A cb \in CbsOf(bch) : cb.kind = "GrantData_cb" => mshr[cb.src] = Miss(cb.block)
  /\ \A msg \in DMessagesInFlight : GetsGrant(msg) => mshr[msg.src] = Miss(msg.block)

\* at tells the sink that was taken for each miss
SinksAt(at) ==
  /\ \A m \in MSHRs : at[m] = None <=> mshr[m] = None
  /\ \A m, n \in MSHRs : at[m] = at[n] /\ at[m] # None => m = n
  /\ \A s \in Sinks : s \notin dFree <=> \E m \in MSHRs : at[m] = s
  /\ \A m \in MSHRs : mshr[m] # None /\ mshr[m].sink # None =>
       mshr[m].sink = at[m] /\ ongoingTlc[at[m]] = mshr[m].block
  /\ \A cb \in CbsOf(bch) : cb.kind = "GrantData_cb" => cb.sink = at[cb.src]
  /\ \A msg \in DMessagesInFlight : GetsGrant(msg) =>
       msg.sink = at[msg.src] /\ ongoingTlc[msg.sink] = msg.block

SinksHeld == \E at \in [MSHRs -> Sinks \cup {None}] : SinksAt(at)

----------------------------------------------------------------------------
(* Owners and versions. *)

Owners ==
  /\ \A b \in Blocks : line[b] \in {"T", "D"} => perm[b] = "TRUNK"
  /\ cBurst # None =>
       /\ perm[cBurst.block] = "TRUNK" /\ line[cBurst.block] # "D"
       /\ cBurst.report # "TtoT" => line[cBurst.block] # "T"
       /\ \A msg \in DMessagesInFlight : GetsGrant(msg) => msg.block # cBurst.block
  /\ \A b \in Blocks : perm[b] = "TRUNK" => b \in Cacheable
  /\ \A msg \in DMessagesInFlight : msg.op = "Grant" => msg.param = "toT"
  /\ dOut # None /\ dOut.msg.param = "toT" => perm[dOut.msg.block] = "TRUNK"

Versions ==
  /\ \A b \in Cacheable : line[b] # "D" /\ ~Sending(b) => \A i \in BeatNo : mem[b][i] = latest[b]
  /\ cBurst # None => \A i \in BeatNo :
       i <= cBurst.sent => mem[cBurst.block][i] = latest[cBurst.block]
  /\ \A b \in Uncached : mem[b][1] >= latest[b]
  /\ aBurst # None => aBurst.block \in Uncached /\ mem[aBurst.block][1] >= latest[aBurst.block] + 1
  /\ \A msg \in DMessagesInFlight :
       msg.op = "GrantData" => \A i \in BeatNo : msg.data[i] = latest[msg.block]

\* a probe stays one of the block that its callback is about
Placed(W) ==
  /\ AllFit(bch, W)
  /\ \A p \in pend : Fits(bch.callback[p.src], p.block, W)
  /\ bOut # None => Fits(bch.callback[bOut.src], bOut.block, W)
  /\ cBurst # None /\ cBurst.src # RelSrc => Fits(bch.callback[cBurst.src], cBurst.block, W)

Probed == Placed({})

\* the requests of the uncached master: what a callback will read and what a message
\* carries for them
ReadsFor(cb) ==
  /\ gets[cb.src] # None /\ gets[cb.src].block = cb.block /\ cb.block \in Cacheable
  /\ gets[cb.src].ver <= latest[cb.block]
Fresh(msg) ==
  /\ msg.src \in GSrcs /\ gets[msg.src] # None /\ msg.data[1] >= gets[msg.src].ver
  /\ gets[msg.src].block \in Cacheable => \A i \in BeatNo : msg.data[i] = msg.data[1]

Requested ==
  /\ \A cb \in CbsOf(bch) : cb.kind = "AccessAckData_cb" => ReadsFor(cb)
  /\ \A msg \in DMessagesInFlight : msg.op = "AccessAckData" => Fresh(msg)

DataIInv == OneAnswer /\ Misses /\ SinksHeld /\ Owners /\ Versions /\ Probed /\ Requested

----------------------------------------------------------------------------
(* What the operations of the engine do to its callbacks.                  *)

\* the free sources have no callback and no probe in the queue
FreeIsIdle(st) == /\ \A s \in st.free : st.callback[s] = NoCallback
                  /\ st.free \cap QueuedSrcs(st) = {}

\* no callback for the source that rq is about to answer
Unasked(st, rq) == Replies(rq.then) => rq.then.src \notin AskedIn(st)

LEMMA CbsTyped ==
  ASSUME NEW st \in Engines
  PROVE  CbsOf(st) \subseteq Callbacks
<1>1. st.waiting \in Seq(Requests) /\ st.callback \in [BSrcs -> Callbacks]
  BY DEF Engines
<1>2. \A i \in DOMAIN st.waiting : st.waiting[i] \in Requests
  BY <1>1
<1>3. \A i \in DOMAIN st.waiting : st.waiting[i].then \in Callbacks
  BY <1>2 DEF Requests, Callbacks
<1> QED BY <1>1, <1>3 DEF CbsOf

\* retrieveBlock_cb sets the callback of one free source
LEMMA IssueCallbacks ==
  ASSUME NEW st \in Engines, NEW rq \in Requests, FreeIsIdle(st),
         OncePerSource(st), Unasked(st, rq), NEW st2 \in Issue(st, rq)
  PROVE  /\ OncePerSource(st2)
         /\ CbsOf(st2) \subseteq CbsOf(st) \cup {rq.then}
         /\ st2.free \subseteq st.free
         /\ \A t \in BSrcs \ st.free : st2.callback[t] = st.callback[t]
         /\ \A W : AllFit(st, W) /\ Fits(rq.then, rq.block, W) => AllFit(st2, W)
<1>1. PICK s \in st.free :
        st2 = [st EXCEPT !.free = @ \ {s}, !.callback[s] = rq.then,
                         !.queue = Append(@, [src |-> s, block |-> rq.block, cap |-> rq.cap])]
  BY DEF Issue
<1> DEFINE msg == [src |-> s, block |-> rq.block, cap |-> rq.cap]
<1>2. s \in BSrcs /\ msg \in Probes /\ rq.then \in Pending
  BY DEF Engines, Requests, Probes
<1>3. /\ st2.waiting = st.waiting /\ st2.free \subseteq st.free
      /\ st2.queue = Append(st.queue, msg)
      /\ st2.callback = [st.callback EXCEPT ![s] = rq.then]
  BY <1>1 DEF Engines
<1>4. /\ \A t \in BSrcs : st2.callback[t] = IF t = s THEN rq.then ELSE st.callback[t]
      /\ st.callback[s] = NoCallback
  BY <1>2, <1>3 DEF Engines, FreeIsIdle
<1>5. /\ DOMAIN st.queue = 1..Len(st.queue) /\ Len(st.queue) \in Nat
      /\ DOMAIN st2.queue = 1..(Len(st.queue) + 1)
      /\ \A i \in 1..Len(st.queue) : st2.queue[i] = st.queue[i]
      /\ st2.queue[Len(st.queue) + 1] = msg
  BY <1>2, <1>3, AppendProperties DEF Engines
<1>6. CbsOf(st2) \subseteq CbsOf(st) \cup {rq.then}
  BY <1>3, <1>4 DEF CbsOf
<1>7. Replies(rq.then) =>
        /\ \A t \in BSrcs : Replies(st.callback[t]) => st.callback[t].src # rq.then.src
        /\ \A i \in DOMAIN st.waiting :
             Replies(st.waiting[i].then) => st.waiting[i].then.src # rq.then.src
  BY DEF Unasked, AskedIn, CbsOf
<1>8. OncePerSource(st2)
  BY <1>3, <1>4, <1>7 DEF OncePerSource
<1>9. ASSUME NEW W, AllFit(st, W), Fits(rq.then, rq.block, W)
      PROVE  AllFit(st2, W)
  <2>1. \A i \in 1..Len(st.queue) : st.queue[i].src # s /\ st.queue[i].src \in BSrcs
    <3> SUFFICES ASSUME NEW i \in 1..Len(st.queue)
                 PROVE  st.queue[i].src # s /\ st.queue[i].src \in BSrcs
      OBVIOUS
    <3>1. st.queue[i] \in Probes
      BY <1>5 DEF Engines
    <3>2. st.queue[i].src \in QueuedSrcs(st)
      BY <1>5 DEF QueuedSrcs
    <3> QED BY <3>1, <3>2 DEF FreeIsIdle, Probes
  <2>2. \A i \in DOMAIN st2.queue : Fits(st2.callback[st2.queue[i].src], st2.queue[i].block, W)
    <3> SUFFICES ASSUME NEW i \in 1..(Len(st.queue) + 1)
                 PROVE  Fits(st2.callback[st2.queue[i].src], st2.queue[i].block, W)
      BY <1>5
    <3>1. CASE i \in 1..Len(st.queue)
      BY <1>4, <1>5, <1>9, <2>1, <3>1 DEF AllFit
    <3>2. CASE i = Len(st.queue) + 1
      BY <1>2, <1>4, <1>5, <1>9, <3>2
    <3> QED BY <1>5, <3>1, <3>2
  <2> QED BY <1>3, <1>9, <2>2 DEF AllFit
<1> QED BY <1>3, <1>4, <1>6, <1>8, <1>9

LEMMA RetrieveCallbacks ==
  ASSUME NEW st \in Engines, NEW rq \in Requests, FreeIsIdle(st),
         OncePerSource(st), Unasked(st, rq), NEW st2 \in RetrieveBlock(st, rq)
  PROVE  /\ OncePerSource(st2)
         /\ CbsOf(st2) \subseteq CbsOf(st) \cup {rq.then}
         /\ st2.free \subseteq st.free
         /\ \A t \in BSrcs \ st.free : st2.callback[t] = st.callback[t]
         /\ \A W : AllFit(st, W) /\ Fits(rq.then, rq.block, W) => AllFit(st2, W)
<1>1. CASE st.free # {}
  BY <1>1, IssueCallbacks DEF RetrieveBlock
<1>2. CASE st.free = {}
  <2>1. /\ st2.queue = st.queue /\ st2.callback = st.callback /\ st2.free = st.free
        /\ st2.waiting = Append(st.waiting, rq)
    BY <1>2 DEF RetrieveBlock, Engines
  <2>2. /\ DOMAIN st.waiting = 1..Len(st.waiting) /\ Len(st.waiting) \in Nat
        /\ DOMAIN st2.waiting = 1..(Len(st.waiting) + 1)
        /\ \A i \in 1..Len(st.waiting) : st2.waiting[i] = st.waiting[i]
        /\ st2.waiting[Len(st.waiting) + 1] = rq
    BY <2>1, AppendProperties DEF Engines
  <2>3. \A i \in DOMAIN st2.waiting :
          \/ i \in DOMAIN st.waiting /\ st2.waiting[i] = st.waiting[i]
          \/ i = Len(st.waiting) + 1 /\ st2.waiting[i] = rq
    BY <2>2
  <2>4. CbsOf(st2) \subseteq CbsOf(st) \cup {rq.then}
    BY <2>1, <2>3 DEF CbsOf
  <2>5. Replies(rq.then) =>
        /\ \A t \in BSrcs : Replies(st.callback[t]) => st.callback[t].src # rq.then.src
        /\ \A i \in DOMAIN st.waiting :
             Replies(st.waiting[i].then) => st.waiting[i].then.src # rq.then.src
    BY DEF Unasked, AskedIn, CbsOf
  <2>6. OncePerSource(st2)
    BY <2>1, <2>3, <2>5 DEF OncePerSource
  <2>7. \A W : AllFit(st, W) /\ Fits(rq.then, rq.block, W) => AllFit(st2, W)
    BY <2>1, <2>3 DEF AllFit
  <2> QED BY <2>1, <2>4, <2>6, <2>7
<1> QED BY <1>1, <1>2

\* FreeList.release runs a request that waits, which changes no other callback
LEMMA ReleaseCallbacks ==
  ASSUME NEW st \in Engines, NEW s \in BSrcs, FreeIsIdle(st),
         st.callback[s] = NoCallback, s \notin QueuedSrcs(st), s \notin st.free,
         OncePerSource(st), NEW st2 \in Release(st, s)
  PROVE  /\ OncePerSource(st2)
         /\ CbsOf(st2) \subseteq CbsOf(st)
         /\ \A t \in BSrcs \ (st.free \cup {s}) : st2.callback[t] = st.callback[t]
         /\ \A W : AllFit(st, W) => AllFit(st2, W)
<1> DEFINE back == [st EXCEPT !.free = @ \cup {s}]
<1>1. /\ back.free = st.free \cup {s} /\ back.queue = st.queue
      /\ back.callback = st.callback /\ back.waiting = st.waiting
      /\ back \in Engines
  BY DEF Engines
<1>2. CASE st.waiting = <<>>
  <2>1. st2 = back
    BY <1>2 DEF Release
  <2> HIDE DEF back
  <2> QED BY <1>1, <2>1 DEF OncePerSource, CbsOf, AllFit
<1>3. CASE st.waiting # <<>>
  <2> DEFINE woken == [back EXCEPT !.waiting = Tail(@)]
             rq    == Head(st.waiting)
  <2>1. /\ woken.free = back.free /\ woken.queue = back.queue
        /\ woken.callback = back.callback /\ woken.waiting = Tail(st.waiting)
    BY <1>1 DEF Engines
  <2>2. rq \in Requests /\ Tail(st.waiting) \in Seq(Requests)
    BY <1>3, HeadTailProperties DEF Engines
  <2>3. woken \in Engines
    BY <1>1, <2>1, <2>2 DEF Engines
  <2>4. st2 \in Issue(woken, rq)
    BY <1>1, <1>3 DEF Release
  <2> HIDE DEF woken, back
  <2>5. FreeIsIdle(woken)
    BY <1>1, <2>1 DEF FreeIsIdle, QueuedSrcs
  <2>6. /\ DOMAIN st.waiting = 1..Len(st.waiting) /\ Len(st.waiting) \in Nat \ {0}
        /\ rq = st.waiting[1]
        /\ DOMAIN woken.waiting = 1..(Len(st.waiting) - 1)
        /\ \A i \in 1..(Len(st.waiting) - 1) : woken.waiting[i] = st.waiting[i + 1]
    BY <1>3, <2>1, HeadTailProperties, EmptySeq DEF Engines
  <2>7. /\ 1 \in DOMAIN st.waiting
        /\ \A i \in DOMAIN woken.waiting :
             i + 1 \in DOMAIN st.waiting /\ i + 1 # 1 /\ woken.waiting[i] = st.waiting[i + 1]
    BY <2>6
  <2>8. CbsOf(woken) \subseteq CbsOf(st) /\ rq.then \in CbsOf(st)
    BY <1>1, <2>1, <2>6, <2>7 DEF CbsOf
  <2>9. OncePerSource(woken)
    <3>1. ASSUME NEW i \in DOMAIN woken.waiting, NEW j \in DOMAIN woken.waiting,
                 Replies(woken.waiting[i].then), Replies(woken.waiting[j].then),
                 woken.waiting[i].then.src = woken.waiting[j].then.src
          PROVE  i = j
      <4>1. i + 1 = j + 1
        BY <2>7, <3>1 DEF OncePerSource
      <4> QED BY <2>6, <4>1
    <3>2. \A i \in DOMAIN woken.waiting, t \in BSrcs :
            Replies(woken.waiting[i].then) /\ Replies(woken.callback[t])
            => woken.waiting[i].then.src # woken.callback[t].src
      BY <1>1, <2>1, <2>7 DEF OncePerSource
    <3>3. \A t, u \in BSrcs :
            Replies(woken.callback[t]) /\ Replies(woken.callback[u])
            /\ woken.callback[t].src = woken.callback[u].src => t = u
      BY <1>1, <2>1 DEF OncePerSource
    <3> QED BY <3>1, <3>2, <3>3 DEF OncePerSource
  <2>10. Unasked(woken, rq)
    <3>1. \A i \in DOMAIN woken.waiting :
            Replies(rq.then) /\ Replies(woken.waiting[i].then)
            => woken.waiting[i].then.src # rq.then.src
      BY <2>6, <2>7 DEF OncePerSource
    <3>2. \A t \in BSrcs : Replies(rq.then) /\ Replies(woken.callback[t])
                           => woken.callback[t].src # rq.then.src
      BY <1>1, <2>1, <2>6, <2>7 DEF OncePerSource
    <3>3. \A cb \in CbsOf(woken) : Replies(rq.then) /\ Replies(cb) => cb.src # rq.then.src
      BY <3>1, <3>2 DEF CbsOf
    <3> HIDE DEF rq
    <3> QED BY <3>3 DEF Unasked, AskedIn
  <2>11. ASSUME NEW W, AllFit(st, W)
         PROVE  AllFit(woken, W) /\ Fits(rq.then, rq.block, W)
    BY <1>1, <2>1, <2>6, <2>7, <2>11 DEF AllFit
  <2> HIDE DEF rq
  <2>12. /\ OncePerSource(st2)
         /\ CbsOf(st2) \subseteq CbsOf(woken) \cup {rq.then}
         /\ \A t \in BSrcs \ woken.free : st2.callback[t] = woken.callback[t]
         /\ \A W : AllFit(woken, W) /\ Fits(rq.then, rq.block, W) => AllFit(st2, W)
    BY <2>2, <2>3, <2>4, <2>5, <2>9, <2>10, IssueCallbacks
  <2> QED BY <1>1, <2>1, <2>8, <2>11, <2>12
<1> QED BY <1>2, <1>3

LEMMA EngineFacts ==
  ASSUME IInv
  PROVE  /\ bch \in Engines /\ EngineOK(bch, Outside, {}) /\ FreeIsIdle(bch)
         /\ Outside \cap bch.free = {} /\ Outside \subseteq BSrcs
<1>1. bch \in Engines /\ EngineOK(bch, Outside, {})
  BY DEF IInv, TypeOK, EngineTypes, ProbeSources
<1>2. FreeIsIdle(bch) /\ Outside \cap bch.free = {} /\ Outside \subseteq BSrcs
  BY <1>1 DEF EngineOK, SourcesOK, FreeIsIdle, Engines
<1> QED BY <1>1, <1>2

\* a probe was answered: its callback is gone, and another one has come at most for a
\* probe_blocks
LEMMA CalledBack ==
  ASSUME IInv, OncePerSource(bch), NEW src \in Outside, CallAndRelease(src)
  PROVE  /\ OncePerSource(bch')
         /\ \A cb \in CbsOf(bch') : cb \in CbsOf(bch) \/ ~Replies(cb)
         /\ Replies(bch.callback[src]) => bch.callback[src].src \notin AskedIn(bch')
         /\ \A t \in Outside \ {src} : bch'.callback[t] = bch.callback[t]
         /\ \A W, b : AllFit(bch, W) /\ Fits(bch.callback[src], b, W) => AllFit(bch', W \ {b})
<1> DEFINE cb     == bch.callback[src]
           called == [bch EXCEPT !.callback[src] = NoCallback]
           chain  == cb.kind = "probe_blocks"
<1>1. /\ bch \in Engines /\ cb \in Callbacks /\ src \in BSrcs
      /\ EngineOK(bch, Outside, {}) /\ FreeIsIdle(bch)
      /\ src \notin bch.free /\ src \notin QueuedSrcs(bch)
  BY EngineFacts DEF Engines, EngineOK, SourcesOK
<1>2. /\ called.free = bch.free /\ called.queue = bch.queue /\ called.waiting = bch.waiting
      /\ called.callback = [bch.callback EXCEPT ![src] = NoCallback]
      /\ called \in Engines
  BY <1>1 DEF Engines, Callbacks
<1>3. \A t \in BSrcs : called.callback[t] = IF t = src THEN NoCallback ELSE bch.callback[t]
  BY <1>1, <1>2 DEF Engines
<1>4. EngineOK(called, Outside, {src})
  BY <1>1, <1>2, <1>3 DEF EngineOK, SourcesOK, QueuedSrcs
<1>5. PICK st \in IF chain /\ cb.rest # {} THEN ProbeNext(called, cb.rest) ELSE {called} :
        bch' \in Release(st, src)
  BY DEF CallAndRelease
<1>6. ~Replies(NoCallback)
  BY DEF Replies, NoCallback
<1>7. OncePerSource(called)
  BY <1>2, <1>3, <1>6 DEF OncePerSource
<1>8. \A c \in CbsOf(called) : c \in CbsOf(bch) \/ ~Replies(c)
  BY <1>2, <1>3, <1>6 DEF CbsOf
<1>9. \A c \in CbsOf(called) : Replies(cb) /\ Replies(c) => c.src # cb.src
  BY <1>1, <1>2, <1>3, <1>6 DEF CbsOf, OncePerSource
<1>10. \A W, b : AllFit(bch, W) => AllFit(called, W \ {b})
  <2>1. \A i \in DOMAIN bch.queue : bch.queue[i] \in Probes /\ bch.queue[i].src \in QueuedSrcs(bch)
    BY <1>1 DEF Engines, QueuedSrcs
  <2>2. \A i \in DOMAIN bch.queue : called.callback[bch.queue[i].src] = bch.callback[bch.queue[i].src]
    BY <1>1, <1>3, <2>1 DEF Probes
  <2> QED BY <1>2, <1>6, <2>2 DEF AllFit, Fits
<1>11. FreeIsIdle(called)
  BY <1>1, <1>2, <1>3 DEF FreeIsIdle, QueuedSrcs
<1> HIDE DEF called
<1>12. /\ st \in Engines /\ EngineOK(st, Outside, {src}) /\ OncePerSource(st)
       /\ \A c \in CbsOf(st) : c \in CbsOf(called) \/ ~Replies(c)
       /\ st.free \subseteq called.free
       /\ \A t \in BSrcs \ called.free : st.callback[t] = called.callback[t]
       /\ \A W, b : AllFit(called, W \ {b}) /\ Fits(cb, b, W) => AllFit(st, W \ {b})
  <2>1. CASE chain /\ cb.rest # {}
    <3>1. cb.rest \in SUBSET Blocks
      BY <1>1, <2>1 DEF Callbacks, Pending, NoCallback
    <3>2. st \in ProbeNext(called, cb.rest)
      BY <1>5, <2>1
    <3>3. st \in Engines /\ EngineOK(st, Outside, {src})
      BY <1>2, <1>4, <3>1, <3>2, ProbeNextKeeps
    <3> DEFINE rq(b) == Request(b, "toN", [kind |-> "probe_blocks", rest |-> cb.rest \ {b}])
    <3>4. PICK b \in cb.rest : st \in RetrieveBlock(called, rq(b))
      BY <3>2 DEF ProbeNext
    <3>5. /\ rq(b) \in Requests /\ ~Replies(rq(b).then)
          /\ \A W, c : Fits(cb, c, W) => Fits(rq(b).then, rq(b).block, W \ {c})
      <4>1. rq(b).then.kind = "probe_blocks" /\ rq(b).then.rest = cb.rest \ {b} /\ rq(b).block = b
        BY DEF Request
      <4>2. rq(b) \in Requests
        BY <3>1 DEF Request, Requests, Pending, Caps
      <4> HIDE DEF rq, cb
      <4> QED BY <2>1, <4>1, <4>2 DEF Replies, Fits, Reads, chain
    <3> HIDE DEF rq
    <3>6. Unasked(called, rq(b))
      BY <3>5 DEF Unasked
    <3>7. /\ OncePerSource(st) /\ CbsOf(st) \subseteq CbsOf(called) \cup {rq(b).then}
          /\ st.free \subseteq called.free
          /\ \A t \in BSrcs \ called.free : st.callback[t] = called.callback[t]
          /\ \A W : AllFit(called, W) /\ Fits(rq(b).then, rq(b).block, W) => AllFit(st, W)
      BY <1>2, <1>7, <1>11, <3>4, <3>5, <3>6, RetrieveCallbacks
    <3> QED BY <3>3, <3>5, <3>7
  <2>2. CASE ~(chain /\ cb.rest # {})
    BY <1>2, <1>4, <1>5, <1>7, <2>2
  <2> QED BY <2>1, <2>2
<1>13. /\ FreeIsIdle(st) /\ st.callback[src] = NoCallback
       /\ src \notin QueuedSrcs(st) /\ src \notin st.free
  BY <1>1, <1>12 DEF EngineOK, SourcesOK, FreeIsIdle, Engines
<1>14. /\ OncePerSource(bch') /\ CbsOf(bch') \subseteq CbsOf(st)
       /\ \A t \in BSrcs \ (st.free \cup {src}) : bch'.callback[t] = st.callback[t]
       /\ \A W : AllFit(st, W) => AllFit(bch', W)
  BY <1>1, <1>5, <1>12, <1>13, ReleaseCallbacks
<1>15. \A c \in CbsOf(bch') : c \in CbsOf(called) \/ ~Replies(c)
  BY <1>12, <1>14
<1>16. Replies(cb) => cb.src \notin AskedIn(bch')
  BY <1>9, <1>15 DEF AskedIn
<1>17. \A t \in Outside \ {src} : bch'.callback[t] = bch.callback[t]
  BY <1>2, <1>3, <1>12, <1>14, EngineFacts
<1> QED BY <1>8, <1>10, <1>12, <1>14, <1>15, <1>16, <1>17

\* a request that is not a chain of probes
LEMMA RequestMade ==
  ASSUME IInv, OncePerSource(bch), NEW rq \in Requests, Unasked(bch, rq),
         bch' \in RetrieveBlock(bch, rq)
  PROVE  /\ OncePerSource(bch')
         /\ CbsOf(bch') \subseteq CbsOf(bch) \cup {rq.then}
         /\ \A t \in Outside : bch'.callback[t] = bch.callback[t]
         /\ \A W : AllFit(bch, W) /\ Fits(rq.then, rq.block, W) => AllFit(bch', W)
<1>1. bch \in Engines /\ FreeIsIdle(bch)
  BY EngineFacts
<1>2. /\ OncePerSource(bch')
      /\ CbsOf(bch') \subseteq CbsOf(bch) \cup {rq.then}
      /\ \A t \in BSrcs \ bch.free : bch'.callback[t] = bch.callback[t]
      /\ \A W : AllFit(bch, W) /\ Fits(rq.then, rq.block, W) => AllFit(bch', W)
  BY <1>1, RetrieveCallbacks
<1> QED BY <1>2, EngineFacts

----------------------------------------------------------------------------
(* What the operations on channel D do to the messages on their way.       *)

LEMMA DataPushed ==
  ASSUME TypeOK, NEW msg \in DMessages, dQueue' = Append(dQueue, msg), dOut' = dOut
  PROVE  /\ DMessagesInFlight' = DMessagesInFlight \cup {msg}
         /\ InQueue' = InQueue \cup ({msg.src} \ {RelSrc})
         /\ OnD' = OnD
         /\ QueueOnce /\ msg.src \notin InQueue => QueueOnce'
<1>1. /\ DOMAIN dQueue = 1..Len(dQueue) /\ Len(dQueue) \in Nat
      /\ DOMAIN dQueue' = 1..(Len(dQueue) + 1)
      /\ \A i \in 1..Len(dQueue) : dQueue'[i] = dQueue[i]
      /\ dQueue'[Len(dQueue) + 1] = msg
  BY AppendProperties DEF TypeOK, ChannelTypes
<1>2. {dQueue'[i] : i \in DOMAIN dQueue'} = {dQueue[i] : i \in DOMAIN dQueue} \cup {msg}
  BY <1>1, Z3
<1>3. {dQueue'[i].src : i \in DOMAIN dQueue'} = {dQueue[i].src : i \in DOMAIN dQueue} \cup {msg.src}
  BY <1>1, Z3
<1>4. ASSUME QueueOnce, msg.src \notin InQueue
      PROVE  QueueOnce'
  BY <1>1, <1>4 DEF QueueOnce, InQueue
<1> QED BY <1>2, <1>3, <1>4 DEF DMessagesInFlight, InQueue, OnD

LEMMA DataUnmoved ==
  ASSUME UNCHANGED <<dQueue, dOut>>
  PROVE  /\ DMessagesInFlight' = DMessagesInFlight /\ InQueue' = InQueue /\ OnD' = OnD
         /\ QueueOnce => QueueOnce'
BY DEF DMessagesInFlight, InQueue, OnD, QueueOnce

\* the first message of the queue goes to the port
LEMMA DataPopped ==
  ASSUME TypeOK, PopD, QueueOnce
  PROVE  /\ DMessagesInFlight' = DMessagesInFlight
         /\ dOut' # None /\ dOut'.msg = Head(dQueue) /\ Head(dQueue) \in DMessagesInFlight
         /\ OnD = {} /\ InQueue = InQueue' \cup OnD' /\ InQueue' \cap OnD' = {}
         /\ QueueOnce'
<1>1. /\ dOut = None /\ dQueue # <<>> /\ dOut' = [msg |-> Head(dQueue), sent |-> 0]
      /\ dQueue' = Tail(dQueue)
  BY DEF PopD
<1>2. /\ DOMAIN dQueue = 1..Len(dQueue) /\ Len(dQueue) \in Nat \ {0}
      /\ Head(dQueue) = dQueue[1] /\ Head(dQueue) \in DMessages
      /\ DOMAIN dQueue' = 1..(Len(dQueue) - 1)
      /\ \A i \in 1..(Len(dQueue) - 1) : dQueue'[i] = dQueue[i + 1]
  BY <1>1, HeadTailProperties, EmptySeq DEF TypeOK, ChannelTypes
<1>3. dOut' # None /\ dOut'.msg = dQueue[1]
  BY <1>1, <1>2, NoRecordAssumption
<1>4. /\ \A i \in DOMAIN dQueue' : i + 1 \in DOMAIN dQueue /\ i + 1 # 1
                                  /\ dQueue'[i] = dQueue[i + 1]
      /\ \A i \in DOMAIN dQueue : i # 1 => i - 1 \in DOMAIN dQueue' /\ dQueue'[i - 1] = dQueue[i]
      /\ 1 \in DOMAIN dQueue
  <2>1. \A i \in 1..Len(dQueue) : i # 1 => i - 1 \in 1..(Len(dQueue) - 1) /\ i - 1 + 1 = i
    BY <1>2
  <2> QED BY <1>2, <2>1
<1>5. {dQueue[i] : i \in DOMAIN dQueue} = {dQueue'[i] : i \in DOMAIN dQueue'} \cup {dQueue[1]}
  BY <1>4
<1>6. {dQueue[i].src : i \in DOMAIN dQueue}
      = {dQueue'[i].src : i \in DOMAIN dQueue'} \cup {dQueue[1].src}
  BY <1>4
<1>7. \A i \in DOMAIN dQueue' : dQueue'[i].src = dQueue[1].src => dQueue[1].src = RelSrc
  BY <1>4 DEF QueueOnce
<1>8. QueueOnce'
  <2> SUFFICES ASSUME NEW i \in DOMAIN dQueue', NEW j \in DOMAIN dQueue',
                      dQueue'[i].src = dQueue'[j].src, dQueue'[i].src # RelSrc
               PROVE  i = j
    BY DEF QueueOnce
  <2>1. /\ i + 1 \in DOMAIN dQueue /\ dQueue'[i] = dQueue[i + 1]
        /\ j + 1 \in DOMAIN dQueue /\ dQueue'[j] = dQueue[j + 1]
    BY <1>4
  <2>2. i + 1 = j + 1
    BY <2>1 DEF QueueOnce
  <2>3. i \in Int /\ j \in Int
    BY <1>2
  <2> QED BY <2>2, <2>3
<1>9. /\ DMessagesInFlight' = DMessagesInFlight /\ Head(dQueue) \in DMessagesInFlight
      /\ dOut'.msg = Head(dQueue)
  BY <1>1, <1>2, <1>3, <1>4, <1>5 DEF DMessagesInFlight
<1>10. OnD = {} /\ OnD' = {dQueue[1].src} \ {RelSrc}
  BY <1>1, <1>3 DEF OnD
<1>11. InQueue = InQueue' \cup OnD'
  BY <1>6, <1>10 DEF InQueue
<1>12. InQueue' \cap OnD' = {}
  BY <1>7, <1>10 DEF InQueue
<1> QED BY <1>3, <1>8, <1>9, <1>10, <1>11, <1>12

\* the tile takes a beat: after the last one the message is gone
LEMMA DataTaken ==
  ASSUME TypeOK, FireD
  PROVE  /\ dOut # None /\ dOut.msg \in DMessages /\ dOut.msg \in DMessagesInFlight
         /\ DMessagesInFlight' \subseteq DMessagesInFlight
         /\ InQueue' = InQueue /\ (QueueOnce => QueueOnce')
         /\ LastSent => dOut' = None /\ OnD' = {}
         /\ LastSent => \A msg \in DMessagesInFlight' : msg.src \in InQueue \cup {RelSrc}
         /\ ~LastSent => dOut' # None /\ dOut'.msg = dOut.msg /\ OnD' = OnD
<1>1. /\ dOut # None /\ dOut' = IF LastSent THEN None ELSE [dOut EXCEPT !.sent = @ + 1]
      /\ dQueue' = dQueue
  BY DEF FireD
<1>2. dOut \in [msg : DMessages, sent : Nat]
  BY <1>1 DEF TypeOK, ChannelTypes
<1>3. ~LastSent => dOut' # None /\ dOut'.msg = dOut.msg
  BY <1>1, <1>2, NoRecordAssumption
<1>4. InQueue' = InQueue /\ (QueueOnce => QueueOnce')
  BY <1>1 DEF InQueue, QueueOnce
<1>5. dOut.msg \in DMessagesInFlight /\ DMessagesInFlight' \subseteq DMessagesInFlight
  BY <1>1, <1>3 DEF DMessagesInFlight
<1>6. LastSent => \A msg \in DMessagesInFlight' : msg.src \in InQueue \cup {RelSrc}
  BY <1>1 DEF DMessagesInFlight, InQueue
<1>7. OnD' = IF LastSent THEN {} ELSE OnD
  BY <1>1, <1>3 DEF OnD
<1> QED BY <1>1, <1>2, <1>3, <1>4, <1>5, <1>6, <1>7

----------------------------------------------------------------------------
(* What a step may add: nothing, unless the lemma of the step says so.     *)

GrantsKept   == \A msg \in DMessagesInFlight' : GetsGrant(msg) => msg \in DMessagesInFlight
AnswersKept  == \A msg \in DMessagesInFlight' :
                  msg.op = "AccessAckData" => msg \in DMessagesInFlight
GrantCbsKept == \A cb \in CbsOf(bch') : cb.kind = "GrantData_cb" => cb \in CbsOf(bch)
ReadCbsKept  == \A cb \in CbsOf(bch') : cb.kind = "AccessAckData_cb" => cb \in CbsOf(bch)
PortKept     == dOut' # None => dOut # None /\ dOut'.msg = dOut.msg

GrantsSame == GrantsKept /\ GrantCbsKept /\ PortKept
ReadsSame  == AnswersKept /\ ReadCbsKept

LEMMA AllSame ==
  ASSUME UNCHANGED <<bch, dQueue, dOut>>
  PROVE  GrantsSame /\ ReadsSame
BY DEF GrantsSame, ReadsSame, GrantsKept, AnswersKept, GrantCbsKept, ReadCbsKept, PortKept,
       DMessagesInFlight

LEMMA BusyWithGet ==
  ASSUME TypeOK, NEW g \in GSrcs, NEW b \in Blocks,
         NEW op \in {"Get", "Put", "Atomic", "Intent"},
         gets[g] = None, Expect(g, op, b), mshr' = mshr
  PROVE  Busy' = Busy \cup {g} /\ g \notin Busy /\ g # RelSrc
<1>1. [op |-> op, block |-> b, ver |-> latest[b]] # None
  BY NoRecordAssumption DEF TypeOK, TileTypes
<1>2. \A h \in GSrcs : gets'[h] # None <=> h = g \/ gets[h] # None
  BY <1>1 DEF Expect, TypeOK, TileTypes
<1> QED BY <1>2, NoneAssumption DEF Busy

LEMMA BusyWithMiss ==
  ASSUME TypeOK, NEW m \in MSHRs, NEW b \in Blocks,
         mshr[m] = None, mshr' = [mshr EXCEPT ![m] = [block |-> b, sink |-> None]],
         gets' = gets
  PROVE  /\ Busy' = Busy \cup {m} /\ m \notin Busy /\ m # RelSrc
         /\ mshr'[m] = Miss(b) /\ Miss(b) # None
         /\ \A n \in MSHRs \ {m} : mshr'[n] = mshr[n]
<1>1. Miss(b) # None
  BY NoRecordAssumption DEF Miss
<1>2. /\ mshr'[m] = Miss(b)
      /\ \A n \in MSHRs \ {m} : mshr'[n] = mshr[n]
  BY DEF TypeOK, TileTypes, Miss
<1>3. Miss(b).sink = None
  BY DEF Miss
<1> QED BY <1>1, <1>2, <1>3, NoneAssumption DEF Busy

----------------------------------------------------------------------------
(* Each request is answered once.                                          *)

\* a new request of the uncached master that is answered at once
LEMMA AnswerPushed ==
  ASSUME TypeOK, OneAnswer, NEW msg \in DMessages, msg.src \notin Busy,
         Busy' = Busy \cup {msg.src}, msg.src # RelSrc,
         dQueue' = Append(dQueue, msg), UNCHANGED <<bch, dOut, aBurst>>
  PROVE  OneAnswer'
<1>1. /\ InQueue' = InQueue \cup {msg.src} /\ OnD' = OnD
      /\ QueueOnce /\ msg.src \notin InQueue => QueueOnce'
  BY DataPushed
<1>2. Putting' = Putting
  BY DEF Putting
<1> QED BY <1>1, <1>2 DEF OneAnswer

LEMMA PushedKeeps ==
  ASSUME TypeOK, NEW msg \in DMessages, dQueue' = Append(dQueue, msg), UNCHANGED <<bch, dOut>>
  PROVE  /\ GrantCbsKept /\ ReadCbsKept /\ PortKept
         /\ ~GetsGrant(msg) => GrantsSame
         /\ msg.op # "AccessAckData" => ReadsSame
<1>1. DMessagesInFlight' = DMessagesInFlight \cup {msg}
  BY DataPushed
<1> QED BY <1>1 DEF GrantsSame, ReadsSame, GrantsKept, AnswersKept, GrantCbsKept, ReadCbsKept,
                    PortKept

LEMMA RequestKeeps ==
  ASSUME NEW rq, CbsOf(bch') \subseteq CbsOf(bch) \cup {rq.then}, UNCHANGED <<dQueue, dOut>>
  PROVE  /\ GrantsKept /\ AnswersKept /\ PortKept
         /\ rq.then.kind # "GrantData_cb" => GrantsSame
         /\ rq.then.kind # "AccessAckData_cb" => ReadsSame
BY DEF GrantsSame, ReadsSame, GrantsKept, AnswersKept, GrantCbsKept, ReadCbsKept, PortKept,
       DMessagesInFlight

LEMMA GetAnswer ==
  ASSUME IInv, OneAnswer, NEW g \in GSrcs, NEW b \in Blocks, Get(g, b)
  PROVE  OneAnswer' /\ GrantsSame
<1>1. /\ aBurst = None /\ gets[g] = None /\ Expect(g, "Get", b) /\ HandleGet(g, b)
      /\ UNCHANGED <<mshr, aBurst, dOut>>
  BY DEF Get, Free, HandleGet
<1>2. TypeOK /\ mem \in [Blocks -> [BeatNo -> Nat]]
  BY DEF IInv, TypeOK, MemoryTypes
<1>3. Busy' = Busy \cup {g} /\ g \notin Busy /\ g # RelSrc
  BY <1>1, <1>2, BusyWithGet
<1>4. CASE IsTip(b)
  <2> DEFINE msg == AccessAckData(g, DataOf(mem, b))
  <2>1. msg \in DMessages /\ msg.src = g /\ msg.op = "AccessAckData" /\ ~GetsGrant(msg)
    BY <1>2, DataTyped, AckDataTyped DEF AccessAckData, DMsg, GetsGrant
  <2>2. dQueue' = Append(dQueue, msg) /\ bch' = bch
    BY <1>1, <1>4 DEF HandleGet
  <2> HIDE DEF msg
  <2> QED BY <1>1, <1>2, <1>3, <2>1, <2>2, AnswerPushed, PushedKeeps
<1>5. CASE ~IsTip(b)
  <2> DEFINE then == [kind |-> "AccessAckData_cb", src |-> g, block |-> b]
             rq   == Request(b, "toT", then)
  <2>1. rq \in Requests /\ rq.then = then
    BY DEF Request, Requests, Pending, Caps
  <2>2. bch' \in RetrieveBlock(bch, rq) /\ dQueue' = dQueue
    BY <1>1, <1>5 DEF HandleGet
  <2>3. g \notin AskedIn(bch)
    BY <1>3 DEF OneAnswer
  <2>4. Unasked(bch, rq) /\ OncePerSource(bch)
    BY <2>1, <2>3 DEF Unasked, OneAnswer
  <2>5. OncePerSource(bch') /\ CbsOf(bch') \subseteq CbsOf(bch) \cup {then}
    <3> HIDE DEF rq, then
    <3> QED BY <2>1, <2>2, <2>4, RequestMade
  <2>6. AskedIn(bch') \subseteq AskedIn(bch) \cup {g}
    BY <2>5 DEF AskedIn
  <2>7. Putting' = Putting
    BY <1>1 DEF Putting
  <2>8. GrantsSame
    <3> HIDE DEF then, rq
    <3>1. rq.then.kind # "GrantData_cb"
      BY <2>1 DEF then
    <3> QED BY <1>1, <2>1, <2>2, <2>5, <3>1, RequestKeeps
  <2>9. OneAnswer'
    <3> HIDE DEF then, rq
    <3> QED BY <1>1, <1>3, <2>2, <2>5, <2>6, <2>7, DataUnmoved DEF OneAnswer
  <2> QED BY <2>8, <2>9
<1> QED BY <1>4, <1>5

LEMMA IntentAnswer ==
  ASSUME IInv, OneAnswer, NEW g \in GSrcs, NEW b \in Blocks, Intent(g, b)
  PROVE  OneAnswer' /\ GrantsSame /\ ReadsSame
<1> DEFINE msg == DMsg("HintAck", g)
<1>1. /\ gets[g] = None /\ Expect(g, "Intent", b) /\ dQueue' = Append(dQueue, msg)
      /\ UNCHANGED <<bch, mshr, aBurst, dOut>> /\ TypeOK
  BY DEF Intent, Free, HandleIntent, IInv
<1>2. Busy' = Busy \cup {g} /\ g \notin Busy /\ g # RelSrc
  BY <1>1, BusyWithGet
<1>3. msg \in DMessages /\ msg.src = g /\ msg.op # "AccessAckData" /\ ~GetsGrant(msg)
  BY MessageTyped DEF DMessages, DMsg, GetsGrant
<1> HIDE DEF msg
<1> QED BY <1>1, <1>2, <1>3, AnswerPushed, PushedKeeps

LEMMA AtomicAnswer ==
  ASSUME IInv, OneAnswer, NEW g \in GSrcs, NEW b \in Uncached, Atomic(g, b)
  PROVE  OneAnswer' /\ GrantsSame
<1> DEFINE msg == AccessAckData(g, <<mem[b][1]>>)
<1>1. /\ gets[g] = None /\ Expect(g, "Atomic", b) /\ dQueue' = Append(dQueue, msg)
      /\ UNCHANGED <<bch, mshr, aBurst, dOut>> /\ TypeOK /\ b \in Blocks
  BY SourcesAssumption DEF Atomic, Free, HandleAtomic, IInv
<1>2. Busy' = Busy \cup {g} /\ g \notin Busy /\ g # RelSrc
  BY <1>1, BusyWithGet
<1>3. msg \in DMessages /\ msg.src = g /\ ~GetsGrant(msg)
  <2>1. 1 \in BeatNo /\ mem[b][1] \in Nat
    BY <1>1, BeatsAssumption DEF BeatNo, TypeOK, MemoryTypes
  <2>2. <<mem[b][1]>> \in Seq(Nat)
    BY <2>1
  <2>3. msg \in DMessages
    BY <2>2, AckDataTyped
  <2> QED BY <2>3 DEF AccessAckData, DMsg, GetsGrant
<1> HIDE DEF msg
<1> QED BY <1>1, <1>2, <1>3, AnswerPushed, PushedKeeps

\* a Put is answered with its last beat; until then the burst stands for it
LEMMA PutFirstAnswer ==
  ASSUME IInv, OneAnswer, NEW g \in GSrcs, NEW b \in Uncached, PutFirst(g, b)
  PROVE  OneAnswer' /\ GrantsSame /\ ReadsSame
<1> DEFINE msg == DMsg("AccessAck", g)
<1>1. /\ aBurst = None /\ gets[g] = None /\ Expect(g, "Put", b)
      /\ aBurst' = IF Beats = 1 THEN None ELSE [src |-> g, block |-> b, sent |-> 1]
      /\ dQueue' = IF aOngoings[g] + 1 = Beats THEN Append(dQueue, msg) ELSE dQueue
      /\ UNCHANGED <<bch, mshr, dOut>> /\ TypeOK /\ b \in Blocks
  BY SourcesAssumption DEF PutFirst, Free, HandlePut, IInv
<1>2. Busy' = Busy \cup {g} /\ g \notin Busy /\ g # RelSrc
  BY <1>1, BusyWithGet
<1>3. msg \in DMessages /\ msg.src = g /\ msg.op # "AccessAckData" /\ ~GetsGrant(msg)
  BY MessageTyped DEF DMessages, DMsg, GetsGrant
<1>4. aOngoings[g] = 0
  BY <1>1 DEF IInv, BurstsCounted, ASrcs
<1> HIDE DEF msg
<1>5. CASE Beats = 1
  <2>1. dQueue' = Append(dQueue, msg) /\ UNCHANGED <<bch, dOut, aBurst>>
    BY <1>1, <1>4, <1>5
  <2> QED BY <1>1, <1>2, <1>3, <2>1, AnswerPushed, PushedKeeps
<1>6. CASE Beats # 1
  <2>1. UNCHANGED <<dQueue, bch, dOut>>
    BY <1>1, <1>4, <1>6
  <2>2. Putting' \subseteq {g} /\ Putting = {}
    BY <1>1, <1>6 DEF Putting
  <2>3. OneAnswer'
    BY <1>2, <2>1, <2>2, DataUnmoved DEF OneAnswer
  <2> QED BY <2>1, <2>3, AllSame
<1> QED BY <1>5, <1>6

LEMMA PutBeatAnswer ==
  ASSUME IInv, OneAnswer, PutBeat
  PROVE  OneAnswer' /\ GrantsSame /\ ReadsSame
<1> DEFINE g   == aBurst.src
           msg == DMsg("AccessAck", g)
<1>1. /\ aBurst # None
      /\ aBurst' = IF aBurst.sent + 1 = Beats THEN None ELSE [aBurst EXCEPT !.sent = @ + 1]
      /\ dQueue' = IF aOngoings[g] + 1 = Beats THEN Append(dQueue, msg) ELSE dQueue
      /\ UNCHANGED <<bch, mshr, gets, dOut>> /\ TypeOK
  BY DEF PutBeat, HandlePut, IInv
<1>2. aBurst \in PutBursts /\ g \in GSrcs /\ g # RelSrc
  BY <1>1, NoneAssumption DEF TypeOK, TileTypes, PutBursts
<1>3. aOngoings[g] = aBurst.sent
  BY <1>1, <1>2 DEF IInv, BurstsCounted, ASrcs
<1>4. msg \in DMessages /\ msg.src = g /\ msg.op # "AccessAckData" /\ ~GetsGrant(msg)
  BY <1>2, MessageTyped DEF DMessages, DMsg, GetsGrant
<1>5. Busy' = Busy /\ Putting = {g}
  BY <1>1 DEF Busy, Putting
<1>6. CASE aBurst.sent + 1 = Beats
  <2>1. dQueue' = Append(dQueue, msg) /\ Putting' = {}
    BY <1>1, <1>3, <1>6 DEF Putting
  <2> HIDE DEF g, msg
  <2>2. OneAnswer'
    BY <1>1, <1>2, <1>4, <1>5, <2>1, DataPushed DEF OneAnswer
  <2> QED BY <1>1, <1>4, <2>1, <2>2, PushedKeeps
<1>7. CASE aBurst.sent + 1 # Beats
  <2>1. UNCHANGED <<dQueue, bch, dOut>>
    BY <1>1, <1>3, <1>7
  <2>2. Putting' \subseteq {g}
    BY <1>1, <1>2, <1>7 DEF Putting, PutBursts
  <2>3. OneAnswer'
    BY <1>5, <2>1, <2>2, DataUnmoved DEF OneAnswer
  <2> QED BY <2>1, <2>3, AllSame
<1> QED BY <1>6, <1>7

LEMMA AcquireBlockAnswer ==
  ASSUME IInv, OneAnswer, NEW m \in MSHRs, NEW b \in Cacheable,
         NEW grow \in {"NtoB", "NtoT", "BtoT"}, AcquireBlock(m, b, grow)
  PROVE  OneAnswer' /\ ReadsSame /\ PortKept
<1>1. /\ mshr[m] = None /\ mshr' = [mshr EXCEPT ![m] = [block |-> b, sink |-> None]]
      /\ HandleAcquireBlock(m, b, grow) /\ b \in Blocks
      /\ UNCHANGED <<gets, aBurst, dOut>> /\ TypeOK
  BY DEF AcquireBlock, MayAcquire, HandleAcquireBlock, IInv, Cacheable
<1>2. Busy' = Busy \cup {m} /\ m \notin Busy /\ m # RelSrc
  BY <1>1, BusyWithMiss
<1>3. CapFor(grow) \in {"toT", "toB"} /\ mem \in [Blocks -> [BeatNo -> Nat]]
  BY <1>1 DEF CapFor, TypeOK, MemoryTypes
<1>4. PICK sink \in dFree :
        IF IsTip(b)
        THEN /\ dQueue' = Append(dQueue, Grant("GrantData", m, sink, b, CapFor(grow),
                                               DataOf(mem, b)))
             /\ bch' = bch
        ELSE /\ bch' \in RetrieveBlock(bch,
                  Request(b, IF grow = "NtoB" THEN "toB" ELSE "toN",
                          [kind |-> "GrantData_cb", src |-> m, sink |-> sink,
                           block |-> b, param |-> CapFor(grow)]))
             /\ dQueue' = dQueue
  BY <1>1 DEF HandleAcquireBlock
<1>5. sink \in Sinks
  BY <1>1 DEF TypeOK, ChannelTypes
<1>6. CASE IsTip(b)
  <2> DEFINE msg == Grant("GrantData", m, sink, b, CapFor(grow), DataOf(mem, b))
  <2>1. msg \in DMessages
    BY <1>1, <1>3, <1>5, DataTyped, GrantTyped
  <2>2. msg.src = m /\ msg.op # "AccessAckData"
    BY DEF Grant, DMsg
  <2>3. dQueue' = Append(dQueue, msg) /\ bch' = bch
    BY <1>4, <1>6
  <2> HIDE DEF msg
  <2> QED BY <1>1, <1>2, <2>1, <2>2, <2>3, AnswerPushed, PushedKeeps
<1>7. CASE ~IsTip(b)
  <2> DEFINE then == [kind |-> "GrantData_cb", src |-> m, sink |-> sink,
                      block |-> b, param |-> CapFor(grow)]
             rq   == Request(b, IF grow = "NtoB" THEN "toB" ELSE "toN", then)
  <2>1. rq \in Requests /\ rq.then = then
    <3>1. then \in Pending
      BY <1>1, <1>3, <1>5 DEF Pending
    <3> HIDE DEF then
    <3> QED BY <1>1, <3>1 DEF Request, Requests, Caps
  <2>2. bch' \in RetrieveBlock(bch, rq) /\ dQueue' = dQueue
    BY <1>4, <1>7
  <2>3. m \notin AskedIn(bch)
    BY <1>2 DEF OneAnswer
  <2>4. Unasked(bch, rq) /\ OncePerSource(bch)
    BY <2>1, <2>3 DEF Unasked, OneAnswer
  <2>5. OncePerSource(bch') /\ CbsOf(bch') \subseteq CbsOf(bch) \cup {then}
    <3> HIDE DEF rq, then
    <3> QED BY <2>1, <2>2, <2>4, RequestMade
  <2>6. AskedIn(bch') \subseteq AskedIn(bch) \cup {m}
    BY <2>5 DEF AskedIn
  <2>7. Putting' = Putting
    BY <1>1 DEF Putting
  <2>8. ReadsSame /\ PortKept
    <3> HIDE DEF then, rq
    <3>1. rq.then.kind # "AccessAckData_cb"
      BY <2>1 DEF then
    <3> QED BY <1>1, <2>1, <2>2, <2>5, <3>1, RequestKeeps
  <2>9. OneAnswer'
    <3> HIDE DEF then, rq
    <3> QED BY <1>1, <1>2, <2>2, <2>5, <2>6, <2>7, DataUnmoved DEF OneAnswer
  <2> QED BY <2>8, <2>9
<1> QED BY <1>6, <1>7

LEMMA AcquirePermAnswer ==
  ASSUME IInv, OneAnswer, NEW m \in MSHRs, NEW b \in Cacheable, AcquirePerm(m, b)
  PROVE  OneAnswer' /\ ReadsSame /\ GrantCbsKept /\ PortKept
<1>1. /\ mshr[m] = None /\ mshr' = [mshr EXCEPT ![m] = [block |-> b, sink |-> None]]
      /\ HandleAcquirePerm(m, b, "NtoT") /\ b \in Blocks
      /\ UNCHANGED <<gets, aBurst, dOut, bch>> /\ TypeOK
  BY DEF AcquirePerm, MayAcquire, HandleAcquirePerm, IInv, Cacheable
<1>2. Busy' = Busy \cup {m} /\ m \notin Busy /\ m # RelSrc
  BY <1>1, BusyWithMiss
<1>3. PICK sink \in dFree :
        dQueue' = Append(dQueue, Grant("Grant", m, sink, b, CapFor("NtoT"), <<>>))
  BY <1>1 DEF HandleAcquirePerm
<1> DEFINE msg == Grant("Grant", m, sink, b, CapFor("NtoT"), <<>>)
<1>4. msg \in DMessages
  <2>1. sink \in Sinks /\ CapFor("NtoT") \in {"toT", "toB"} /\ <<>> \in Seq(Nat)
    BY <1>1, EmptySeq DEF TypeOK, ChannelTypes, CapFor
  <2> QED BY <1>1, <2>1, GrantTyped
<1>5. msg.src = m /\ msg.op # "AccessAckData"
  BY DEF Grant, DMsg
<1> HIDE DEF msg
<1> QED BY <1>1, <1>2, <1>3, <1>4, <1>5, AnswerPushed, PushedKeeps DEF msg

\* steps that move no request, callback or message
LEMMA QuietAnswer ==
  ASSUME OneAnswer, UNCHANGED <<bch, dQueue, dOut, aBurst, mshr, gets>>
  PROVE  OneAnswer' /\ GrantsSame /\ ReadsSame
<1>1. Busy' = Busy /\ Putting' = Putting
  BY DEF Busy, Putting
<1>2. OneAnswer'
  BY <1>1, DataUnmoved DEF OneAnswer
<1> QED BY <1>2, AllSame

LEMMA ReleaseAckAnswer ==
  ASSUME TypeOK, OneAnswer, dQueue' = Append(dQueue, DMsg("ReleaseAck", RelSrc)),
         UNCHANGED <<bch, dOut, aBurst, mshr, gets>>
  PROVE  OneAnswer' /\ GrantsSame /\ ReadsSame
<1> DEFINE msg == DMsg("ReleaseAck", RelSrc)
<1>1. msg \in DMessages /\ msg.src = RelSrc /\ msg.op # "AccessAckData" /\ ~GetsGrant(msg)
  BY MessageTyped DEF DMessages, DMsg, GetsGrant
<1>2. Busy' = Busy /\ Putting' = Putting
  BY DEF Busy, Putting
<1>3. dQueue' = Append(dQueue, msg) /\ RelSrc \notin InQueue
  BY DEF InQueue
<1> HIDE DEF msg
<1>4. OneAnswer'
  BY <1>1, <1>2, <1>3, DataPushed DEF OneAnswer
<1> QED BY <1>1, <1>3, <1>4, PushedKeeps

LEMMA GrantAckAnswer ==
  ASSUME IInv, OneAnswer, NEW m \in MSHRs, GrantAck(m)
  PROVE  OneAnswer' /\ GrantsSame /\ ReadsSame
<1>1. /\ mshr[m] # None /\ mshr[m].sink # None /\ mshr' = [mshr EXCEPT ![m] = None]
      /\ UNCHANGED <<bch, dQueue, dOut, aBurst, gets>>
  BY DEF GrantAck, HandleGrantAck
<1>2. \A n \in MSHRs : mshr'[n] = IF n = m THEN None ELSE mshr[n]
  BY <1>1 DEF IInv, TypeOK, TileTypes
<1>3. Busy' = Busy /\ Putting' = Putting
  BY <1>1, <1>2 DEF Busy, Putting
<1>4. OneAnswer'
  BY <1>1, <1>3, DataUnmoved DEF OneAnswer
<1> QED BY <1>1, <1>4, AllSame

\* the answer reaches the tile, and with its last beat the request is over
LEMMA ReceiveDAnswer ==
  ASSUME IInv, OneAnswer, ReceiveD
  PROVE  OneAnswer' /\ GrantsSame /\ ReadsSame
<1> DEFINE msg == dOut.msg
<1>1. FireD /\ TypeOK /\ UNCHANGED <<bch, dQueue, aBurst>>
  BY DEF ReceiveD, FireD, IInv
<1>2. /\ msg \in DMessages
      /\ DMessagesInFlight' \subseteq DMessagesInFlight
      /\ InQueue' = InQueue /\ (QueueOnce => QueueOnce')
      /\ LastSent => dOut' = None /\ OnD' = {}
      /\ ~LastSent => dOut' # None /\ dOut'.msg = msg /\ OnD' = OnD
      /\ dOut # None
  BY <1>1, DataTaken
<1>3. Putting' = Putting
  BY <1>1 DEF Putting
<1>4. GrantsSame /\ ReadsSame
  BY <1>1, <1>2 DEF GrantsSame, ReadsSame, GrantsKept, AnswersKept, GrantCbsKept, ReadCbsKept,
                    PortKept
<1>5. CASE ~LastSent
  <2>1. UNCHANGED <<mshr, gets>>
    BY <1>5 DEF ReceiveD
  <2>2. Busy' = Busy
    BY <2>1 DEF Busy
  <2> QED BY <1>1, <1>2, <1>3, <1>4, <1>5, <2>2 DEF OneAnswer
<1>6. CASE LastSent
  <2>1. /\ mshr' = IF ~GetsGrant(msg) THEN mshr
                   ELSE [mshr EXCEPT ![msg.src] = [block |-> msg.block, sink |-> msg.sink]]
        /\ gets' = IF msg.src \in GSrcs THEN [gets EXCEPT ![msg.src] = None] ELSE gets
    BY <1>6 DEF ReceiveD
  <2>2. \A n \in MSHRs \ {msg.src} : mshr'[n] = mshr[n]
    BY <1>1, <2>1 DEF TypeOK, TileTypes
  <2>3. \A g \in GSrcs \ {msg.src} : gets'[g] = gets[g]
    BY <1>1, <2>1 DEF TypeOK, TileTypes
  <2>4. Busy \subseteq Busy' \cup {msg.src}
    BY <2>2, <2>3 DEF Busy
  <2>5. msg.src = RelSrc => Busy = Busy'
    <3>1. msg.src = RelSrc => msg.src \notin GSrcs /\ ~GetsGrant(msg)
      BY <1>2, NoneAssumption DEF DMessages, Answers, Grants, GetsGrant
    <3> QED BY <2>1, <3>1 DEF Busy
  <2>6. msg.src # RelSrc => OnD = {msg.src}
    BY <1>2 DEF OnD
  <2> HIDE DEF msg
  <2> QED BY <1>1, <1>2, <1>3, <1>4, <1>6, <2>4, <2>5, <2>6 DEF OneAnswer
<1> QED BY <1>5, <1>6

LEMMA DriveDAnswer ==
  ASSUME IInv, OneAnswer, DriveD
  PROVE  OneAnswer' /\ GrantsKept /\ GrantCbsKept /\ ReadsSame
<1>1. PopD /\ UNCHANGED <<bch, aBurst, mshr, gets>> /\ TypeOK /\ QueueOnce
  BY DEF DriveD, PopD, tVars, IInv, OneAnswer
<1>2. Busy' = Busy /\ Putting' = Putting
  BY <1>1 DEF Busy, Putting
<1>3. /\ DMessagesInFlight' = DMessagesInFlight /\ QueueOnce'
      /\ OnD = {} /\ InQueue = InQueue' \cup OnD' /\ InQueue' \cap OnD' = {}
  BY <1>1, DataPopped
<1>4. OneAnswer'
  BY <1>1, <1>2, <1>3 DEF OneAnswer
<1> QED BY <1>1, <1>3, <1>4
        DEF ReadsSame, GrantsKept, AnswersKept, GrantCbsKept, ReadCbsKept

LEMMA DriveBAnswer ==
  ASSUME IInv, OneAnswer, DriveB
  PROVE  OneAnswer' /\ GrantsSame /\ ReadsSame
<1>1. /\ bch' = [bch EXCEPT !.queue = Tail(@)]
      /\ UNCHANGED <<dQueue, dOut, aBurst, mshr, gets>>
  BY DEF DriveB, PopB, tVars
<1>2. bch'.waiting = bch.waiting /\ bch'.callback = bch.callback
  BY <1>1 DEF IInv, TypeOK, EngineTypes, Engines
<1>3. OncePerSource(bch) => OncePerSource(bch')
  BY <1>2 DEF OncePerSource
<1>4. CbsOf(bch') = CbsOf(bch)
  BY <1>2 DEF CbsOf
<1>5. AskedIn(bch') = AskedIn(bch)
  BY <1>4 DEF AskedIn
<1>6. Busy' = Busy /\ Putting' = Putting
  BY <1>1 DEF Busy, Putting
<1>7. OneAnswer'
  BY <1>1, <1>3, <1>5, <1>6, DataUnmoved DEF OneAnswer
<1>8. DMessagesInFlight' = DMessagesInFlight
  BY <1>1 DEF DMessagesInFlight
<1> QED BY <1>1, <1>4, <1>7, <1>8
        DEF GrantsSame, ReadsSame, GrantsKept, AnswersKept, GrantCbsKept, ReadCbsKept, PortKept

\* a probe that the host asked for answers nobody
LEMMA HostRequestAnswer ==
  ASSUME IInv, OneAnswer, NEW rq \in Requests, ~Replies(rq.then),
         bch' \in RetrieveBlock(bch, rq), UNCHANGED <<dQueue, dOut, aBurst, mshr, gets>>
  PROVE  OneAnswer' /\ GrantsSame /\ ReadsSame
<1>1. Unasked(bch, rq) /\ OncePerSource(bch)
  BY DEF Unasked, OneAnswer
<1>2. OncePerSource(bch') /\ CbsOf(bch') \subseteq CbsOf(bch) \cup {rq.then}
  BY <1>1, RequestMade
<1>3. AskedIn(bch') \subseteq AskedIn(bch)
  BY <1>2 DEF AskedIn
<1>4. Busy' = Busy /\ Putting' = Putting
  BY DEF Busy, Putting
<1>5. OneAnswer'
  BY <1>2, <1>3, <1>4, DataUnmoved DEF OneAnswer
<1>6. rq.then.kind # "GrantData_cb" /\ rq.then.kind # "AccessAckData_cb"
  BY DEF Replies
<1> QED BY <1>2, <1>5, <1>6, RequestKeeps

LEMMA RetrieveAnswer ==
  ASSUME IInv, OneAnswer, Retrieve
  PROVE  OneAnswer' /\ GrantsSame /\ ReadsSame
<1> DEFINE trunk == {b \in Blocks : perm[b] = "TRUNK"}
<1>1. UNCHANGED <<dQueue, dOut, aBurst, mshr, gets>>
  BY DEF Retrieve, DataRetriever
<1>2. CASE trunk = {}
  <2>1. bch' = bch
    BY <1>2 DEF Retrieve, DataRetriever
  <2> QED BY <1>1, <2>1, QuietAnswer
<1>3. CASE trunk # {}
  <2> DEFINE rq(b) == Request(b, "toN", [kind |-> "probe_blocks", rest |-> trunk \ {b}])
  <2>1. PICK b \in trunk : bch' \in RetrieveBlock(bch, rq(b))
    BY <1>3 DEF Retrieve, DataRetriever, ProbeNext
  <2>2. rq(b) \in Requests /\ ~Replies(rq(b).then)
    BY DEF Request, Requests, Pending, Caps, Replies
  <2> HIDE DEF rq
  <2> QED BY <1>1, <2>1, <2>2, HostRequestAnswer
<1> QED BY <1>2, <1>3

LEMMA ProbeTohostAnswer ==
  ASSUME IInv, OneAnswer, ProbeTohost
  PROVE  OneAnswer' /\ GrantsSame /\ ReadsSame
<1> DEFINE rq == Request(probeAddr, "toN", [kind |-> "enableProbe"])
<1>1. /\ bch' \in RetrieveBlock(bch, rq) /\ probe
      /\ UNCHANGED <<dQueue, dOut, aBurst, mshr, gets>>
  BY DEF ProbeTohost, HostInterface, HostProbes, tVars
<1>2. rq \in Requests /\ ~Replies(rq.then)
  <2>1. probeAddr \in Blocks
    BY <1>1 DEF IInv, TypeOK, HostTypes
  <2> QED BY <2>1 DEF Request, Requests, Pending, Caps, Replies
<1> HIDE DEF rq
<1> QED BY <1>1, <1>2, HostRequestAnswer

\* what CallAndRelease sends for a callback
ReplyOf(cb) ==
  IF cb.kind = "AccessAckData_cb" THEN AccessAckData(cb.src, DataOf(mem', cb.block))
  ELSE Grant("GrantData", cb.src, cb.sink, cb.block, cb.param, DataOf(mem', cb.block))

\* the callback of a probe becomes the message it stands for
LEMMA CallAnswer ==
  ASSUME IInv, OneAnswer, MemoryTypes', NEW src \in Outside, CallAndRelease(src),
         UNCHANGED <<dOut, aBurst, mshr, gets>>
  PROVE  /\ OneAnswer' /\ GrantCbsKept /\ ReadCbsKept /\ PortKept
         /\ bch.callback[src] \in CbsOf(bch) /\ bch.callback[src] \in Callbacks
         /\ \A t \in Outside \ {src} : bch'.callback[t] = bch.callback[t]
         /\ \A W, b : AllFit(bch, W) /\ Fits(bch.callback[src], b, W) => AllFit(bch', W \ {b})
         /\ ~Replies(bch.callback[src]) => GrantsSame /\ ReadsSame
         /\ Replies(bch.callback[src]) =>
              /\ DMessagesInFlight' = DMessagesInFlight \cup {ReplyOf(bch.callback[src])}
              /\ \A cb \in CbsOf(bch') : Replies(cb) => cb.src # bch.callback[src].src
              /\ \A msg \in DMessagesInFlight : msg.src # bch.callback[src].src
<1> DEFINE cb == bch.callback[src]
<1>1. cb \in Callbacks /\ TypeOK /\ cb \in CbsOf(bch)
  BY EngineFacts DEF IInv, TypeOK, EngineTypes, Engines, CbsOf
<1>2. /\ OncePerSource(bch')
      /\ \A c \in CbsOf(bch') : c \in CbsOf(bch) \/ ~Replies(c)
      /\ Replies(cb) => cb.src \notin AskedIn(bch')
      /\ \A t \in Outside \ {src} : bch'.callback[t] = bch.callback[t]
      /\ \A W, b : AllFit(bch, W) /\ Fits(bch.callback[src], b, W) => AllFit(bch', W \ {b})
  BY CalledBack DEF OneAnswer
<1>3. AskedIn(bch') \subseteq AskedIn(bch)
  BY <1>2 DEF AskedIn
<1>4. Busy' = Busy /\ Putting' = Putting
  BY DEF Busy, Putting
<1>5. GrantCbsKept /\ ReadCbsKept /\ PortKept
  BY <1>2 DEF GrantCbsKept, ReadCbsKept, PortKept, Replies
<1>6. CASE ~Replies(cb)
  <2>1. dQueue' = dQueue
    BY <1>6 DEF CallAndRelease, Replies
  <2>2. GrantsSame /\ ReadsSame
    BY <1>5, <2>1 DEF GrantsSame, ReadsSame, GrantsKept, AnswersKept, DMessagesInFlight
  <2>3. OneAnswer'
    BY <1>2, <1>3, <1>4, <2>1, DataUnmoved DEF OneAnswer
  <2> QED BY <1>1, <1>2, <1>5, <1>6, <2>2, <2>3
<1>7. CASE Replies(cb)
  <2> DEFINE msg == ReplyOf(cb)
  <2>1. dQueue' = Append(dQueue, msg)
    BY <1>7 DEF CallAndRelease, Replies, ReplyOf
  <2>2. cb.src \in GSrcs \cup MSHRs /\ cb.src # RelSrc /\ cb.block \in Blocks
    BY <1>1, <1>7, NoneAssumption DEF Callbacks, Pending, NoCallback, Replies
  <2>3. mem' \in [Blocks -> [BeatNo -> Nat]]
    BY DEF MemoryTypes
  <2>4. msg \in DMessages
    <3>1. CASE cb.kind = "AccessAckData_cb"
      <4>1. cb.src \in GSrcs
        BY <1>1, <3>1 DEF Callbacks, Pending, NoCallback
      <4> QED BY <2>2, <2>3, <3>1, <4>1, DataTyped, AckDataTyped DEF ReplyOf
    <3>2. CASE cb.kind = "GrantData_cb"
      <4>1. cb.src \in MSHRs /\ cb.sink \in Sinks /\ cb.param \in {"toT", "toB"}
        BY <1>1, <3>2 DEF Callbacks, Pending, NoCallback
      <4> QED BY <2>2, <2>3, <3>2, <4>1, DataTyped, GrantTyped DEF ReplyOf
    <3> QED BY <1>7, <3>1, <3>2 DEF Replies
  <2>5. msg.src = cb.src
    BY DEF ReplyOf, AccessAckData, Grant, DMsg
  <2>6. cb.src \in AskedIn(bch)
    BY <1>1, <1>7 DEF AskedIn
  <2>7. cb.src \notin InQueue \cup OnD
    BY <2>6 DEF OneAnswer
  <2>8. \A m \in DMessagesInFlight : m.src # cb.src
    BY <2>2, <2>7 DEF DMessagesInFlight, InQueue, OnD
  <2>9. \A c \in CbsOf(bch') : Replies(c) => c.src # cb.src
    BY <1>2, <1>7 DEF AskedIn
  <2> HIDE DEF msg, cb
  <2>10. /\ DMessagesInFlight' = DMessagesInFlight \cup {msg}
         /\ InQueue' = InQueue \cup {cb.src} /\ OnD' = OnD /\ QueueOnce'
    BY <1>1, <2>1, <2>2, <2>4, <2>5, <2>7, DataPushed DEF OneAnswer
  <2>11. OneAnswer'
    BY <1>2, <1>3, <1>4, <1>7, <2>6, <2>10 DEF OneAnswer
  <2> QED BY <1>1, <1>2, <1>5, <1>7, <2>8, <2>9, <2>10, <2>11 DEF msg, cb
<1> QED BY <1>6, <1>7

----------------------------------------------------------------------------
(* Bursts and probes, as the other parts of the invariant need them.       *)

\* a beat of a burst: in the middle, the last of a release, the last of an answer
LEMMA BurstCases ==
  ASSUME IInv, BurstBeat
  PROVE  /\ cBurst # None /\ cBurst \in Bursts /\ cBurst.block \in Blocks
         /\ UNCHANGED <<line, latest, mshr, gets, aBurst, rel, pend, bOut, dOut, dFree>>
         /\ mem' = [mem EXCEPT ![cBurst.block][cBurst.sent + 1] = latest[cBurst.block]]
         /\ \/ /\ cBurst.sent + 1 # Beats
               /\ cBurst' # None /\ cBurst'.block = cBurst.block /\ cBurst'.src = cBurst.src
               /\ cBurst'.sent = cBurst.sent + 1 /\ cBurst'.report = cBurst.report
               /\ UNCHANGED <<perm, bch, dQueue, ongoingTlc>>
            \/ /\ cBurst.sent + 1 = Beats /\ cBurst' = None /\ cBurst.src = RelSrc
               /\ perm' = Reported(cBurst.report, cBurst.block)
               /\ dQueue' = Append(dQueue, DMsg("ReleaseAck", RelSrc))
               /\ UNCHANGED <<bch, ongoingTlc>>
            \/ /\ cBurst.sent + 1 = Beats /\ cBurst' = None /\ cBurst.src \in Outside
               /\ perm' = Reported(cBurst.report, cBurst.block)
               /\ CallAndRelease(cBurst.src) /\ cBurst.src # RelSrc
<1> DEFINE src  == cBurst.src
           b    == cBurst.block
           last == LastBeat(src)
<1>1. /\ cBurst # None
      /\ cBurst' = IF cBurst.sent + 1 = Beats THEN None ELSE [cBurst EXCEPT !.sent = @ + 1]
      /\ UNCHANGED <<line, latest, mshr, gets, aBurst, rel, pend>>
  BY DEF BurstBeat
<1>2. /\ CountBeat(src) /\ WriteBeat(src, b, latest[b])
      /\ UNCHANGED <<bOut, dOut, dFree, aOngoings>>
  BY DEF BurstBeat, HandleProbeAckData, HandleReleaseData, hostVars
<1>3. /\ cBurst \in Bursts /\ b \in Blocks /\ src \in CSrcs
      /\ last <=> cBurst.sent + 1 = Beats
  BY <1>1, <1>2, BeatCounted
<1>4. cOngoings[src] = cBurst.sent
  BY <1>1, <1>3 DEF IInv, BurstsCounted
<1>5. mem' = [mem EXCEPT ![b][cBurst.sent + 1] = latest[b]]
  BY <1>2, <1>4 DEF WriteBeat
<1>6. cBurst.op = "ReleaseData" => src = RelSrc
  BY <1>3 DEF Bursts, AckBursts, RelBursts
<1>7. cBurst.op = "ProbeAckData" => src \in Outside /\ src # RelSrc
  BY <1>1, <1>3, NoneAssumption DEF Bursts, AckBursts, RelBursts, Outside, InAnswer
<1>8. CASE ~last
  <2>1. UNCHANGED <<perm, bch, dQueue, ongoingTlc>>
    BY <1>8 DEF BurstBeat, HandleProbeAckData, HandleReleaseData, hostVars
  <2>2. /\ cBurst'.block = b /\ cBurst'.src = src
        /\ cBurst'.sent = cBurst.sent + 1 /\ cBurst'.report = cBurst.report
    BY <1>1, <1>3, <1>8 DEF Bursts, AckBursts, RelBursts
  <2>3. cBurst' \in Bursts
    BY <1>1, <1>2, <1>8, BeatCounted
  <2>4. cBurst' # None
    BY <2>3, NoMessageAssumption
  <2> QED BY <1>1, <1>2, <1>3, <1>5, <1>8, <2>1, <2>2, <2>4
<1>9. CASE last /\ cBurst.op = "ReleaseData"
  <2>1. /\ perm' = Reported(cBurst.report, b) /\ UNCHANGED <<bch, ongoingTlc>>
        /\ dQueue' = Append(dQueue, DMsg("ReleaseAck", src))
    BY <1>9 DEF BurstBeat, HandleReleaseData
  <2> QED BY <1>1, <1>2, <1>3, <1>5, <1>6, <1>9, <2>1
<1>10. CASE last /\ cBurst.op = "ProbeAckData"
  <2>1. perm' = Reported(cBurst.report, b) /\ CallAndRelease(src)
    BY <1>10 DEF BurstBeat, HandleProbeAckData
  <2> HIDE DEF src, last
  <2> QED BY <1>1, <1>2, <1>3, <1>5, <1>7, <1>10, <2>1 DEF src
<1> QED BY <1>8, <1>9, <1>10 DEF BurstBeat

LEMMA ProbeAckCases ==
  ASSUME IInv, NEW p \in pend, ProbeAck(p)
  PROVE  /\ p \in Probes /\ p.src \in Outside /\ CallAndRelease(p.src)
         /\ cBurst = None /\ line[p.block] # "D" /\ pend' = pend \ {p}
         /\ line' = [line EXCEPT ![p.block] = Shrink(@, p.cap)[1]]
         /\ perm' = Reported(Shrink(line[p.block], p.cap)[2], p.block)
         /\ UNCHANGED <<latest, mshr, gets, aBurst, cBurst, mem, bOut, dOut, dFree>>
BY DEF ProbeAck, MayAnswer, HandleProbeAck, IInv, TypeOK, EngineTypes, Outside, InTile

\* a block is only lowered by a probe
LEMMA ShrinkLowers ==
  ASSUME NEW l \in {"N", "B", "T", "D"}, NEW cap \in Caps
  PROVE  /\ l \in {"N", "B"} => /\ Shrink(l, cap)[1] \in {"N", "B"}
                                /\ Shrink(l, cap)[2] \in {"BtoN", "BtoB", "NtoN"}
         /\ Shrink(l, cap)[1] # "D"
         /\ l \in {"T", "D"} => /\ Shrink(l, cap)[2] \in {"TtoT", "TtoB", "TtoN"}
                                /\ Shrink(l, cap)[2] # "TtoT" => Shrink(l, cap)[1] \in {"N", "B"}
<1>1. CASE l \in {"T", "D"}
  BY <1>1 DEF Caps, Shrink, Level
<1>2. CASE l = "B"
  BY <1>2 DEF Caps, Shrink, Level
<1>3. CASE l = "N"
  BY <1>3 DEF Caps, Shrink, Level
<1> QED BY <1>1, <1>2, <1>3

\* sources of answers on their way, with the types of what sends them
LEMMA SourcesBusy ==
  ASSUME IInv, OneAnswer
  PROVE  /\ \A cb \in CbsOf(bch) : Replies(cb) => cb.src \in Busy
         /\ \A msg \in DMessagesInFlight : msg.src = RelSrc \/ msg.src \in Busy
         /\ DMessagesInFlight \subseteq DMessages /\ CbsOf(bch) \subseteq Callbacks
         /\ \A cb \in CbsOf(bch), msg \in DMessagesInFlight : Replies(cb) => cb.src # msg.src
         /\ \A msg \in DMessagesInFlight : GetsGrant(msg) =>
              msg \in Grants /\ msg.src \in MSHRs /\ msg.block \in Blocks /\ msg.sink \in Sinks
         /\ \A cb \in CbsOf(bch) : cb.kind = "GrantData_cb" =>
              Replies(cb) /\ cb.src \in MSHRs /\ cb.block \in Blocks /\ cb.sink \in Sinks
         /\ \A cb \in CbsOf(bch) : cb.kind = "AccessAckData_cb" =>
              Replies(cb) /\ cb.src \in GSrcs /\ cb.block \in Blocks
<1>1. bch \in Engines /\ dQueue \in Seq(DMessages)
      /\ dOut \in [msg : DMessages, sent : Nat] \cup {None}
  BY DEF IInv, TypeOK, EngineTypes, ChannelTypes
<1>2. CbsOf(bch) \subseteq Callbacks
  BY <1>1, CbsTyped
<1>3. DMessagesInFlight \subseteq DMessages
  <2>1. \A i \in DOMAIN dQueue : dQueue[i] \in DMessages
    BY <1>1
  <2> QED BY <1>1, <2>1 DEF DMessagesInFlight
<1>4. \A cb \in CbsOf(bch) : Replies(cb) => cb.src \in AskedIn(bch)
  BY DEF AskedIn
<1>5. \A msg \in DMessagesInFlight : msg.src = RelSrc \/ msg.src \in InQueue \cup OnD
  BY DEF DMessagesInFlight, InQueue, OnD
<1>6. \A cb \in Callbacks : Replies(cb) => cb.src \in GSrcs \cup MSHRs /\ cb.src # RelSrc
  BY NoneAssumption DEF Callbacks, Pending, NoCallback, Replies
<1>7. \A cb \in Callbacks : cb.kind = "GrantData_cb" =>
              Replies(cb) /\ cb.src \in MSHRs /\ cb.block \in Blocks /\ cb.sink \in Sinks
  BY DEF Callbacks, Pending, NoCallback, Replies
<1>8. \A cb \in Callbacks : cb.kind = "AccessAckData_cb" =>
              Replies(cb) /\ cb.src \in GSrcs /\ cb.block \in Blocks
  BY DEF Callbacks, Pending, NoCallback, Replies
<1>9. \A msg \in DMessages : GetsGrant(msg) =>
        msg \in Grants /\ msg.src \in MSHRs /\ msg.block \in Blocks /\ msg.sink \in Sinks
  BY DEF DMessages, Answers, Grants, GetsGrant
<1>10. \A cb \in CbsOf(bch), msg \in DMessagesInFlight : Replies(cb) => cb.src # msg.src
  BY <1>2, <1>4, <1>5, <1>6 DEF OneAnswer
<1> QED BY <1>2, <1>3, <1>4, <1>5, <1>7, <1>8, <1>9, <1>10 DEF OneAnswer

----------------------------------------------------------------------------
(* Misses.                                                                 *)

\* the grant for which a callback waited
FromCb(msg) == \E cb \in CbsOf(bch) : /\ cb.kind = "GrantData_cb"
                                     /\ msg.src = cb.src /\ msg.block = cb.block
                                     /\ msg.sink = cb.sink

GrantsOld == \A msg \in DMessagesInFlight' : GetsGrant(msg) => msg \in DMessagesInFlight \/ FromCb(msg)

LEMMA SameIsOld ==
  ASSUME GrantsSame
  PROVE  GrantsOld /\ GrantCbsKept /\ PortKept /\ GrantsKept
BY DEF GrantsSame, GrantsOld, GrantsKept

\* the reply of a callback
LEMMA ReplyIsOld ==
  ASSUME NEW cb \in CbsOf(bch), Replies(cb),
         DMessagesInFlight' = DMessagesInFlight \cup {ReplyOf(cb)}
  PROVE  GrantsOld
<1>1. ReplyOf(cb).src = cb.src
  BY DEF ReplyOf, AccessAckData, Grant, DMsg
<1>2. CASE cb.kind = "AccessAckData_cb"
  BY <1>2 DEF ReplyOf, AccessAckData, DMsg, GetsGrant, GrantsOld
<1>3. CASE cb.kind = "GrantData_cb"
  <2>1. ReplyOf(cb).block = cb.block /\ ReplyOf(cb).sink = cb.sink
    BY <1>3 DEF ReplyOf, Grant, DMsg
  <2>2. FromCb(ReplyOf(cb))
    BY <1>1, <1>3, <2>1 DEF FromCb
  <2> QED BY <2>2 DEF GrantsOld
<1> QED BY <1>2, <1>3 DEF Replies

LEMMA CallIsOld ==
  ASSUME IInv, OneAnswer, MemoryTypes', NEW src \in Outside, CallAndRelease(src),
         UNCHANGED <<dOut, aBurst, mshr, gets>>
  PROVE  GrantsOld /\ GrantCbsKept /\ PortKept
<1>1. CASE Replies(bch.callback[src])
  BY <1>1, CallAnswer, ReplyIsOld
<1>2. CASE ~Replies(bch.callback[src])
  BY <1>2, CallAnswer, SameIsOld
<1> QED BY <1>1, <1>2

LEMMA MissesSame ==
  ASSUME TypeOK, Misses, mshr' = mshr, GrantCbsKept, GrantsOld,
         \A b \in Blocks : line[b] \in {"N", "B"} => line'[b] \in {"N", "B"}
  PROVE  Misses'
<1>1. \A m \in MSHRs : mshr[m] # None => mshr[m].block \in Blocks
  BY DEF TypeOK, TileTypes
<1>2. \A msg \in DMessagesInFlight' : GetsGrant(msg) => mshr[msg.src] = Miss(msg.block)
  BY DEF GrantsOld, FromCb, Misses
<1>3. \A cb \in CbsOf(bch') : cb.kind = "GrantData_cb" => mshr[cb.src] = Miss(cb.block)
  BY DEF GrantCbsKept, Misses
<1> QED BY <1>1, <1>2, <1>3 DEF Misses

\* a miss starts, for a block that has none
LEMMA MissesStart ==
  ASSUME IInv, OneAnswer, Misses, NEW m \in MSHRs, NEW b \in Cacheable,
         MayAcquire(m, b), line[b] \in {"N", "B"},
         mshr' = [mshr EXCEPT ![m] = [block |-> b, sink |-> None]], UNCHANGED <<line, gets>>,
         \A msg \in DMessagesInFlight' : GetsGrant(msg) =>
           msg \in DMessagesInFlight \/ (msg.src = m /\ msg.block = b),
         \A cb \in CbsOf(bch') : cb.kind = "GrantData_cb" =>
           cb \in CbsOf(bch) \/ (cb.src = m /\ cb.block = b)
  PROVE  Misses'
<1>1. TypeOK /\ b \in Blocks /\ mshr[m] = None /\ ~Missing(b)
  BY DEF IInv, Cacheable, MayAcquire
<1>2. /\ m \notin Busy /\ m # RelSrc /\ mshr'[m] = Miss(b) /\ Miss(b) # None
      /\ \A n \in MSHRs \ {m} : mshr'[n] = mshr[n]
  BY <1>1, BusyWithMiss
<1>3. Miss(b).block = b /\ Miss(b).sink = None
  BY DEF Miss
<1>4. \A msg \in DMessagesInFlight : GetsGrant(msg) => msg.src \in MSHRs \ {m}
  BY <1>2, SourcesBusy
<1>5. \A cb \in CbsOf(bch) : cb.kind = "GrantData_cb" => cb.src \in MSHRs \ {m}
  BY <1>2, SourcesBusy
<1>6. \A n \in MSHRs \ {m} : mshr[n] # None => mshr[n].block # b
  BY <1>1 DEF Missing
<1>7. \A n \in MSHRs : mshr'[n] # None => mshr'[n].block \in Cacheable
  BY <1>2, <1>3 DEF Misses
<1>8. \A n, k \in MSHRs : mshr'[n] # None /\ mshr'[k] # None /\ mshr'[n].block = mshr'[k].block => n = k
  BY <1>2, <1>3, <1>6 DEF Misses
<1>9. \A n \in MSHRs : mshr'[n] # None /\ mshr'[n].sink = None => line'[mshr'[n].block] \in {"N", "B"}
  BY <1>2, <1>3 DEF Misses
<1>10. \A msg \in DMessagesInFlight' : GetsGrant(msg) => mshr'[msg.src] = Miss(msg.block)
  BY <1>2, <1>4 DEF Misses
<1>11. \A cb \in CbsOf(bch') : cb.kind = "GrantData_cb" => mshr'[cb.src] = Miss(cb.block)
  BY <1>2, <1>5 DEF Misses
<1> QED BY <1>7, <1>8, <1>9, <1>10, <1>11 DEF Misses

\* an answer of msg, sent at once, or a probe whose callback cb will send it
GrantPushed(msg, m, b, sink) ==
  /\ msg \in Grants /\ msg.src = m /\ msg.block = b /\ msg.sink = sink
  /\ msg.op = "Grant" => msg.param = "toT"
  /\ msg.op = "GrantData" => msg.data = DataOf(mem, b)
  /\ DMessagesInFlight' = DMessagesInFlight \cup {msg}
  /\ ongoingTlc' = [ongoingTlc EXCEPT ![sink] = b]
  /\ bch' = bch /\ perm[b] # "TRUNK"

GrantAsked(cb, m, b, sink) ==
  /\ cb.kind = "GrantData_cb" /\ cb.src = m /\ cb.block = b /\ cb.sink = sink
  /\ CbsOf(bch') \subseteq CbsOf(bch) \cup {cb}
  /\ \A t \in Outside : bch'.callback[t] = bch.callback[t]
  /\ \A W : AllFit(bch, W) => AllFit(bch', W)
  /\ DMessagesInFlight' = DMessagesInFlight /\ ongoingTlc' = ongoingTlc

\* what a miss changes, whichever way its grant comes
Acquired(m, b, sink) ==
  /\ sink \in dFree /\ sink \in Sinks /\ dFree' = dFree \ {sink}
  /\ UNCHANGED <<line, latest, gets, aBurst, cBurst, rel, pend, mem, dOut, bOut>>
  /\ perm' = Touched(b) /\ b \in Blocks /\ line[b] \in {"N", "B"}
  /\ MayAcquire(m, b) /\ mshr' = [mshr EXCEPT ![m] = [block |-> b, sink |-> None]]
  /\ \/ \E msg : GrantPushed(msg, m, b, sink)
     \/ \E cb : GrantAsked(cb, m, b, sink)

LEMMA AcquireBlockCases ==
  ASSUME IInv, OneAnswer, NEW m \in MSHRs, NEW b \in Cacheable,
         NEW grow \in {"NtoB", "NtoT", "BtoT"}, AcquireBlock(m, b, grow)
  PROVE  \E sink \in dFree : Acquired(m, b, sink)
<1>1. /\ mshr[m] = None /\ mshr' = [mshr EXCEPT ![m] = [block |-> b, sink |-> None]]
      /\ HandleAcquireBlock(m, b, grow) /\ b \in Blocks /\ line[b] \in {"N", "B"}
      /\ UNCHANGED <<line, latest, gets, aBurst, cBurst, rel, pend, mem, dOut, bOut>>
      /\ TypeOK /\ MayAcquire(m, b) /\ perm' = Touched(b)
  BY DEF AcquireBlock, MayAcquire, HandleAcquireBlock, IInv, Cacheable
<1>2. Busy' = Busy \cup {m} /\ m \notin Busy /\ m # RelSrc
  BY <1>1, BusyWithMiss
<1>3. CapFor(grow) \in {"toT", "toB"} /\ mem \in [Blocks -> [BeatNo -> Nat]]
  BY <1>1 DEF CapFor, TypeOK, MemoryTypes
<1>4. PICK sink \in dFree :
        /\ dFree' = dFree \ {sink}
        /\ IF IsTip(b)
           THEN /\ dQueue' = Append(dQueue, Grant("GrantData", m, sink, b, CapFor(grow),
                                                  DataOf(mem, b)))
                /\ ongoingTlc' = [ongoingTlc EXCEPT ![sink] = b]
                /\ bch' = bch
           ELSE /\ bch' \in RetrieveBlock(bch,
                     Request(b, IF grow = "NtoB" THEN "toB" ELSE "toN",
                             [kind |-> "GrantData_cb", src |-> m, sink |-> sink,
                              block |-> b, param |-> CapFor(grow)]))
                /\ UNCHANGED <<dQueue, ongoingTlc>>
  BY <1>1 DEF HandleAcquireBlock
<1>5. sink \in Sinks
  BY <1>1 DEF TypeOK, ChannelTypes
<1>6. CASE IsTip(b)
  <2> DEFINE msg == Grant("GrantData", m, sink, b, CapFor(grow), DataOf(mem, b))
  <2>1. /\ msg \in DMessages /\ msg.op = "GrantData" /\ msg.data = DataOf(mem, b)
        /\ msg.src = m /\ msg.block = b /\ msg.sink = sink
    <3>1. msg \in DMessages
      BY <1>1, <1>3, <1>5, DataTyped, GrantTyped
    <3> QED BY <3>1 DEF Grant, DMsg
  <2>2. dQueue' = Append(dQueue, msg) /\ bch' = bch /\ ongoingTlc' = [ongoingTlc EXCEPT ![sink] = b]
    BY <1>4, <1>6
  <2> HIDE DEF msg
  <2>3. DMessagesInFlight' = DMessagesInFlight \cup {msg}
    BY <1>1, <2>1, <2>2, DataPushed
  <2>4. msg \in Grants
    BY <2>1 DEF DMessages, Answers
  <2>5. GrantPushed(msg, m, b, sink)
    BY <1>6, <2>1, <2>2, <2>3, <2>4 DEF GrantPushed, IsTip
  <2> QED BY <1>1, <1>4, <1>5, <2>5 DEF Acquired
<1>7. CASE ~IsTip(b)
  <2> DEFINE then == [kind |-> "GrantData_cb", src |-> m, sink |-> sink,
                      block |-> b, param |-> CapFor(grow)]
             rq   == Request(b, IF grow = "NtoB" THEN "toB" ELSE "toN", then)
  <2>1. rq \in Requests /\ rq.then = then /\ \A W : Fits(then, rq.block, W)
    <3>1. then \in Pending /\ \A W : Fits(then, rq.block, W)
      BY <1>1, <1>3, <1>5 DEF Pending, Fits, Reads
    <3> HIDE DEF then
    <3> QED BY <1>1, <3>1 DEF Request, Requests, Caps
  <2>2. bch' \in RetrieveBlock(bch, rq) /\ UNCHANGED <<dQueue, ongoingTlc>>
    BY <1>4, <1>7
  <2>3. m \notin AskedIn(bch)
    BY <1>2 DEF OneAnswer
  <2>4. Unasked(bch, rq) /\ OncePerSource(bch)
    BY <2>1, <2>3 DEF Unasked, OneAnswer
  <2>5. /\ CbsOf(bch') \subseteq CbsOf(bch) \cup {then}
        /\ \A t \in Outside : bch'.callback[t] = bch.callback[t]
        /\ \A W : AllFit(bch, W) => AllFit(bch', W)
    <3> HIDE DEF rq, then
    <3> QED BY <2>1, <2>2, <2>4, RequestMade
  <2>6. then.kind = "GrantData_cb" /\ then.src = m /\ then.block = b /\ then.sink = sink
    OBVIOUS
  <2> HIDE DEF then, rq
  <2>7. GrantAsked(then, m, b, sink)
    BY <1>1, <2>2, <2>5, <2>6 DEF GrantAsked, DMessagesInFlight
  <2> QED BY <1>1, <1>4, <1>5, <2>7 DEF Acquired
<1> QED BY <1>6, <1>7

LEMMA AcquirePermCases ==
  ASSUME IInv, OneAnswer, NEW m \in MSHRs, NEW b \in Cacheable, AcquirePerm(m, b)
  PROVE  \E sink \in dFree : Acquired(m, b, sink)
<1>1. /\ mshr[m] = None /\ mshr' = [mshr EXCEPT ![m] = [block |-> b, sink |-> None]]
      /\ HandleAcquirePerm(m, b, "NtoT") /\ b \in Blocks /\ line[b] = "N"
      /\ UNCHANGED <<line, latest, gets, aBurst, cBurst, rel, pend, mem, dOut, bOut, bch>>
      /\ TypeOK /\ MayAcquire(m, b) /\ perm' = Touched(b) /\ perm[b] # "TRUNK"
  BY DEF AcquirePerm, MayAcquire, HandleAcquirePerm, IInv, Cacheable, IsTip
<1>2. PICK sink \in dFree :
        /\ dFree' = dFree \ {sink}
        /\ dQueue' = Append(dQueue, Grant("Grant", m, sink, b, "toT", <<>>))
        /\ ongoingTlc' = [ongoingTlc EXCEPT ![sink] = b]
  BY <1>1 DEF HandleAcquirePerm, CapFor
<1> DEFINE msg == Grant("Grant", m, sink, b, "toT", <<>>)
<1>3. msg \in DMessages /\ sink \in Sinks
  <2>1. sink \in Sinks /\ <<>> \in Seq(Nat)
    BY <1>1, EmptySeq DEF TypeOK, ChannelTypes
  <2> QED BY <1>1, <2>1, GrantTyped
<1>4. /\ msg.op = "Grant" /\ msg.param = "toT"
      /\ msg.src = m /\ msg.block = b /\ msg.sink = sink
  BY DEF Grant, DMsg
<1>5. dQueue' = Append(dQueue, msg)
  BY <1>2
<1> HIDE DEF msg
<1>6. DMessagesInFlight' = DMessagesInFlight \cup {msg} /\ msg \in Grants
  BY <1>1, <1>3, <1>4, <1>5, DataPushed DEF DMessages, Answers
<1>7. GrantPushed(msg, m, b, sink)
  BY <1>1, <1>2, <1>4, <1>6 DEF GrantPushed
<1> QED BY <1>1, <1>2, <1>3, <1>7 DEF Acquired

LEMMA AcquireCases ==
  ASSUME IInv, OneAnswer, NEW m \in MSHRs, NEW b \in Cacheable,
         \/ \E grow \in {"NtoB", "NtoT", "BtoT"} : AcquireBlock(m, b, grow)
         \/ AcquirePerm(m, b)
  PROVE  \E sink \in dFree : Acquired(m, b, sink)
BY AcquireBlockCases, AcquirePermCases

\* the last beat of the message on the port reaches the tile
Ended(msg) ==
  /\ \A x \in DMessagesInFlight' : x.src = RelSrc \/ x.src # msg.src
  /\ dOut' = None
  /\ \A g \in GSrcs \ {msg.src} : gets'[g] = gets[g]
  /\ ~GetsGrant(msg) => UNCHANGED <<line, latest, mshr>>
  /\ GetsGrant(msg) =>
       /\ line' = [line EXCEPT ![msg.block] =
                   IF msg.op = "Grant" THEN "D"
                   ELSE IF msg.param = "toT" THEN "T" ELSE "B"]
       /\ latest' = IF msg.op = "Grant" THEN [latest EXCEPT ![msg.block] = @ + 1] ELSE latest
       /\ mshr' = [mshr EXCEPT ![msg.src] = [block |-> msg.block, sink |-> msg.sink]]

LEMMA ReceiveDCases ==
  ASSUME IInv, OneAnswer, ReceiveD
  PROVE  /\ dOut # None /\ dOut.msg \in DMessagesInFlight /\ dOut.msg \in DMessages
         /\ DMessagesInFlight' \subseteq DMessagesInFlight
         /\ UNCHANGED <<perm, mem, bch, bOut, dQueue, dFree, ongoingTlc, aBurst, cBurst, pend>>
         /\ UNCHANGED <<line, latest, mshr, gets, rel>> \/ Ended(dOut.msg)
<1>1. /\ FireD /\ TypeOK
      /\ UNCHANGED <<perm, mem, bch, bOut, dQueue, dFree, ongoingTlc, aBurst, cBurst, pend>>
  BY DEF ReceiveD, FireD, IInv
<1>2. /\ dOut # None /\ dOut.msg \in DMessages /\ dOut.msg \in DMessagesInFlight
      /\ DMessagesInFlight' \subseteq DMessagesInFlight
      /\ LastSent => dOut' = None
      /\ LastSent => \A msg \in DMessagesInFlight' : msg.src \in InQueue \cup {RelSrc}
  BY <1>1, DataTaken
<1>3. CASE ~LastSent
  BY <1>1, <1>2, <1>3 DEF ReceiveD
<1>4. CASE LastSent
  <2>1. dOut.msg.src # RelSrc => dOut.msg.src \notin InQueue
    BY <1>2 DEF OneAnswer, OnD
  <2>2. \A msg \in DMessagesInFlight' : msg.src = RelSrc \/ msg.src # dOut.msg.src
    BY <1>2, <1>4, <2>1
  <2>3. gets' = IF dOut.msg.src \in GSrcs THEN [gets EXCEPT ![dOut.msg.src] = None] ELSE gets
    BY <1>4 DEF ReceiveD
  <2>4. \A g \in GSrcs \ {dOut.msg.src} : gets'[g] = gets[g]
    BY <1>1, <2>3 DEF TypeOK, TileTypes
  <2>5. ~GetsGrant(dOut.msg) => UNCHANGED <<line, latest, mshr>>
    <3>1. dOut.msg.op = "Grant" => GetsGrant(dOut.msg)
      BY DEF GetsGrant
    <3> QED BY <1>4, <3>1 DEF ReceiveD
  <2>6. GetsGrant(dOut.msg) =>
       /\ line' = [line EXCEPT ![dOut.msg.block] =
                   IF dOut.msg.op = "Grant" THEN "D"
                   ELSE IF dOut.msg.param = "toT" THEN "T" ELSE "B"]
       /\ latest' = IF dOut.msg.op = "Grant" THEN [latest EXCEPT ![dOut.msg.block] = @ + 1]
                    ELSE latest
       /\ mshr' = [mshr EXCEPT ![dOut.msg.src] =
                   [block |-> dOut.msg.block, sink |-> dOut.msg.sink]]
    BY <1>4 DEF ReceiveD
  <2>7. dOut' = None
    BY <1>2, <1>4
  <2>8. Ended(dOut.msg)
    BY <2>2, <2>4, <2>5, <2>6, <2>7 DEF Ended
  <2> QED BY <1>1, <1>2, <2>8
<1> QED BY <1>3, <1>4

LEMMA AcquireMisses ==
  ASSUME IInv, OneAnswer, Misses, NEW m \in MSHRs, NEW b \in Cacheable, NEW sink,
         Acquired(m, b, sink)
  PROVE  Misses'
<1>1. /\ UNCHANGED <<line, gets>> /\ line[b] \in {"N", "B"}
      /\ MayAcquire(m, b) /\ mshr' = [mshr EXCEPT ![m] = [block |-> b, sink |-> None]]
  BY DEF Acquired
<1>2. \A msg \in DMessagesInFlight' : GetsGrant(msg) =>
        msg \in DMessagesInFlight \/ (msg.src = m /\ msg.block = b)
  BY DEF Acquired, GrantPushed, GrantAsked
<1>3. \A cb \in CbsOf(bch') : cb.kind = "GrantData_cb" =>
        cb \in CbsOf(bch) \/ (cb.src = m /\ cb.block = b)
  BY DEF Acquired, GrantPushed, GrantAsked
<1> QED BY <1>1, <1>2, <1>3, MissesStart

\* the grant reaches the cache: the miss has its sink
LEMMA ReceiveDMisses ==
  ASSUME IInv, OneAnswer, Misses, ReceiveD
  PROVE  Misses'
<1> DEFINE msg == dOut.msg
<1>1. GrantCbsKept /\ GrantsOld
  BY ReceiveDAnswer, SameIsOld
<1>2. CASE UNCHANGED <<line, mshr>>
  BY <1>1, <1>2, MissesSame DEF IInv
<1>3. CASE Ended(msg) /\ GetsGrant(msg)
  <2>0. /\ line' = [line EXCEPT ![msg.block] =
                    IF msg.op = "Grant" THEN "D" ELSE IF msg.param = "toT" THEN "T" ELSE "B"]
        /\ mshr' = [mshr EXCEPT ![msg.src] = [block |-> msg.block, sink |-> msg.sink]]
        /\ \A x \in DMessagesInFlight' : x.src = RelSrc \/ x.src # msg.src
    BY <1>3 DEF Ended
  <2>1. /\ msg \in DMessagesInFlight /\ bch' = bch /\ DMessagesInFlight' \subseteq DMessagesInFlight
        /\ msg.src \in MSHRs /\ msg.block \in Blocks /\ msg.sink \in Sinks /\ msg.sink # None
    BY <1>3, ReceiveDCases, SourcesBusy, NoneAssumption
  <2>2. mshr[msg.src] = Miss(msg.block) /\ Miss(msg.block) # None
    BY <1>3, <2>0, <2>1, NoRecordAssumption DEF Misses, Miss
  <2>3. mshr[msg.src].block = msg.block /\ mshr[msg.src] # None
    BY <2>2 DEF Miss
  <2>4. /\ mshr'[msg.src].block = msg.block /\ mshr'[msg.src].sink # None
        /\ \A n \in MSHRs \ {msg.src} : mshr'[n] = mshr[n]
    BY <1>3, <2>0, <2>1 DEF IInv, TypeOK, TileTypes
  <2>5. \A n \in MSHRs \ {msg.src} : mshr[n] # None => mshr[n].block # msg.block /\ mshr[n].block \in Blocks
    BY <2>1, <2>3 DEF Misses, IInv, TypeOK, TileTypes
  <2>6. \A c \in Blocks \ {msg.block} : line'[c] = line[c]
    BY <1>3, <2>0, <2>1 DEF IInv, TypeOK, TileTypes
  <2>7. \A x \in DMessagesInFlight' : GetsGrant(x) => x.src \in MSHRs \ {msg.src}
    BY <1>3, <2>0, <2>1, SourcesBusy, NoneAssumption
  <2>8. \A cb \in CbsOf(bch') : cb.kind = "GrantData_cb" => cb.src \in MSHRs \ {msg.src}
    BY <2>1, SourcesBusy
  <2>9. \A n \in MSHRs : mshr'[n] # None => mshr'[n].block \in Cacheable
    BY <2>3, <2>4, <2>1 DEF Misses
  <2>10. \A n, k \in MSHRs : mshr'[n] # None /\ mshr'[k] # None /\ mshr'[n].block = mshr'[k].block => n = k
    BY <2>4, <2>5 DEF Misses
  <2>11. \A n \in MSHRs : mshr'[n] # None /\ mshr'[n].sink = None => line'[mshr'[n].block] \in {"N", "B"}
    BY <2>4, <2>5, <2>6 DEF Misses
  <2>12. \A cb \in CbsOf(bch') : cb.kind = "GrantData_cb" => mshr'[cb.src] = Miss(cb.block)
    BY <2>1, <2>4, <2>8 DEF Misses
  <2>13. \A x \in DMessagesInFlight' : GetsGrant(x) => mshr'[x.src] = Miss(x.block)
    BY <2>1, <2>4, <2>7 DEF Misses
  <2> QED BY <2>9, <2>10, <2>11, <2>12, <2>13 DEF Misses
<1>4. CASE Ended(msg) /\ ~GetsGrant(msg)
  BY <1>2, <1>4 DEF Ended
<1> QED BY <1>2, <1>3, <1>4, ReceiveDCases

LEMMA GrantAckMisses ==
  ASSUME IInv, OneAnswer, Misses, NEW m \in MSHRs, GrantAck(m)
  PROVE  Misses'
<1>1. /\ mshr[m] # None /\ mshr[m].sink # None /\ mshr' = [mshr EXCEPT ![m] = None]
      /\ UNCHANGED <<bch, dQueue, dOut, line>>
  BY DEF GrantAck, HandleGrantAck
<1>2. \A n \in MSHRs : mshr'[n] = IF n = m THEN None ELSE mshr[n]
  BY <1>1 DEF IInv, TypeOK, TileTypes
<1>3. DMessagesInFlight' = DMessagesInFlight
  BY <1>1 DEF DMessagesInFlight
<1>4. \A b : mshr[m] # Miss(b)
  BY <1>1 DEF Miss
<1>5. \A x \in DMessagesInFlight : GetsGrant(x) => x.src \in MSHRs \ {m}
  BY <1>4, SourcesBusy DEF Misses
<1>6. \A cb \in CbsOf(bch) : cb.kind = "GrantData_cb" => cb.src \in MSHRs \ {m}
  BY <1>4, SourcesBusy DEF Misses
<1> QED BY <1>1, <1>2, <1>3, <1>5, <1>6 DEF Misses

----------------------------------------------------------------------------
(* Most steps start no miss and end none; they may send the grant for      *)
(* which a callback waited, and lower what the cache holds.                *)

LinesLowered == \A b \in Blocks : line[b] \in {"N", "B"} => line'[b] \in {"N", "B"}

Called(cb) ==
  /\ cb \in CbsOf(bch) /\ cb.kind = "GrantData_cb"
  /\ \E msg : /\ DMessagesInFlight' = DMessagesInFlight \cup {msg}
              /\ msg.src = cb.src /\ msg.block = cb.block /\ msg.sink = cb.sink
  /\ ongoingTlc' = [ongoingTlc EXCEPT ![cb.sink] = cb.block]

Tame ==
  /\ UNCHANGED <<mshr, dFree>>
  /\ GrantCbsKept
  /\ LinesLowered
  /\ (GrantsKept /\ ongoingTlc' = ongoingTlc) \/ (\E cb : Called(cb))

LEMMA CallTame ==
  ASSUME IInv, OneAnswer, MemoryTypes', NEW src \in Outside, CallAndRelease(src), LinesLowered,
         UNCHANGED <<dOut, aBurst, mshr, gets, dFree>>
  PROVE  OneAnswer' /\ Tame
<1> DEFINE cb == bch.callback[src]
<1>1. /\ OneAnswer' /\ GrantCbsKept /\ cb \in CbsOf(bch)
      /\ ~Replies(cb) => GrantsSame
      /\ Replies(cb) => DMessagesInFlight' = DMessagesInFlight \cup {ReplyOf(cb)}
  BY CallAnswer
<1>2. ongoingTlc' = IF cb.kind = "GrantData_cb"
                    THEN [ongoingTlc EXCEPT ![cb.sink] = cb.block] ELSE ongoingTlc
  BY DEF CallAndRelease
<1> HIDE DEF cb
<1>3. CASE cb.kind = "GrantData_cb"
  <2>1. ReplyOf(cb).src = cb.src /\ ReplyOf(cb).block = cb.block /\ ReplyOf(cb).sink = cb.sink
    BY <1>3 DEF ReplyOf, Grant, DMsg
  <2>2. Called(cb)
    BY <1>1, <1>2, <1>3, <2>1 DEF Called, Replies
  <2> QED BY <1>1, <2>2 DEF Tame
<1>4. CASE cb.kind = "AccessAckData_cb"
  <2>1. ~GetsGrant(ReplyOf(cb))
    BY <1>4 DEF ReplyOf, AccessAckData, DMsg, GetsGrant
  <2>2. GrantsKept
    BY <1>1, <1>4, <2>1 DEF GrantsKept, Replies
  <2> QED BY <1>1, <1>2, <1>4, <2>2 DEF Tame
<1>5. CASE ~Replies(cb)
  BY <1>1, <1>2, <1>5 DEF Tame, GrantsSame, Replies
<1> QED BY <1>3, <1>4, <1>5 DEF Replies

LEMMA SameTame ==
  ASSUME GrantsKept, GrantCbsKept, UNCHANGED <<mshr, dFree, ongoingTlc>>, LinesLowered
  PROVE  Tame
BY DEF Tame

LEMMA UncachingTame ==
  ASSUME IInv, OneAnswer, Uncaching
  PROVE  OneAnswer' /\ Tame
<1>1. ASSUME NEW g \in GSrcs, NEW b \in Blocks, Get(g, b)
      PROVE  OneAnswer' /\ Tame
  <2>1. UNCHANGED <<line, mshr, dFree, ongoingTlc>>
    BY <1>1 DEF Get, HandleGet
  <2> QED BY <1>1, <2>1, GetAnswer, SameTame DEF GrantsSame, LinesLowered
<1>2. ASSUME NEW g \in GSrcs, NEW b \in Blocks, Intent(g, b)
      PROVE  OneAnswer' /\ Tame
  <2>1. UNCHANGED <<line, mshr, dFree, ongoingTlc>>
    BY <1>2 DEF Intent, HandleIntent
  <2> QED BY <1>2, <2>1, IntentAnswer, SameTame DEF GrantsSame, LinesLowered
<1>3. ASSUME NEW g \in GSrcs, NEW b \in Uncached, Atomic(g, b)
      PROVE  OneAnswer' /\ Tame
  <2>1. UNCHANGED <<line, mshr, dFree, ongoingTlc>>
    BY <1>3 DEF Atomic, HandleAtomic
  <2> QED BY <1>3, <2>1, AtomicAnswer, SameTame DEF GrantsSame, LinesLowered
<1>4. ASSUME NEW g \in GSrcs, NEW b \in Uncached, PutFirst(g, b)
      PROVE  OneAnswer' /\ Tame
  <2>1. UNCHANGED <<line, mshr, dFree, ongoingTlc>>
    BY <1>4 DEF PutFirst, HandlePut
  <2> QED BY <1>4, <2>1, PutFirstAnswer, SameTame DEF GrantsSame, LinesLowered
<1>5. CASE PutBeat
  <2>1. UNCHANGED <<line, mshr, dFree, ongoingTlc>>
    BY <1>5 DEF PutBeat, HandlePut
  <2> QED BY <1>5, <2>1, PutBeatAnswer, SameTame DEF GrantsSame, LinesLowered
<1> QED BY <1>1, <1>2, <1>3, <1>4, <1>5 DEF Uncaching

\* the cache stores or gives a block back
LEMMA CacheTame ==
  ASSUME IInv, OneAnswer, NEW b \in Cacheable,
         Store(b) \/ ReleaseClean(b) \/ StartReleaseData(b)
  PROVE  OneAnswer' /\ Tame
<1>1. TypeOK /\ b \in Blocks /\ line \in [Blocks -> {"N", "B", "T", "D"}]
  BY DEF IInv, TypeOK, TileTypes, Cacheable
<1>2. CASE Store(b)
  <2>1. /\ UNCHANGED <<bch, dQueue, dOut, aBurst, mshr, gets, dFree, ongoingTlc>>
        /\ line' = [line EXCEPT ![b] = "D"] /\ line[b] \in {"T", "D"}
    BY <1>2 DEF Store, aVars
  <2>2. LinesLowered
    BY <1>1, <2>1 DEF LinesLowered
  <2> QED BY <2>1, <2>2, QuietAnswer, SameTame DEF GrantsSame
<1>3. CASE ReleaseClean(b)
  <2>1. /\ UNCHANGED <<bch, dOut, aBurst, mshr, gets, dFree, ongoingTlc>>
        /\ line' = [line EXCEPT ![b] = "N"] /\ dQueue' = Append(dQueue, DMsg("ReleaseAck", RelSrc))
    BY <1>3 DEF ReleaseClean, HandleRelease
  <2>2. LinesLowered
    BY <1>1, <2>1 DEF LinesLowered
  <2> QED BY <1>1, <2>1, <2>2, ReleaseAckAnswer, SameTame DEF GrantsSame
<1>4. CASE StartReleaseData(b)
  <2>1. /\ UNCHANGED <<bch, dQueue, dOut, aBurst, mshr, gets, dFree, ongoingTlc>>
        /\ line' = [line EXCEPT ![b] = "N"]
    BY <1>4 DEF StartReleaseData, aVars
  <2>2. LinesLowered
    BY <1>1, <2>1 DEF LinesLowered
  <2> QED BY <2>1, <2>2, QuietAnswer, SameTame DEF GrantsSame
<1> QED BY <1>2, <1>3, <1>4

\* probes and their answers
LEMMA ProbesTame ==
  ASSUME IInv, OneAnswer, MemoryTypes',
         \/ ReceiveProbe \/ BurstBeat
         \/ \E p \in pend : ProbeAck(p) \/ StartProbeAckData(p)
  PROVE  OneAnswer' /\ Tame
<1>1. TypeOK /\ line \in [Blocks -> {"N", "B", "T", "D"}] /\ pend \subseteq Probes
  BY DEF IInv, TypeOK, TileTypes, EngineTypes
<1>2. CASE ReceiveProbe
  <2>1. UNCHANGED <<bch, dQueue, dOut, aBurst, mshr, gets, dFree, ongoingTlc, line>>
    BY <1>2 DEF ReceiveProbe, FireB
  <2> QED BY <2>1, QuietAnswer, SameTame DEF GrantsSame, LinesLowered
<1>3. CASE BurstBeat
  <2>1. UNCHANGED <<line, mshr, gets, aBurst, dOut, dFree>> /\ LinesLowered
    BY <1>3, BurstCases DEF LinesLowered
  <2>2. CASE UNCHANGED <<perm, bch, dQueue, ongoingTlc>>
    BY <2>1, <2>2, QuietAnswer, SameTame DEF GrantsSame
  <2>3. CASE dQueue' = Append(dQueue, DMsg("ReleaseAck", RelSrc)) /\ UNCHANGED <<bch, ongoingTlc>>
    BY <1>1, <2>1, <2>3, ReleaseAckAnswer, SameTame DEF GrantsSame
  <2>4. CASE cBurst.src \in Outside /\ CallAndRelease(cBurst.src)
    BY <2>1, <2>4, CallTame
  <2> QED BY <1>3, <2>2, <2>3, <2>4, BurstCases
<1>4. ASSUME NEW p \in pend, ProbeAck(p)
      PROVE  OneAnswer' /\ Tame
  <2>1. /\ UNCHANGED <<mshr, gets, aBurst, dOut, dFree>>
        /\ p \in Probes /\ p.src \in Outside /\ CallAndRelease(p.src)
        /\ line' = [line EXCEPT ![p.block] = Shrink(@, p.cap)[1]]
    BY <1>4, ProbeAckCases
  <2>2. LinesLowered
    BY <1>1, <2>1, ShrinkLowers DEF LinesLowered, Probes
  <2> QED BY <2>1, <2>2, CallTame
<1>5. ASSUME NEW p \in pend, StartProbeAckData(p)
      PROVE  OneAnswer' /\ Tame
  <2>1. /\ UNCHANGED <<bch, dQueue, dOut, aBurst, mshr, gets, dFree, ongoingTlc>>
        /\ line' = [line EXCEPT ![p.block] = Shrink(@, p.cap)[1]]
    BY <1>5 DEF StartProbeAckData, aVars
  <2>2. LinesLowered
    BY <1>1, <2>1, ShrinkLowers DEF LinesLowered, Probes
  <2> QED BY <2>1, <2>2, QuietAnswer, SameTame DEF GrantsSame
<1> QED BY <1>2, <1>3, <1>4, <1>5

\* the adapter's own coroutines and what the host asks of them
LEMMA AdapterTame ==
  ASSUME IInv, OneAnswer,
         \/ Adapter \/ (\E b \in Tohosts : HostProbe(b)) \/ HostStop \/ UNCHANGED vars
  PROVE  OneAnswer' /\ Tame
<1>1. CASE DriveD
  <2>1. UNCHANGED <<mshr, dFree, ongoingTlc, line>>
    BY <1>1 DEF DriveD, PopD, tVars
  <2> QED BY <1>1, <2>1, DriveDAnswer, SameTame DEF LinesLowered
<1>2. CASE DriveB
  <2>1. UNCHANGED <<mshr, dFree, ongoingTlc, line>>
    BY <1>2 DEF DriveB, PopB, tVars
  <2> QED BY <1>2, <2>1, DriveBAnswer, SameTame DEF LinesLowered, GrantsSame
<1>3. CASE Retrieve
  <2>1. UNCHANGED <<mshr, dFree, ongoingTlc, line>>
    BY <1>3 DEF Retrieve, DataRetriever
  <2> QED BY <1>3, <2>1, RetrieveAnswer, SameTame DEF LinesLowered, GrantsSame
<1>4. CASE ProbeTohost
  <2>1. UNCHANGED <<mshr, dFree, ongoingTlc, line>>
    BY <1>4 DEF ProbeTohost, HostInterface, tVars
  <2> QED BY <1>4, <2>1, ProbeTohostAnswer, SameTame DEF LinesLowered, GrantsSame
<1>5. CASE (\E b \in Tohosts : HostProbe(b)) \/ HostStop \/ UNCHANGED vars
  <2>1. UNCHANGED <<bch, dQueue, dOut, aBurst, mshr, gets, dFree, ongoingTlc, line>>
    BY <1>5 DEF HostProbe, ProbeBlock, HostStop, StopAdapter, tVars, vars, aVars
  <2> QED BY <2>1, QuietAnswer, SameTame DEF GrantsSame, LinesLowered
<1> QED BY <1>1, <1>2, <1>3, <1>4, <1>5 DEF Adapter

LEMMA TameMisses ==
  ASSUME IInv, Misses, Tame
  PROVE  Misses'
<1>1. GrantsOld
  BY DEF Tame, Called, GrantsKept, GrantsOld, FromCb
<1> QED BY <1>1, MissesSame DEF IInv, Tame, LinesLowered

----------------------------------------------------------------------------
(* Sinks.                                                                  *)

LEMMA TameSinks ==
  ASSUME IInv, OneAnswer, Misses, SinksHeld, Tame
  PROVE  SinksHeld'
<1>1. PICK at \in [MSHRs -> Sinks \cup {None}] : SinksAt(at)
  BY DEF SinksHeld
<1>2. UNCHANGED <<mshr, dFree>> /\ GrantCbsKept
  BY DEF Tame
<1>3. \A cb \in CbsOf(bch') : cb.kind = "GrantData_cb" => cb.sink = at[cb.src]
  BY <1>1, <1>2 DEF SinksAt, GrantCbsKept
<1>4. CASE GrantsKept /\ ongoingTlc' = ongoingTlc
  <2>1. \A msg \in DMessagesInFlight' : GetsGrant(msg) =>
          msg.sink = at[msg.src] /\ ongoingTlc'[msg.sink] = msg.block
    BY <1>1, <1>4 DEF SinksAt, GrantsKept
  <2>2. SinksAt(at)'
    BY <1>1, <1>2, <1>3, <1>4, <2>1 DEF SinksAt
  <2> QED BY <2>2 DEF SinksHeld
<1>5. ASSUME NEW cb, Called(cb)
      PROVE  SinksHeld'
  <2>1. PICK msg : /\ DMessagesInFlight' = DMessagesInFlight \cup {msg}
                   /\ msg.src = cb.src /\ msg.block = cb.block /\ msg.sink = cb.sink
    BY <1>5 DEF Called
  <2>2. /\ cb \in CbsOf(bch) /\ cb.kind = "GrantData_cb"
        /\ ongoingTlc' = [ongoingTlc EXCEPT ![cb.sink] = cb.block]
    BY <1>5 DEF Called
  <2>3. cb.src \in MSHRs /\ cb.sink \in Sinks /\ Replies(cb) /\ cb.sink # None
    BY <2>2, SourcesBusy, NoneAssumption
  <2>4. cb.sink = at[cb.src] /\ mshr[cb.src] = Miss(cb.block)
    BY <1>1, <2>2 DEF SinksAt, Misses
  <2>5. \A m \in MSHRs \ {cb.src} : at[m] # cb.sink
    BY <1>1, <2>3, <2>4 DEF SinksAt
  <2>6. /\ ongoingTlc'[cb.sink] = cb.block
        /\ \A s \in Sinks \ {cb.sink} : ongoingTlc'[s] = ongoingTlc[s]
    BY <2>2, <2>3 DEF IInv, TypeOK, ChannelTypes
  <2>7. \A m \in MSHRs : mshr[m] # None /\ mshr[m].sink # None =>
          mshr[m].sink = at[m] /\ ongoingTlc'[at[m]] = mshr[m].block
    <3> SUFFICES ASSUME NEW m \in MSHRs, mshr[m] # None, mshr[m].sink # None
                 PROVE  mshr[m].sink = at[m] /\ ongoingTlc'[at[m]] = mshr[m].block
      OBVIOUS
    <3>1. m # cb.src
      BY <2>4 DEF Miss
    <3>2. mshr[m].sink = at[m] /\ ongoingTlc[at[m]] = mshr[m].block /\ at[m] # None
      BY <1>1 DEF SinksAt
    <3>3. at[m] \in Sinks \ {cb.sink}
      BY <2>5, <3>1, <3>2
    <3> QED BY <2>6, <3>2, <3>3
  <2>8. \A x \in DMessagesInFlight' : GetsGrant(x) =>
          x.sink = at[x.src] /\ ongoingTlc'[x.sink] = x.block
    <3> SUFFICES ASSUME NEW x \in DMessagesInFlight', GetsGrant(x)
                 PROVE  x.sink = at[x.src] /\ ongoingTlc'[x.sink] = x.block
      OBVIOUS
    <3>1. CASE x \in DMessagesInFlight
      <4>1. x.src \in MSHRs /\ x.sink \in Sinks /\ x.src # cb.src
        BY <2>2, <2>3, <3>1, SourcesBusy
      <4>2. x.sink = at[x.src] /\ ongoingTlc[x.sink] = x.block
        BY <1>1, <3>1 DEF SinksAt
      <4> QED BY <2>5, <2>6, <4>1, <4>2
    <3>2. CASE x = msg
      BY <2>1, <2>4, <2>6, <3>2
    <3> QED BY <2>1, <3>1, <3>2
  <2>9. SinksAt(at)'
    BY <1>1, <1>2, <1>3, <2>7, <2>8 DEF SinksAt
  <2> QED BY <2>9 DEF SinksHeld
<1> QED BY <1>4, <1>5 DEF Tame

\* FreeList.get on d_sinks: the miss takes a sink that nobody holds
LEMMA AcquireSinks ==
  ASSUME IInv, OneAnswer, Misses, SinksHeld, NEW m \in MSHRs, NEW b \in Cacheable, NEW sink,
         Acquired(m, b, sink)
  PROVE  SinksHeld'
<1>1. PICK old \in [MSHRs -> Sinks \cup {None}] : SinksAt(old)
  BY DEF SinksHeld
<1> DEFINE at == [old EXCEPT ![m] = sink]
<1>2. /\ sink \in dFree /\ sink \in Sinks /\ sink # None /\ dFree' = dFree \ {sink}
      /\ b \in Blocks /\ mshr[m] = None /\ TypeOK /\ UNCHANGED gets
      /\ mshr' = [mshr EXCEPT ![m] = [block |-> b, sink |-> None]]
  BY NoneAssumption DEF Acquired, MayAcquire, IInv
<1>3. /\ m \notin Busy /\ m # RelSrc /\ mshr'[m] = Miss(b) /\ Miss(b) # None
      /\ \A n \in MSHRs \ {m} : mshr'[n] = mshr[n]
  BY <1>2, BusyWithMiss
<1>4. /\ at \in [MSHRs -> Sinks \cup {None}] /\ at[m] = sink
      /\ \A n \in MSHRs \ {m} : at[n] = old[n]
  BY <1>2
<1> HIDE DEF at
<1>5. old[m] = None /\ \A n \in MSHRs : old[n] # sink
  BY <1>1, <1>2 DEF SinksAt
<1>6. \A n \in MSHRs : at[n] = None <=> mshr'[n] = None
  BY <1>1, <1>2, <1>3, <1>4 DEF SinksAt
<1>7. \A n, k \in MSHRs : at[n] = at[k] /\ at[n] # None => n = k
  BY <1>1, <1>4, <1>5 DEF SinksAt
<1>8. \A s \in Sinks : s \notin dFree' <=> \E n \in MSHRs : at[n] = s
  <2>1. \A s \in Sinks \ {sink} : (\E n \in MSHRs : at[n] = s) <=> (\E n \in MSHRs : old[n] = s)
    BY <1>2, <1>4, <1>5, NoneAssumption
  <2> QED BY <1>1, <1>2, <1>4, <2>1 DEF SinksAt
<1>9. \A s \in Sinks \ {sink} : ongoingTlc'[s] = ongoingTlc[s]
  BY <1>2 DEF Acquired, GrantPushed, GrantAsked, TypeOK, ChannelTypes
<1>10. \A n \in MSHRs : mshr'[n] # None /\ mshr'[n].sink # None =>
         mshr'[n].sink = at[n] /\ ongoingTlc'[at[n]] = mshr'[n].block
  <2> SUFFICES ASSUME NEW n \in MSHRs, mshr'[n] # None, mshr'[n].sink # None
               PROVE  mshr'[n].sink = at[n] /\ ongoingTlc'[at[n]] = mshr'[n].block
    OBVIOUS
  <2>1. n # m
    BY <1>3 DEF Miss
  <2>2. mshr'[n] = mshr[n] /\ at[n] = old[n]
    BY <1>3, <1>4, <2>1
  <2>3. mshr[n].sink = old[n] /\ ongoingTlc[old[n]] = mshr[n].block /\ old[n] # None
    BY <1>1, <2>2 DEF SinksAt
  <2>4. old[n] \in Sinks \ {sink}
    BY <1>5, <2>3
  <2> QED BY <1>9, <2>2, <2>3, <2>4
<1>11. \A cb \in CbsOf(bch') : cb.kind = "GrantData_cb" => cb.sink = at[cb.src]
  <2> SUFFICES ASSUME NEW cb \in CbsOf(bch'), cb.kind = "GrantData_cb"
               PROVE  cb.sink = at[cb.src]
    OBVIOUS
  <2>1. CASE cb \in CbsOf(bch)
    <3>1. cb.src \in MSHRs \ {m}
      BY <1>3, <2>1, SourcesBusy
    <3> QED BY <1>1, <1>4, <2>1, <3>1 DEF SinksAt
  <2>2. CASE cb.src = m /\ cb.sink = sink
    BY <1>4, <2>2
  <2> QED BY <2>1, <2>2 DEF Acquired, GrantPushed, GrantAsked
<1>12. \A msg \in DMessagesInFlight' : GetsGrant(msg) =>
         msg.sink = at[msg.src] /\ ongoingTlc'[msg.sink] = msg.block
  <2> SUFFICES ASSUME NEW msg \in DMessagesInFlight', GetsGrant(msg)
               PROVE  msg.sink = at[msg.src] /\ ongoingTlc'[msg.sink] = msg.block
    OBVIOUS
  <2>1. CASE msg \in DMessagesInFlight
    <3>1. msg.src \in MSHRs \ {m} /\ msg.sink \in Sinks
      BY <1>3, <2>1, SourcesBusy
    <3>2. msg.sink = old[msg.src] /\ ongoingTlc[msg.sink] = msg.block
      BY <1>1, <2>1 DEF SinksAt
    <3> QED BY <1>4, <1>5, <1>9, <3>1, <3>2
  <2>2. CASE /\ msg.src = m /\ msg.block = b /\ msg.sink = sink
             /\ ongoingTlc' = [ongoingTlc EXCEPT ![sink] = b]
    BY <1>2, <1>4, <2>2 DEF TypeOK, ChannelTypes
  <2> QED BY <2>1, <2>2 DEF Acquired, GrantPushed, GrantAsked
<1>13. SinksAt(at)'
  BY <1>6, <1>7, <1>8, <1>10, <1>11, <1>12 DEF SinksAt
<1> QED BY <1>4, <1>13 DEF SinksHeld

LEMMA ReceiveDSinks ==
  ASSUME IInv, OneAnswer, Misses, SinksHeld, ReceiveD
  PROVE  SinksHeld'
<1> DEFINE msg == dOut.msg
<1>1. PICK at \in [MSHRs -> Sinks \cup {None}] : SinksAt(at)
  BY DEF SinksHeld
<1>2. /\ msg \in DMessagesInFlight /\ DMessagesInFlight' \subseteq DMessagesInFlight
      /\ UNCHANGED <<bch, dFree, ongoingTlc>>
      /\ mshr' = mshr \/ (Ended(msg) /\ GetsGrant(msg))
  BY ReceiveDCases DEF Ended
<1> HIDE DEF msg
<1>3. CASE mshr' = mshr
  <2>1. SinksAt(at)'
    BY <1>1, <1>2, <1>3 DEF SinksAt
  <2> QED BY <2>1 DEF SinksHeld
<1>4. CASE Ended(msg) /\ GetsGrant(msg)
  <2>1. /\ msg.src \in MSHRs /\ msg.block \in Blocks /\ msg.sink \in Sinks
        /\ mshr' = [mshr EXCEPT ![msg.src] = [block |-> msg.block, sink |-> msg.sink]]
    BY <1>2, <1>4, SourcesBusy DEF Ended
  <2>2. /\ mshr'[msg.src] = [block |-> msg.block, sink |-> msg.sink]
        /\ \A n \in MSHRs \ {msg.src} : mshr'[n] = mshr[n]
    BY <2>1 DEF IInv, TypeOK, TileTypes
  <2>3. /\ msg.sink = at[msg.src] /\ ongoingTlc[msg.sink] = msg.block
        /\ mshr[msg.src] = Miss(msg.block) /\ Miss(msg.block) # None
    BY <1>1, <1>2, <1>4, <2>1, NoRecordAssumption DEF SinksAt, Misses, Miss
  <2>4. mshr'[msg.src] # None /\ mshr'[msg.src].sink = msg.sink /\ mshr'[msg.src].block = msg.block
    BY <2>1, <2>2, NoRecordAssumption
  <2>5. \A n \in MSHRs : at[n] = None <=> mshr'[n] = None
    BY <1>1, <2>2, <2>3, <2>4 DEF SinksAt
  <2>6. \A n \in MSHRs : mshr'[n] # None /\ mshr'[n].sink # None =>
          mshr'[n].sink = at[n] /\ ongoingTlc[at[n]] = mshr'[n].block
    BY <1>1, <2>2, <2>3, <2>4 DEF SinksAt
  <2>7. SinksAt(at)'
    BY <1>1, <1>2, <2>5, <2>6 DEF SinksAt
  <2> QED BY <2>7 DEF SinksHeld
<1> QED BY <1>2, <1>3, <1>4

\* e_port_monitor: the sink goes back
LEMMA GrantAckSinks ==
  ASSUME IInv, OneAnswer, Misses, SinksHeld, NEW m \in MSHRs, GrantAck(m)
  PROVE  SinksHeld'
<1> DEFINE sink == mshr[m].sink
<1>1. PICK old \in [MSHRs -> Sinks \cup {None}] : SinksAt(old)
  BY DEF SinksHeld
<1>2. /\ mshr[m] # None /\ sink # None /\ mshr' = [mshr EXCEPT ![m] = None]
      /\ dFree' = dFree \cup {sink} /\ ongoingTlc' = [ongoingTlc EXCEPT ![sink] = None]
      /\ UNCHANGED <<bch, dQueue, dOut>>
  BY DEF GrantAck, HandleGrantAck
<1>3. sink = old[m] /\ sink \in Sinks
  BY <1>1, <1>2 DEF SinksAt
<1> DEFINE at == [old EXCEPT ![m] = None]
<1>4. /\ at \in [MSHRs -> Sinks \cup {None}] /\ at[m] = None
      /\ \A n \in MSHRs \ {m} : at[n] = old[n] /\ old[n] # sink
  BY <1>1, <1>2, <1>3 DEF SinksAt
<1>5. mshr'[m] = None /\ \A n \in MSHRs \ {m} : mshr'[n] = mshr[n]
  BY <1>2 DEF IInv, TypeOK, TileTypes
<1>6. \A s \in Sinks \ {sink} : ongoingTlc'[s] = ongoingTlc[s]
  BY <1>2 DEF IInv, TypeOK, ChannelTypes
<1>7. DMessagesInFlight' = DMessagesInFlight
  BY <1>2 DEF DMessagesInFlight
<1>8. \A b : mshr[m] # Miss(b)
  BY <1>2 DEF Miss
<1>9. \A x \in DMessagesInFlight : GetsGrant(x) => x.src \in MSHRs \ {m} /\ x.sink \in Sinks
  BY <1>8, SourcesBusy DEF Misses
<1>10. \A cb \in CbsOf(bch) : cb.kind = "GrantData_cb" => cb.src \in MSHRs \ {m}
  BY <1>8, SourcesBusy DEF Misses
<1> HIDE DEF at, sink
<1>11. \A s \in Sinks : s \notin dFree' <=> \E n \in MSHRs : at[n] = s
  <2>1. \A s \in Sinks \ {sink} : (\E n \in MSHRs : at[n] = s) <=> (\E n \in MSHRs : old[n] = s)
    BY <1>3, <1>4, NoneAssumption
  <2>2. \A n \in MSHRs : at[n] # sink
    BY <1>2, <1>4
  <2> QED BY <1>1, <1>2, <2>1, <2>2 DEF SinksAt
<1>12. \A n \in MSHRs : at[n] = None <=> mshr'[n] = None
  BY <1>1, <1>4, <1>5 DEF SinksAt
<1>13. \A n, k \in MSHRs : at[n] = at[k] /\ at[n] # None => n = k
  BY <1>1, <1>4 DEF SinksAt
<1>14. \A n \in MSHRs : mshr'[n] # None /\ mshr'[n].sink # None =>
         mshr'[n].sink = at[n] /\ ongoingTlc'[at[n]] = mshr'[n].block
  <2> SUFFICES ASSUME NEW n \in MSHRs, mshr'[n] # None, mshr'[n].sink # None
               PROVE  mshr'[n].sink = at[n] /\ ongoingTlc'[at[n]] = mshr'[n].block
    OBVIOUS
  <2>1. n # m /\ mshr'[n] = mshr[n] /\ at[n] = old[n]
    BY <1>4, <1>5
  <2>2. mshr[n].sink = old[n] /\ ongoingTlc[old[n]] = mshr[n].block /\ old[n] # None
    BY <1>1, <2>1 DEF SinksAt
  <2>3. old[n] \in Sinks \ {sink}
    BY <1>4, <2>1, <2>2
  <2> QED BY <1>6, <2>1, <2>2, <2>3
<1>15. \A cb \in CbsOf(bch) : cb.kind = "GrantData_cb" => cb.sink = at[cb.src]
  BY <1>1, <1>4, <1>10 DEF SinksAt
<1>16. \A x \in DMessagesInFlight : GetsGrant(x) =>
         x.sink = at[x.src] /\ ongoingTlc'[x.sink] = x.block
  <2> SUFFICES ASSUME NEW x \in DMessagesInFlight, GetsGrant(x)
               PROVE  x.sink = at[x.src] /\ ongoingTlc'[x.sink] = x.block
    OBVIOUS
  <2>1. x.sink = old[x.src] /\ ongoingTlc[x.sink] = x.block
    BY <1>1 DEF SinksAt
  <2> QED BY <1>4, <1>6, <1>9, <2>1
<1>17. SinksAt(at)'
  BY <1>2, <1>7, <1>11, <1>12, <1>13, <1>14, <1>15, <1>16 DEF SinksAt
<1> QED BY <1>4, <1>17 DEF SinksHeld

----------------------------------------------------------------------------
(* Owners.                                                                 *)

TrunkSame == \A b \in Blocks : perm'[b] = "TRUNK" <=> perm[b] = "TRUNK"
BurstSame == cBurst' # None => /\ cBurst # None /\ cBurst'.block = cBurst.block
                               /\ cBurst'.report = cBurst.report

LEMMA TouchedTrunk ==
  ASSUME TypeOK, NEW b \in Blocks, perm' = Touched(b)
  PROVE  TrunkSame
BY DEF TypeOK, MemoryTypes, Touched, TrunkSame

\* types of a burst and of the message on the port
LEMMA OwnersTyped ==
  ASSUME IInv
  PROVE  /\ TypeOK /\ line \in [Blocks -> {"N", "B", "T", "D"}]
         /\ perm \in [Blocks -> {"Absent", "TIP", "TRUNK"}]
         /\ cBurst # None => cBurst.block \in Blocks
         /\ dOut # None => /\ dOut.msg \in DMessages /\ dOut.msg \in DMessagesInFlight
                           /\ dOut.msg.param = "toT" => GetsGrant(dOut.msg)
         /\ \A msg \in DMessages : msg.param = "toT" => GetsGrant(msg)
<1>1. \A msg \in DMessages : msg.param = "toT" => GetsGrant(msg)
  BY DEF DMessages, Answers, Grants, GetsGrant
<1>2. cBurst # None => cBurst.block \in Blocks
  BY DEF IInv, TypeOK, EngineTypes, Bursts, AckBursts, RelBursts
<1>3. dOut # None => dOut.msg \in DMessages /\ dOut.msg \in DMessagesInFlight
  BY DEF IInv, TypeOK, ChannelTypes, DMessagesInFlight
<1> QED BY <1>1, <1>2, <1>3 DEF IInv, TypeOK, TileTypes, MemoryTypes

LEMMA OwnersSame ==
  ASSUME IInv, Owners, TrunkSame, BurstSame, line' = line, GrantsKept, PortKept
  PROVE  Owners'
<1>1. \A b \in Blocks : line'[b] \in {"T", "D"} => perm'[b] = "TRUNK"
  BY DEF Owners, TrunkSame
<1>2. cBurst' # None =>
        /\ perm'[cBurst'.block] = "TRUNK" /\ line'[cBurst'.block] # "D"
        /\ cBurst'.report # "TtoT" => line'[cBurst'.block] # "T"
        /\ \A msg \in DMessagesInFlight' : GetsGrant(msg) => msg.block # cBurst'.block
  BY OwnersTyped DEF Owners, TrunkSame, BurstSame, GrantsKept
<1>3. \A b \in Blocks : perm'[b] = "TRUNK" => b \in Cacheable
  BY DEF Owners, TrunkSame
<1>4. \A msg \in DMessagesInFlight' : msg.op = "Grant" => msg.param = "toT"
  BY DEF Owners, GrantsKept, GetsGrant
<1>5. dOut' # None /\ dOut'.msg.param = "toT" => perm'[dOut'.msg.block] = "TRUNK"
  <2>1. dOut # None /\ dOut.msg.param = "toT" => dOut.msg.block \in Blocks
    BY OwnersTyped DEF DMessages, Answers, Grants
  <2> QED BY <2>1 DEF Owners, TrunkSame, PortKept
<1> QED BY <1>1, <1>2, <1>3, <1>4, <1>5 DEF Owners

LEMMA UncachingOwners ==
  ASSUME IInv, OneAnswer, Owners, Uncaching
  PROVE  Owners'
<1>1. TypeOK /\ Uncached \subseteq Blocks
  BY SourcesAssumption DEF IInv
<1>2. ASSUME NEW b \in Blocks, perm' = Touched(b), UNCHANGED <<line, cBurst>>, GrantsSame
      PROVE  Owners'
  BY <1>1, <1>2, TouchedTrunk, OwnersSame DEF BurstSame, GrantsSame
<1>3. ASSUME NEW g \in GSrcs, NEW b \in Blocks, Get(g, b)
      PROVE  Owners'
  <2>1. perm' = Touched(b) /\ UNCHANGED <<line, cBurst>>
    BY <1>3 DEF Get, HandleGet
  <2> QED BY <1>2, <1>3, <2>1, GetAnswer
<1>4. ASSUME NEW g \in GSrcs, NEW b \in Blocks, Intent(g, b)
      PROVE  Owners'
  <2>1. perm' = Touched(b) /\ UNCHANGED <<line, cBurst>>
    BY <1>4 DEF Intent, HandleIntent
  <2> QED BY <1>2, <1>4, <2>1, IntentAnswer
<1>5. ASSUME NEW g \in GSrcs, NEW b \in Uncached, Atomic(g, b)
      PROVE  Owners'
  <2>1. perm' = Touched(b) /\ UNCHANGED <<line, cBurst>>
    BY <1>5 DEF Atomic, HandleAtomic
  <2> QED BY <1>1, <1>2, <1>5, <2>1, AtomicAnswer
<1>6. ASSUME NEW g \in GSrcs, NEW b \in Uncached, PutFirst(g, b)
      PROVE  Owners'
  <2>1. perm' = Touched(b) /\ UNCHANGED <<line, cBurst>>
    BY <1>6 DEF PutFirst, HandlePut
  <2> QED BY <1>1, <1>2, <1>6, <2>1, PutFirstAnswer
<1>7. CASE PutBeat
  <2>1. aBurst.block \in Blocks
    BY <1>7 DEF PutBeat, IInv, TypeOK, TileTypes, PutBursts
  <2>2. perm' = Touched(aBurst.block) /\ UNCHANGED <<line, cBurst>>
    BY <1>7 DEF PutBeat, HandlePut
  <2> QED BY <1>2, <1>7, <2>1, <2>2, PutBeatAnswer
<1> QED BY <1>3, <1>4, <1>5, <1>6, <1>7 DEF Uncaching

LEMMA AcquireOwners ==
  ASSUME IInv, OneAnswer, Owners, NEW m \in MSHRs, NEW b \in Cacheable, NEW sink,
         Acquired(m, b, sink)
  PROVE  Owners'
<1>1. /\ UNCHANGED <<line, cBurst, dOut>> /\ perm' = Touched(b) /\ b \in Blocks
  BY DEF Acquired
<1>2. TrunkSame
  BY <1>1, TouchedTrunk DEF IInv
<1>3. ASSUME NEW msg, GrantPushed(msg, m, b, sink)
      PROVE  Owners'
  <2>1. /\ DMessagesInFlight' = DMessagesInFlight \cup {msg} /\ msg.block = b
        /\ perm[b] # "TRUNK"
    BY <1>3 DEF GrantPushed
  <2>2. \A c \in Blocks : line'[c] \in {"T", "D"} => perm'[c] = "TRUNK"
    BY <1>1, <1>2 DEF Owners, TrunkSame
  <2>3. cBurst' # None =>
          /\ perm'[cBurst'.block] = "TRUNK" /\ line'[cBurst'.block] # "D"
          /\ cBurst'.report # "TtoT" => line'[cBurst'.block] # "T"
          /\ \A x \in DMessagesInFlight' : GetsGrant(x) => x.block # cBurst'.block
    <3> SUFFICES ASSUME cBurst # None
                 PROVE  /\ perm'[cBurst.block] = "TRUNK" /\ line[cBurst.block] # "D"
                        /\ cBurst.report # "TtoT" => line[cBurst.block] # "T"
                        /\ \A x \in DMessagesInFlight' : GetsGrant(x) => x.block # cBurst.block
      BY <1>1
    <3>1. /\ perm[cBurst.block] = "TRUNK" /\ line[cBurst.block] # "D" /\ cBurst.block \in Blocks
          /\ cBurst.report # "TtoT" => line[cBurst.block] # "T"
          /\ \A x \in DMessagesInFlight : GetsGrant(x) => x.block # cBurst.block
      <4>1. cBurst.block \in Blocks
        BY OwnersTyped
      <4> QED BY <4>1 DEF Owners
    <3>2. perm'[cBurst.block] = "TRUNK" /\ cBurst.block # b
      BY <1>2, <2>1, <3>1 DEF TrunkSame
    <3> QED BY <2>1, <3>1, <3>2
  <2>4. \A c \in Blocks : perm'[c] = "TRUNK" => c \in Cacheable
    BY <1>2 DEF Owners, TrunkSame
  <2>5. \A x \in DMessagesInFlight' : x.op = "Grant" => x.param = "toT"
    BY <1>3, <2>1 DEF Owners, GrantPushed
  <2>6. dOut' # None /\ dOut'.msg.param = "toT" => perm'[dOut'.msg.block] = "TRUNK"
    <3>1. dOut # None /\ dOut.msg.param = "toT" => dOut.msg.block \in Blocks
      BY OwnersTyped DEF DMessages, Answers, Grants
    <3> QED BY <1>1, <1>2, <3>1 DEF Owners, TrunkSame
  <2> QED BY <2>2, <2>3, <2>4, <2>5, <2>6 DEF Owners
<1>4. ASSUME NEW cb, GrantAsked(cb, m, b, sink)
      PROVE  Owners'
  <2>1. GrantsKept
    BY <1>4 DEF GrantAsked, GrantsKept
  <2> QED BY <1>1, <1>2, <2>1, OwnersSame DEF BurstSame, PortKept
<1> QED BY <1>3, <1>4 DEF Acquired

\* the cache stores into a block it owns, or gives it back
LEMMA CacheOwners ==
  ASSUME IInv, OneAnswer, Misses, Owners, NEW b \in Cacheable,
         Store(b) \/ ReleaseClean(b) \/ StartReleaseData(b)
  PROVE  Owners'
<1>1. TypeOK /\ b \in Blocks /\ line \in [Blocks -> {"N", "B", "T", "D"}]
      /\ perm \in [Blocks -> {"Absent", "TIP", "TRUNK"}]
  BY OwnersTyped DEF Cacheable
<1>2. CASE Store(b)
  <2>1. /\ UNCHANGED <<perm, cBurst, dQueue, dOut>> /\ ~Sending(b)
        /\ line' = [line EXCEPT ![b] = "D"] /\ line[b] \in {"T", "D"}
    BY <1>2 DEF Store, aVars
  <2>2. DMessagesInFlight' = DMessagesInFlight
    BY <2>1 DEF DMessagesInFlight
  <2>3. \A c \in Blocks : line'[c] = IF c = b THEN "D" ELSE line[c]
    BY <1>1, <2>1
  <2>4. cBurst # None => cBurst.block # b /\ cBurst.block \in Blocks
    BY <2>1, OwnersTyped DEF Sending
  <2> QED BY <1>1, <2>1, <2>2, <2>3, <2>4 DEF Owners
<1>3. CASE ReleaseClean(b)
  <2> DEFINE report == Shrink(line[b], "toN")[2]
  <2>1. /\ cBurst = None /\ cBurst' = None /\ dOut' = dOut /\ ~Missing(b) /\ line[b] # "D"
        /\ line' = [line EXCEPT ![b] = "N"] /\ perm' = Reported(report, b)
    BY <1>3 DEF ReleaseClean, MayRelease, HandleRelease
  <2>2. GrantsKept
    <3>1. dQueue' = Append(dQueue, DMsg("ReleaseAck", RelSrc))
          /\ UNCHANGED <<bch, dOut, aBurst, mshr, gets>>
      BY <1>3 DEF ReleaseClean, HandleRelease
    <3> QED BY <1>1, <3>1, ReleaseAckAnswer DEF GrantsSame
  <2> HIDE DEF report
  <2>3. \A c \in Blocks : line'[c] = IF c = b THEN "N" ELSE line[c]
    BY <1>1, <2>1
  <2>4. \A c \in Blocks \ {b} : perm'[c] = perm[c]
    BY <1>1, <2>1 DEF Reported
  <2>5. perm'[b] = "TRUNK" => perm[b] = "TRUNK"
    BY <1>1, <2>1 DEF Reported
  <2>6. dOut # None /\ dOut.msg.param = "toT" => dOut.msg.block \in Blocks \ {b}
    <3> SUFFICES ASSUME dOut # None, dOut.msg.param = "toT"
                 PROVE  dOut.msg.block \in Blocks \ {b}
      OBVIOUS
    <3>1. dOut.msg \in DMessagesInFlight /\ GetsGrant(dOut.msg)
      BY OwnersTyped
    <3>2. dOut.msg.src \in MSHRs /\ dOut.msg.block \in Blocks
      BY <3>1, SourcesBusy
    <3>3. mshr[dOut.msg.src] = Miss(dOut.msg.block) /\ Miss(dOut.msg.block) # None
      BY <3>1, <3>2, NoRecordAssumption DEF Misses, Miss
    <3>4. mshr[dOut.msg.src].block = dOut.msg.block
      BY <3>3 DEF Miss
    <3> QED BY <2>1, <3>2, <3>3, <3>4 DEF Missing
  <2>7. dOut' # None /\ dOut'.msg.param = "toT" => perm'[dOut'.msg.block] = "TRUNK"
    BY <2>1, <2>4, <2>6 DEF Owners
  <2>8. \A c \in Blocks : line'[c] \in {"T", "D"} => perm'[c] = "TRUNK"
    BY <2>3, <2>4 DEF Owners
  <2>9. \A c \in Blocks : perm'[c] = "TRUNK" => c \in Cacheable
    BY <2>4, <2>5 DEF Owners
  <2>10. \A msg \in DMessagesInFlight' : msg.op = "Grant" => msg.param = "toT"
    BY <2>2 DEF Owners, GrantsKept, GetsGrant
  <2> QED BY <2>1, <2>7, <2>8, <2>9, <2>10 DEF Owners
<1>4. CASE StartReleaseData(b)
  <2>1. /\ line[b] = "D" /\ UNCHANGED <<perm, dQueue, dOut>> /\ ~Missing(b)
        /\ line' = [line EXCEPT ![b] = "N"] /\ cBurst'.block = b
    BY <1>4 DEF StartReleaseData, MayRelease, aVars
  <2>2. DMessagesInFlight' = DMessagesInFlight
    BY <2>1 DEF DMessagesInFlight
  <2>3. \A c \in Blocks : line'[c] = IF c = b THEN "N" ELSE line[c]
    BY <1>1, <2>1
  <2>4. \A msg \in DMessagesInFlight : GetsGrant(msg) => msg.block # b
    <3> SUFFICES ASSUME NEW msg \in DMessagesInFlight, GetsGrant(msg)
                 PROVE  msg.block # b
      OBVIOUS
    <3>1. msg.src \in MSHRs /\ msg.block \in Blocks
      BY SourcesBusy
    <3>2. mshr[msg.src] = Miss(msg.block) /\ Miss(msg.block) # None
      BY <3>1, NoRecordAssumption DEF Misses, Miss
    <3>3. mshr[msg.src].block = msg.block
      BY <3>2 DEF Miss
    <3> QED BY <2>1, <3>1, <3>2, <3>3 DEF Missing
  <2>5. perm[b] = "TRUNK"
    BY <1>1, <2>1 DEF Owners
  <2>6. /\ perm'[cBurst'.block] = "TRUNK" /\ line'[cBurst'.block] = "N"
        /\ \A msg \in DMessagesInFlight' : GetsGrant(msg) => msg.block # cBurst'.block
    BY <1>1, <2>1, <2>2, <2>3, <2>4, <2>5
  <2>7. \A c \in Blocks : line'[c] \in {"T", "D"} => perm'[c] = "TRUNK"
    BY <2>1, <2>3 DEF Owners
  <2> QED BY <2>1, <2>2, <2>6, <2>7 DEF Owners
<1> QED BY <1>2, <1>3, <1>4

\* a grant on its way is for a block that the cache does not own
LEMMA GrantsMissing ==
  ASSUME IInv, OneAnswer, Misses
  PROVE  \A msg \in DMessagesInFlight : GetsGrant(msg) =>
           /\ msg.src \in MSHRs /\ msg.block \in Cacheable /\ msg.block \in Blocks
           /\ mshr[msg.src] # None /\ mshr[msg.src].block = msg.block
           /\ mshr[msg.src].sink = None /\ line[msg.block] \in {"N", "B"}
<1> SUFFICES ASSUME NEW msg \in DMessagesInFlight, GetsGrant(msg)
             PROVE  /\ msg.src \in MSHRs /\ msg.block \in Cacheable /\ msg.block \in Blocks
                    /\ mshr[msg.src] # None /\ mshr[msg.src].block = msg.block
                    /\ mshr[msg.src].sink = None /\ line[msg.block] \in {"N", "B"}
  OBVIOUS
<1>1. msg.src \in MSHRs /\ msg.block \in Blocks
  BY SourcesBusy
<1>2. mshr[msg.src] = Miss(msg.block) /\ Miss(msg.block) # None
  BY <1>1, NoRecordAssumption DEF Misses, Miss
<1>3. mshr[msg.src].block = msg.block /\ mshr[msg.src].sink = None
  BY <1>2 DEF Miss
<1> QED BY <1>1, <1>2, <1>3 DEF Misses

\* what an answer on channel C takes from an owner, it no longer has: report is about a
\* block that has no grant on its way
LEMMA ReportedOwners ==
  ASSUME IInv, Owners, NEW b \in Blocks, NEW report,
         perm' = Reported(report, b), cBurst' = None, dOut' = dOut,
         \A c \in Blocks \ {b} : line'[c] = line[c],
         line'[b] \in {"T", "D"} => line[b] \in {"T", "D"} /\ report = "TtoT",
         report \in {"TtoB", "TtoN"} =>
           \A msg \in DMessagesInFlight : GetsGrant(msg) => msg.block # b,
         \A msg \in DMessagesInFlight' : msg.op = "Grant" => msg \in DMessagesInFlight
  PROVE  Owners'
<1>1. perm \in [Blocks -> {"Absent", "TIP", "TRUNK"}]
  BY OwnersTyped
<1>2. \A c \in Blocks : perm'[c] = IF c = b /\ report \in {"TtoB", "TtoN"} THEN "TIP" ELSE perm[c]
  BY <1>1 DEF Reported
<1>3. \A c \in Blocks : line'[c] \in {"T", "D"} => perm'[c] = "TRUNK"
  BY <1>2 DEF Owners
<1>4. \A c \in Blocks : perm'[c] = "TRUNK" => c \in Cacheable
  BY <1>2 DEF Owners
<1>5. \A msg \in DMessagesInFlight' : msg.op = "Grant" => msg.param = "toT"
  BY DEF Owners
<1>6. dOut' # None /\ dOut'.msg.param = "toT" => perm'[dOut'.msg.block] = "TRUNK"
  <2> SUFFICES ASSUME dOut # None, dOut.msg.param = "toT"
               PROVE  perm'[dOut.msg.block] = "TRUNK"
    OBVIOUS
  <2>1. dOut.msg \in DMessagesInFlight /\ GetsGrant(dOut.msg) /\ dOut.msg.block \in Blocks
    BY OwnersTyped DEF DMessages, Answers, Grants
  <2>2. perm[dOut.msg.block] = "TRUNK"
    BY DEF Owners
  <2> QED BY <1>2, <2>1, <2>2
<1> QED BY <1>3, <1>4, <1>5, <1>6 DEF Owners

\* the messages that a callback sends are no Grant without data
LEMMA CallSendsData ==
  ASSUME IInv, OneAnswer, MemoryTypes', NEW src \in Outside, CallAndRelease(src),
         UNCHANGED <<dOut, aBurst, mshr, gets>>
  PROVE  \A msg \in DMessagesInFlight' : msg.op = "Grant" => msg \in DMessagesInFlight
<1> DEFINE cb == bch.callback[src]
<1>1. CASE Replies(cb)
  <2>1. DMessagesInFlight' = DMessagesInFlight \cup {ReplyOf(cb)}
    BY <1>1, CallAnswer
  <2>2. ReplyOf(cb).op # "Grant"
    BY <1>1 DEF ReplyOf, AccessAckData, Grant, DMsg
  <2> QED BY <2>1, <2>2
<1>2. CASE ~Replies(cb)
  BY <1>2, CallAnswer DEF GrantsSame, GrantsKept, GetsGrant
<1> QED BY <1>1, <1>2

LEMMA ProbesOwners ==
  ASSUME IInv, OneAnswer, Misses, Owners, MemoryTypes',
         \/ ReceiveProbe \/ BurstBeat
         \/ \E p \in pend : ProbeAck(p) \/ StartProbeAckData(p)
  PROVE  Owners'
<1>1. /\ TypeOK /\ line \in [Blocks -> {"N", "B", "T", "D"}] /\ pend \subseteq Probes
      /\ perm \in [Blocks -> {"Absent", "TIP", "TRUNK"}]
  BY OwnersTyped DEF TypeOK, EngineTypes
<1>2. CASE ReceiveProbe
  <2>1. UNCHANGED <<bch, dQueue, dOut, line, perm, cBurst>>
    BY <1>2 DEF ReceiveProbe, FireB
  <2> QED BY <2>1, AllSame, OwnersSame DEF GrantsSame, TrunkSame, BurstSame
<1>3. CASE BurstBeat
  <2> DEFINE b == cBurst.block
  <2>1. /\ cBurst # None /\ b \in Blocks /\ UNCHANGED <<line, mshr, gets, aBurst, dOut>>
        /\ perm[b] = "TRUNK" /\ line[b] # "D" /\ cBurst.report # "TtoT" => line[b] # "T"
    BY <1>3, BurstCases DEF Owners
  <2>2. /\ line[b] \in {"T", "D"} => cBurst.report = "TtoT"
        /\ \A msg \in DMessagesInFlight : GetsGrant(msg) => msg.block # b
    BY <1>3, BurstCases DEF Owners
  <2>3. CASE /\ cBurst'.block = cBurst.block /\ cBurst'.report = cBurst.report
             /\ UNCHANGED <<perm, bch, dQueue, ongoingTlc>>
    BY <2>1, <2>3, AllSame, OwnersSame DEF GrantsSame, TrunkSame, BurstSame
  <2>4. CASE /\ cBurst' = None /\ perm' = Reported(cBurst.report, b)
             /\ dQueue' = Append(dQueue, DMsg("ReleaseAck", RelSrc)) /\ bch' = bch
    <3>1. GrantsKept
      BY <1>1, <2>1, <2>4, ReleaseAckAnswer DEF GrantsSame
    <3>2. \A msg \in DMessagesInFlight' : msg.op = "Grant" => msg \in DMessagesInFlight
      BY <3>1 DEF GrantsKept, GetsGrant
    <3> HIDE DEF b
    <3> QED BY <2>1, <2>2, <2>4, <3>2, ReportedOwners
  <2>5. CASE /\ cBurst' = None /\ perm' = Reported(cBurst.report, b)
             /\ cBurst.src \in Outside /\ CallAndRelease(cBurst.src)
    <3>1. \A msg \in DMessagesInFlight' : msg.op = "Grant" => msg \in DMessagesInFlight
      BY <2>1, <2>5, CallSendsData
    <3> HIDE DEF b
    <3> QED BY <2>1, <2>2, <2>5, <3>1, ReportedOwners
  <2> QED BY <1>3, <2>3, <2>4, <2>5, BurstCases
<1>4. ASSUME NEW p \in pend, ProbeAck(p)
      PROVE  Owners'
  <2> DEFINE b      == p.block
             report == Shrink(line[b], p.cap)[2]
  <2>1. /\ UNCHANGED <<mshr, gets, aBurst, dOut>> /\ cBurst' = None
        /\ b \in Blocks /\ p.cap \in Caps /\ p.src \in Outside /\ CallAndRelease(p.src)
        /\ line' = [line EXCEPT ![b] = Shrink(@, p.cap)[1]] /\ line[b] # "D"
        /\ perm' = Reported(report, b)
    BY <1>4, ProbeAckCases DEF Probes
  <2>2. \A msg \in DMessagesInFlight' : msg.op = "Grant" => msg \in DMessagesInFlight
    BY <2>1, CallSendsData
  <2>3. line'[b] = Shrink(line[b], p.cap)[1] /\ \A c \in Blocks \ {b} : line'[c] = line[c]
    BY <1>1, <2>1
  <2>4. line[b] \in {"N", "B", "T", "D"}
    BY <1>1, <2>1
  <2>5. /\ line'[b] \in {"T", "D"} => line[b] \in {"T", "D"} /\ report = "TtoT"
        /\ report \in {"TtoB", "TtoN"} => line[b] \in {"T", "D"}
    BY <2>1, <2>3, <2>4, ShrinkLowers
  <2>6. report \in {"TtoB", "TtoN"} =>
           \A msg \in DMessagesInFlight : GetsGrant(msg) => msg.block # b
    BY <2>5, GrantsMissing
  <2> HIDE DEF b, report
  <2> QED BY <2>1, <2>2, <2>3, <2>5, <2>6, ReportedOwners
<1>5. ASSUME NEW p \in pend, StartProbeAckData(p)
      PROVE  Owners'
  <2> DEFINE b == p.block
  <2>1. /\ UNCHANGED <<bch, dQueue, dOut, perm>> /\ b \in Blocks /\ p.cap \in Caps
        /\ line' = [line EXCEPT ![b] = Shrink(@, p.cap)[1]] /\ line[b] = "D"
        /\ cBurst'.block = b /\ cBurst'.report = Shrink(line[b], p.cap)[2]
    BY <1>1, <1>5 DEF StartProbeAckData, aVars, Probes
  <2>2. /\ line'[b] = Shrink("D", p.cap)[1] /\ \A c \in Blocks \ {b} : line'[c] = line[c]
        /\ cBurst'.report = Shrink("D", p.cap)[2]
    BY <1>1, <2>1
  <2>3. /\ line'[b] # "D" /\ (cBurst'.report # "TtoT" => line'[b] # "T")
    BY <2>1, <2>2, ShrinkLowers
  <2>4. DMessagesInFlight' = DMessagesInFlight
    BY <2>1 DEF DMessagesInFlight
  <2>5. \A msg \in DMessagesInFlight : GetsGrant(msg) => msg.block # b
    BY <2>1, GrantsMissing
  <2>6. perm[b] = "TRUNK"
    BY <2>1 DEF Owners
  <2>7. \A c \in Blocks : line'[c] \in {"T", "D"} => perm'[c] = "TRUNK"
    BY <2>1, <2>2, <2>6 DEF Owners
  <2>8. /\ perm'[cBurst'.block] = "TRUNK" /\ line'[cBurst'.block] # "D"
        /\ cBurst'.report # "TtoT" => line'[cBurst'.block] # "T"
        /\ \A msg \in DMessagesInFlight' : GetsGrant(msg) => msg.block # cBurst'.block
    BY <2>1, <2>3, <2>4, <2>5, <2>6
  <2> HIDE DEF b
  <2> QED BY <2>1, <2>4, <2>7, <2>8 DEF Owners
<1> QED BY <1>2, <1>3, <1>4, <1>5

\* the grant makes an owner of the cache, whom updatePerm has recorded
LEMMA ReceiveDOwners ==
  ASSUME IInv, OneAnswer, Misses, Owners, ReceiveD
  PROVE  Owners'
<1> DEFINE msg == dOut.msg
<1>1. /\ dOut # None /\ msg \in DMessagesInFlight
      /\ DMessagesInFlight' \subseteq DMessagesInFlight
      /\ UNCHANGED <<perm, bch, cBurst>>
      /\ line' = line \/ (Ended(msg) /\ GetsGrant(msg))
  BY ReceiveDCases DEF Ended
<1>2. GrantsKept /\ PortKept
  BY ReceiveDAnswer DEF GrantsSame
<1>3. CASE line' = line
  BY <1>1, <1>2, <1>3, OwnersSame DEF TrunkSame, BurstSame
<1>4. CASE Ended(msg) /\ GetsGrant(msg)
  <2>1. /\ dOut' = None /\ msg.block \in Blocks /\ msg.op \in {"Grant", "GrantData"}
        /\ line' = [line EXCEPT ![msg.block] = IF msg.op = "Grant" THEN "D"
                                               ELSE IF msg.param = "toT" THEN "T" ELSE "B"]
    BY <1>1, <1>4, SourcesBusy DEF Ended, GetsGrant
  <2>2. line'[msg.block] \in {"T", "D"} => perm[msg.block] = "TRUNK"
    BY <1>1, <2>1, OwnersTyped DEF Owners
  <2>3. \A c \in Blocks \ {msg.block} : line'[c] = line[c]
    BY <2>1, OwnersTyped
  <2>4. cBurst # None => cBurst.block # msg.block /\ cBurst.block \in Blocks
    BY <1>1, <1>4, OwnersTyped DEF Owners
  <2>5. \A c \in Blocks : line'[c] \in {"T", "D"} => perm'[c] = "TRUNK"
    BY <1>1, <2>2, <2>3 DEF Owners
  <2>6. cBurst' # None =>
          /\ perm'[cBurst'.block] = "TRUNK" /\ line'[cBurst'.block] # "D"
          /\ cBurst'.report # "TtoT" => line'[cBurst'.block] # "T"
          /\ \A x \in DMessagesInFlight' : GetsGrant(x) => x.block # cBurst'.block
    BY <1>1, <2>3, <2>4 DEF Owners
  <2>7. \A x \in DMessagesInFlight' : x.op = "Grant" => x.param = "toT"
    BY <1>1 DEF Owners
  <2> HIDE DEF msg
  <2> QED BY <1>1, <2>1, <2>5, <2>6, <2>7 DEF Owners
<1> QED BY <1>1, <1>3, <1>4

LEMMA GrantAckOwners ==
  ASSUME IInv, Owners, NEW m \in MSHRs, GrantAck(m)
  PROVE  Owners'
<1>1. UNCHANGED <<bch, dQueue, dOut, line, perm, cBurst>>
  BY DEF GrantAck, HandleGrantAck
<1> QED BY <1>1, AllSame, OwnersSame DEF GrantsSame, TrunkSame, BurstSame

LEMMA AdapterOwners ==
  ASSUME IInv, OneAnswer, Misses, Owners,
         \/ Adapter \/ (\E b \in Tohosts : HostProbe(b)) \/ HostStop \/ UNCHANGED vars
  PROVE  Owners'
<1>1. CASE DriveD
  <2> DEFINE msg == Head(dQueue)
  <2>1. /\ PopD /\ TypeOK /\ QueueOnce /\ UNCHANGED <<line, cBurst>>
        /\ perm' = IF msg.param = "toT" THEN [perm EXCEPT ![msg.block] = "TRUNK"] ELSE perm
    BY <1>1 DEF DriveD, PopD, tVars, IInv, OneAnswer
  <2>2. /\ DMessagesInFlight' = DMessagesInFlight /\ dOut'.msg = msg
        /\ msg \in DMessagesInFlight
    BY <2>1, DataPopped
  <2>3. msg.param = "toT" => msg.block \in Cacheable /\ msg.block \in Blocks
    BY <2>2, OwnersTyped, SourcesBusy, GrantsMissing
  <2> HIDE DEF msg
  <2>4. \A c \in Blocks : perm[c] = "TRUNK" => perm'[c] = "TRUNK"
    BY <2>1, <2>3, OwnersTyped
  <2>5. \A c \in Blocks : perm'[c] = "TRUNK" => c \in Cacheable
    BY <2>1, <2>3, OwnersTyped DEF Owners
  <2>6. dOut' # None /\ dOut'.msg.param = "toT" => perm'[dOut'.msg.block] = "TRUNK"
    BY <2>1, <2>2, <2>3, OwnersTyped
  <2>7. \A c \in Blocks : line'[c] \in {"T", "D"} => perm'[c] = "TRUNK"
    BY <2>1, <2>4 DEF Owners
  <2>8. cBurst' # None =>
          /\ perm'[cBurst'.block] = "TRUNK" /\ line'[cBurst'.block] # "D"
          /\ cBurst'.report # "TtoT" => line'[cBurst'.block] # "T"
          /\ \A x \in DMessagesInFlight' : GetsGrant(x) => x.block # cBurst'.block
    BY <2>1, <2>2, <2>4, OwnersTyped DEF Owners
  <2>9. \A x \in DMessagesInFlight' : x.op = "Grant" => x.param = "toT"
    BY <2>2 DEF Owners
  <2> QED BY <2>5, <2>6, <2>7, <2>8, <2>9 DEF Owners
<1>2. CASE DriveB
  <2>1. UNCHANGED <<line, perm, cBurst>>
    BY <1>2 DEF DriveB, PopB, tVars
  <2> QED BY <1>2, <2>1, DriveBAnswer, OwnersSame DEF GrantsSame, TrunkSame, BurstSame
<1>3. CASE Retrieve
  <2>1. UNCHANGED <<line, perm, cBurst>>
    BY <1>3 DEF Retrieve, DataRetriever
  <2> QED BY <1>3, <2>1, RetrieveAnswer, OwnersSame DEF GrantsSame, TrunkSame, BurstSame
<1>4. CASE ProbeTohost
  <2>1. UNCHANGED <<line, perm, cBurst>>
    BY <1>4 DEF ProbeTohost, HostInterface, tVars
  <2> QED BY <1>4, <2>1, ProbeTohostAnswer, OwnersSame DEF GrantsSame, TrunkSame, BurstSame
<1>5. CASE (\E b \in Tohosts : HostProbe(b)) \/ HostStop \/ UNCHANGED vars
  <2>1. UNCHANGED <<bch, dQueue, dOut, line, perm, cBurst>>
    BY <1>5 DEF HostProbe, ProbeBlock, HostStop, StopAdapter, tVars, vars, aVars
  <2> QED BY <2>1, AllSame, OwnersSame DEF GrantsSame, TrunkSame, BurstSame
<1> QED BY <1>1, <1>2, <1>3, <1>4, <1>5 DEF Adapter

----------------------------------------------------------------------------
(* Versions.                                                               *)

\* nor is the block owned for which a callback is to send a grant
LEMMA CallbacksMissing ==
  ASSUME IInv, OneAnswer, Misses, NEW cb \in CbsOf(bch), cb.kind = "GrantData_cb"
  PROVE  cb.block \in Cacheable /\ cb.block \in Blocks /\ line[cb.block] \in {"N", "B"}
<1>1. cb.src \in MSHRs /\ cb.block \in Blocks
  BY SourcesBusy
<1>2. mshr[cb.src] = Miss(cb.block) /\ Miss(cb.block) # None
  BY <1>1, NoRecordAssumption DEF Misses, Miss
<1>3. mshr[cb.src].block = cb.block /\ mshr[cb.src].sink = None
  BY <1>2 DEF Miss
<1> QED BY <1>1, <1>2, <1>3 DEF Misses

LEMMA VersionsTyped ==
  ASSUME IInv
  PROVE  /\ TypeOK /\ latest \in [Blocks -> Nat] /\ mem \in [Blocks -> [BeatNo -> Nat]]
         /\ 1 \in BeatNo /\ Beats \in Nat \ {0} /\ BeatNo = 1..Beats
         /\ Uncached \cap Cacheable = {} /\ Uncached \subseteq Blocks
         /\ Cacheable \subseteq Blocks
<1>1. TypeOK
  BY DEF IInv
<1>2. MemoryTypes /\ TileTypes
  BY <1>1 DEF TypeOK
<1>3. latest \in [Blocks -> Nat] /\ mem \in [Blocks -> [BeatNo -> Nat]]
  BY <1>2 DEF MemoryTypes, TileTypes
<1>4. Beats \in Nat \ {0} /\ BeatNo = 1..Beats
  BY BeatsAssumption DEF BeatNo
<1>5. 1 \in 1..Beats
  BY <1>4
<1>6. Uncached \subseteq Blocks
  BY SourcesAssumption
<1>7. Uncached \cap Cacheable = {} /\ Cacheable \subseteq Blocks
  BY DEF Cacheable
<1> QED BY <1>1, <1>3, <1>4, <1>5, <1>6, <1>7

\* the grants of a step carry the last version
DataKept == \A msg \in DMessagesInFlight' :
              msg.op = "GrantData" =>
                msg \in DMessagesInFlight \/ \A i \in BeatNo : msg.data[i] = latest[msg.block]

LEMMA VersionsSame ==
  ASSUME IInv, Versions, UNCHANGED <<mem, latest, aBurst>>, DataKept,
         \A b \in Cacheable : line'[b] # "D" /\ ~Sending(b)' => line[b] # "D" /\ ~Sending(b),
         cBurst' # None => cBurst' = cBurst \/ cBurst'.sent = 0
  PROVE  Versions'
<1>1. \A b \in Cacheable : line'[b] # "D" /\ ~Sending(b)' =>
        \A i \in BeatNo : mem'[b][i] = latest'[b]
  BY DEF Versions
<1>2. cBurst' # None => \A i \in BeatNo :
        i <= cBurst'.sent => mem'[cBurst'.block][i] = latest'[cBurst'.block]
  <2>1. \A i \in BeatNo : ~(i <= 0)
    BY VersionsTyped
  <2> QED BY <2>1 DEF Versions
<1>3. \A msg \in DMessagesInFlight' :
        msg.op = "GrantData" => \A i \in BeatNo : msg.data[i] = latest'[msg.block]
  BY DEF Versions, DataKept
<1>4. \A b \in Uncached : mem'[b][1] >= latest'[b]
  BY DEF Versions
<1>5. aBurst' # None =>
        aBurst'.block \in Uncached /\ mem'[aBurst'.block][1] >= latest'[aBurst'.block] + 1
  BY DEF Versions
<1> QED BY <1>1, <1>2, <1>3, <1>4, <1>5 DEF Versions

LEMMA VersionsQuiet ==
  ASSUME IInv, Versions, UNCHANGED <<mem, latest, aBurst, cBurst, line>>, GrantsKept
  PROVE  Versions'
<1>1. DataKept
  BY DEF GrantsKept, DataKept, GetsGrant
<1>2. \A b : Sending(b)' = Sending(b)
  BY DEF Sending
<1> QED BY <1>1, <1>2, VersionsSame

\* a block of the uncached master: no cache holds it and no grant carries it
LEMMA UncachedVersions ==
  ASSUME IInv, OneAnswer, Misses, Owners, Versions, NEW b \in Uncached,
         UNCHANGED <<line, cBurst>>, GrantsKept,
         \A c \in Blocks \ {b} : mem'[c] = mem[c] /\ latest'[c] = latest[c],
         mem'[b][1] >= latest'[b],
         aBurst' # None => aBurst'.block = b /\ mem'[b][1] >= latest'[b] + 1
  PROVE  Versions'
<1>1. \A c \in Cacheable : c \in Blocks \ {b}
  BY VersionsTyped
<1>2. \A c : Sending(c)' = Sending(c)
  BY DEF Sending
<1>3. \A c \in Cacheable : line'[c] # "D" /\ ~Sending(c)' =>
        \A i \in BeatNo : mem'[c][i] = latest'[c]
  BY <1>1, <1>2 DEF Versions
<1>4. cBurst' # None => \A i \in BeatNo :
        i <= cBurst'.sent => mem'[cBurst'.block][i] = latest'[cBurst'.block]
  <2>1. cBurst # None => cBurst.block \in Blocks \ {b}
    BY <1>1, OwnersTyped DEF Owners
  <2> QED BY <2>1 DEF Versions
<1>5. \A c \in Uncached : mem'[c][1] >= latest'[c]
  BY VersionsTyped DEF Versions
<1>6. \A msg \in DMessagesInFlight' :
        msg.op = "GrantData" => \A i \in BeatNo : msg.data[i] = latest'[msg.block]
  <2> SUFFICES ASSUME NEW msg \in DMessagesInFlight', msg.op = "GrantData", NEW i \in BeatNo
               PROVE  msg.data[i] = latest'[msg.block]
    OBVIOUS
  <2>1. msg \in DMessagesInFlight /\ GetsGrant(msg)
    BY DEF GrantsKept, GetsGrant
  <2>2. msg.block \in Blocks \ {b}
    BY <1>1, <2>1, GrantsMissing
  <2> QED BY <2>1, <2>2 DEF Versions
<1> QED BY <1>3, <1>4, <1>5, <1>6 DEF Versions

LEMMA UncachingVersions ==
  ASSUME IInv, OneAnswer, Misses, Owners, Versions, Uncaching
  PROVE  Versions'
<1>1. ASSUME NEW g \in GSrcs, NEW b \in Blocks, Get(g, b)
      PROVE  Versions'
  <2>1. UNCHANGED <<mem, latest, aBurst, cBurst, line>>
    BY <1>1 DEF Get, HandleGet
  <2> QED BY <1>1, <2>1, GetAnswer, VersionsQuiet DEF GrantsSame
<1>2. ASSUME NEW g \in GSrcs, NEW b \in Blocks, Intent(g, b)
      PROVE  Versions'
  <2>1. UNCHANGED <<mem, latest, aBurst, cBurst, line>>
    BY <1>2 DEF Intent, HandleIntent
  <2> QED BY <1>2, <2>1, IntentAnswer, VersionsQuiet DEF GrantsSame
<1>3. ASSUME NEW g \in GSrcs, NEW b \in Uncached, Atomic(g, b)
      PROVE  Versions'
  <2>1. /\ UNCHANGED <<line, cBurst, aBurst>> /\ aBurst = None
        /\ mem' = [mem EXCEPT ![b][1] = latest[b] + 1]
        /\ latest' = [latest EXCEPT ![b] = @ + 1]
    BY <1>3 DEF Atomic, HandleAtomic, Free
  <2>2. /\ \A c \in Blocks \ {b} : mem'[c] = mem[c] /\ latest'[c] = latest[c]
        /\ mem'[b][1] = latest[b] + 1 /\ latest'[b] = latest[b] + 1 /\ latest[b] \in Nat
    BY <2>1, VersionsTyped
  <2> QED BY <1>3, <2>1, <2>2, AtomicAnswer, UncachedVersions DEF GrantsSame
<1>4. ASSUME NEW g \in GSrcs, NEW b \in Uncached, PutFirst(g, b)
      PROVE  Versions'
  <2>1. /\ UNCHANGED <<line, cBurst>> /\ aBurst = None
        /\ aBurst' = IF Beats = 1 THEN None ELSE [src |-> g, block |-> b, sent |-> 1]
        /\ latest' = IF Beats = 1 THEN [latest EXCEPT ![b] = @ + 1] ELSE latest
        /\ mem' = [mem EXCEPT ![b][aOngoings[g] + 1] = latest[b] + 1]
    BY <1>4 DEF PutFirst, HandlePut, Free
  <2>2. aOngoings[g] = 0
    BY <2>1 DEF IInv, BurstsCounted, ASrcs
  <2>3. mem' = [mem EXCEPT ![b][1] = latest[b] + 1]
    BY <2>1, <2>2
  <2>4. /\ \A c \in Blocks \ {b} : mem'[c] = mem[c] /\ latest'[c] = latest[c]
        /\ mem'[b][1] = latest[b] + 1 /\ latest[b] \in Nat
        /\ latest'[b] = IF Beats = 1 THEN latest[b] + 1 ELSE latest[b]
    BY <2>1, <2>3, VersionsTyped
  <2>5. aBurst' # None => aBurst'.block = b /\ mem'[b][1] >= latest'[b] + 1
    BY <2>1, <2>4
  <2>6. mem'[b][1] >= latest'[b]
    BY <2>4
  <2> QED BY <1>4, <2>1, <2>4, <2>5, <2>6, PutFirstAnswer, UncachedVersions DEF GrantsSame
<1>5. CASE PutBeat
  <2> DEFINE b == aBurst.block
             k == aBurst.sent + 1
  <2>1. /\ aBurst # None /\ UNCHANGED <<line, cBurst>>
        /\ aBurst' = IF k = Beats THEN None ELSE [aBurst EXCEPT !.sent = @ + 1]
        /\ latest' = IF k = Beats THEN [latest EXCEPT ![b] = @ + 1] ELSE latest
        /\ mem' = [mem EXCEPT ![b][aOngoings[aBurst.src] + 1] = latest[b] + 1]
    BY <1>5 DEF PutBeat, HandlePut
  <2>2. aBurst \in PutBursts /\ aBurst.src \in GSrcs /\ aBurst.sent \in 1..(Beats - 1)
    BY <2>1 DEF IInv, TypeOK, TileTypes, PutBursts
  <2>3. aOngoings[aBurst.src] = aBurst.sent
    BY <2>1, <2>2 DEF IInv, BurstsCounted, ASrcs
  <2>4. b \in Uncached /\ mem[b][1] >= latest[b] + 1 /\ k # 1
    BY <2>1, <2>2, VersionsTyped DEF Versions
  <2>5. mem' = [mem EXCEPT ![b][k] = latest[b] + 1]
    BY <2>1, <2>3
  <2>6. aBurst' # None => aBurst'.block = b /\ k # Beats
    BY <2>1, <2>2 DEF PutBursts
  <2> HIDE DEF k, b
  <2>7. /\ \A c \in Blocks \ {b} : mem'[c] = mem[c] /\ latest'[c] = latest[c]
        /\ latest[b] \in Nat /\ b \in Blocks
        /\ latest'[b] = IF k = Beats THEN latest[b] + 1 ELSE latest[b]
    BY <2>1, <2>4, <2>5, VersionsTyped
  <2>8. mem'[b][1] = mem[b][1] /\ mem[b][1] \in Nat
    BY <2>4, <2>5, <2>7, VersionsTyped
  <2>9. mem'[b][1] >= latest'[b] /\ (aBurst' # None => mem'[b][1] >= latest'[b] + 1)
    BY <2>4, <2>6, <2>7, <2>8
  <2> QED BY <1>5, <2>1, <2>4, <2>6, <2>7, <2>9, PutBeatAnswer, UncachedVersions DEF GrantsSame
<1> QED BY <1>1, <1>2, <1>3, <1>4, <1>5 DEF Uncaching

\* memory is current wherever nobody owns the block: the answer at once may come from it
LEMMA AcquireVersions ==
  ASSUME IInv, OneAnswer, Misses, Owners, Versions, NEW m \in MSHRs, NEW b \in Cacheable,
         NEW sink, Acquired(m, b, sink)
  PROVE  Versions'
<1>1. /\ UNCHANGED <<line, latest, aBurst, cBurst, mem>> /\ b \in Blocks
      /\ line[b] \in {"N", "B"}
  BY DEF Acquired
<1>2. \A c : Sending(c)' = Sending(c)
  BY <1>1 DEF Sending
<1>3. ASSUME NEW msg, GrantPushed(msg, m, b, sink)
      PROVE  DataKept
  <2>1. /\ DMessagesInFlight' = DMessagesInFlight \cup {msg} /\ perm[b] # "TRUNK"
        /\ msg.block = b /\ (msg.op = "GrantData" => msg.data = DataOf(mem, b))
    BY <1>3 DEF GrantPushed
  <2>2. ~Sending(b)
    BY <2>1 DEF Owners, Sending
  <2>3. \A i \in BeatNo : mem[b][i] = latest[b]
    BY <1>1, <2>2 DEF Versions
  <2>4. \A i \in BeatNo : DataOf(mem, b)[i] = latest[b]
    BY <2>3 DEF DataOf
  <2> QED BY <2>1, <2>4 DEF DataKept
<1>4. ASSUME NEW cb, GrantAsked(cb, m, b, sink)
      PROVE  DataKept
  BY <1>4 DEF GrantAsked, DataKept
<1>5. DataKept
  BY <1>3, <1>4 DEF Acquired
<1> QED BY <1>1, <1>2, <1>5, VersionsSame

\* a store is seen by no grant and by no burst that is on its way
LEMMA CacheVersions ==
  ASSUME IInv, OneAnswer, Misses, Owners, Versions, NEW b \in Cacheable,
         Store(b) \/ ReleaseClean(b) \/ StartReleaseData(b)
  PROVE  Versions'
<1>1. TypeOK /\ b \in Blocks /\ line \in [Blocks -> {"N", "B", "T", "D"}]
  BY OwnersTyped DEF Cacheable
<1>2. CASE Store(b)
  <2>1. /\ UNCHANGED <<mem, aBurst, cBurst, dQueue, dOut>> /\ ~Sending(b)
        /\ line' = [line EXCEPT ![b] = "D"] /\ line[b] \in {"T", "D"}
        /\ latest' = [latest EXCEPT ![b] = @ + 1]
    BY <1>2 DEF Store, aVars
  <2>2. DMessagesInFlight' = DMessagesInFlight
    BY <2>1 DEF DMessagesInFlight
  <2>3. /\ \A c \in Blocks \ {b} : line'[c] = line[c] /\ latest'[c] = latest[c]
        /\ line'[b] = "D" /\ \A c : Sending(c)' = Sending(c)
    BY <1>1, <2>1, VersionsTyped DEF Sending
  <2>4. \A c \in Cacheable : line'[c] # "D" /\ ~Sending(c)' =>
          \A i \in BeatNo : mem'[c][i] = latest'[c]
    BY <2>1, <2>3, VersionsTyped DEF Versions
  <2>5. cBurst' # None => \A i \in BeatNo :
          i <= cBurst'.sent => mem'[cBurst'.block][i] = latest'[cBurst'.block]
    <3>1. cBurst # None => cBurst.block \in Blocks \ {b}
      BY <2>1, OwnersTyped DEF Sending
    <3> QED BY <2>1, <2>3, <3>1 DEF Versions
  <2>6. \A c \in Uncached : c \in Blocks \ {b}
    BY VersionsTyped
  <2>7. \A c \in Uncached : mem'[c][1] >= latest'[c]
    BY <2>1, <2>3, <2>6 DEF Versions
  <2>8. aBurst' # None =>
          aBurst'.block \in Uncached /\ mem'[aBurst'.block][1] >= latest'[aBurst'.block] + 1
    BY <2>1, <2>3, <2>6 DEF Versions
  <2>9. \A msg \in DMessagesInFlight' :
          msg.op = "GrantData" => \A i \in BeatNo : msg.data[i] = latest'[msg.block]
    <3> SUFFICES ASSUME NEW msg \in DMessagesInFlight, msg.op = "GrantData", NEW i \in BeatNo
                 PROVE  msg.data[i] = latest'[msg.block]
      BY <2>2
    <3>1. msg.block \in Blocks \ {b}
      BY <2>1, GrantsMissing DEF GetsGrant
    <3> QED BY <2>3, <3>1 DEF Versions
  <2> QED BY <2>4, <2>5, <2>7, <2>8, <2>9 DEF Versions
<1>3. CASE ReleaseClean(b)
  <2>1. /\ UNCHANGED <<bch, dOut, mshr, gets, mem, latest, aBurst, cBurst>>
        /\ line' = [line EXCEPT ![b] = "N"] /\ line[b] # "D"
        /\ dQueue' = Append(dQueue, DMsg("ReleaseAck", RelSrc))
    BY <1>3 DEF ReleaseClean, HandleRelease
  <2>2. DataKept
    BY <1>1, <2>1, ReleaseAckAnswer DEF GrantsSame, GrantsKept, GetsGrant, DataKept
  <2>3. \A c \in Cacheable : line'[c] # "D" /\ ~Sending(c)' => line[c] # "D" /\ ~Sending(c)
    BY <1>1, <2>1 DEF Sending, Cacheable
  <2> QED BY <2>1, <2>2, <2>3, VersionsSame
<1>4. CASE StartReleaseData(b)
  <2>1. /\ UNCHANGED <<dQueue, dOut, mem, latest, aBurst>> /\ cBurst = None
        /\ line' = [line EXCEPT ![b] = "N"]
        /\ cBurst' = [op |-> "ReleaseData", src |-> RelSrc, block |-> b,
                      report |-> "TtoN", sent |-> 0]
    BY <1>4 DEF StartReleaseData, MayRelease, aVars
  <2>2. DataKept
    BY <2>1 DEF DataKept, DMessagesInFlight
  <2>3. cBurst' # None
    <3>1. cBurst' \in RelBursts
      BY <1>1, <2>1, BeatsAssumption DEF RelBursts
    <3> QED BY <3>1, NoMessageAssumption DEF Bursts
  <2>4. \A c \in Cacheable : line'[c] # "D" /\ ~Sending(c)' => line[c] # "D" /\ ~Sending(c)
    BY <1>1, <2>1, <2>3 DEF Sending, Cacheable
  <2> QED BY <2>1, <2>2, <2>4, VersionsSame
<1> QED BY <1>2, <1>3, <1>4

\* the callback of a probe reads memory after the last beat of the answer
LEMMA CallData ==
  ASSUME IInv, OneAnswer, Misses, MemoryTypes', NEW src \in Outside, CallAndRelease(src),
         UNCHANGED <<dOut, aBurst, mshr, gets>>,
         \A b \in Cacheable : line[b] \in {"N", "B"} =>
           \A i \in BeatNo : mem'[b][i] = latest[b]
  PROVE  DataKept
<1> DEFINE cb == bch.callback[src]
<1>1. CASE cb.kind = "GrantData_cb"
  <2>1. cb \in CbsOf(bch) /\ DMessagesInFlight' = DMessagesInFlight \cup {ReplyOf(cb)}
    BY <1>1, CallAnswer DEF Replies
  <2>2. ReplyOf(cb).block = cb.block /\ ReplyOf(cb).data = DataOf(mem', cb.block)
    BY <1>1 DEF ReplyOf, Grant, DMsg
  <2> HIDE DEF cb
  <2>3. \A i \in BeatNo : mem'[cb.block][i] = latest[cb.block]
    BY <1>1, <2>1, CallbacksMissing
  <2>4. \A i \in BeatNo : ReplyOf(cb).data[i] = latest[cb.block]
    BY <2>2, <2>3 DEF DataOf
  <2> QED BY <2>1, <2>2, <2>4 DEF DataKept
<1>2. CASE cb.kind = "AccessAckData_cb"
  <2>1. DMessagesInFlight' = DMessagesInFlight \cup {ReplyOf(cb)}
    BY <1>2, CallAnswer DEF Replies
  <2>2. ReplyOf(cb).op # "GrantData"
    BY <1>2 DEF ReplyOf, AccessAckData, DMsg
  <2> QED BY <2>1, <2>2 DEF DataKept
<1>3. CASE ~Replies(cb)
  BY <1>3, CallAnswer DEF GrantsSame, GrantsKept, GetsGrant, DataKept
<1> QED BY <1>1, <1>2, <1>3 DEF Replies

\* one beat enters memory; with the last one the block is current again
LEMMA BurstVersions ==
  ASSUME IInv, OneAnswer, Misses, Owners, Versions, MemoryTypes', BurstBeat
  PROVE  Versions'
<1> DEFINE b == cBurst.block
           k == cBurst.sent + 1
<1>1. /\ cBurst # None /\ cBurst \in Bursts /\ b \in Blocks
      /\ UNCHANGED <<line, latest, mshr, gets, aBurst, dOut>>
      /\ mem' = [mem EXCEPT ![b][k] = latest[b]]
  BY BurstCases
<1>2. cBurst.sent \in 0..(Beats - 1) /\ k \in BeatNo
  BY <1>1, VersionsTyped DEF Bursts, AckBursts, RelBursts
<1>3. b \in Cacheable /\ perm[b] = "TRUNK" /\ line[b] # "D"
  BY <1>1 DEF Owners
<1>4. \A c \in Blocks \ {b} : mem'[c] = mem[c] /\ ~Sending(c)
  BY <1>1, VersionsTyped DEF Sending
<1>5. \A i \in BeatNo : mem'[b][i] = IF i = k THEN latest[b] ELSE mem[b][i]
  BY <1>1, <1>2, VersionsTyped
<1>6. \A i \in BeatNo : i <= k => mem'[b][i] = latest[b]
  <2> SUFFICES ASSUME NEW i \in BeatNo, i <= k, i # k
               PROVE  mem[b][i] = latest[b]
    BY <1>5
  <2>1. i <= cBurst.sent
    BY <1>2, VersionsTyped
  <2> QED BY <1>1, <2>1 DEF Versions
<1>7. k = Beats => \A i \in BeatNo : mem'[b][i] = latest[b]
  BY <1>2, <1>6, VersionsTyped
<1>8. (cBurst' = None /\ k = Beats) \/ (cBurst' # None /\ cBurst'.block = b /\ cBurst'.sent = k)
  BY BurstCases
<1>9. \A c \in Uncached : c \in Blocks \ {b}
  BY <1>3, VersionsTyped
<1>10. DataKept
  <2>1. CASE UNCHANGED <<perm, bch, dQueue, ongoingTlc>>
    BY <1>1, <2>1 DEF DataKept, DMessagesInFlight
  <2>2. CASE dQueue' = Append(dQueue, DMsg("ReleaseAck", RelSrc)) /\ bch' = bch
    BY <1>1, <2>2, ReleaseAckAnswer, VersionsTyped DEF GrantsSame, GrantsKept, GetsGrant, DataKept
  <2>3. CASE k = Beats /\ cBurst.src \in Outside /\ CallAndRelease(cBurst.src)
    <3>1. \A c \in Cacheable : line[c] \in {"N", "B"} =>
            \A i \in BeatNo : mem'[c][i] = latest[c]
      <4> SUFFICES ASSUME NEW c \in Cacheable, line[c] \in {"N", "B"}
                   PROVE  \A i \in BeatNo : mem'[c][i] = latest[c]
        OBVIOUS
      <4>1. CASE c = b
        BY <1>7, <2>3, <4>1
      <4>2. CASE c # b
        BY <1>4, <4>2, VersionsTyped DEF Versions
      <4> QED BY <4>1, <4>2
    <3> HIDE DEF b, k
    <3> QED BY <1>1, <2>3, <3>1, CallData
  <2> QED BY <2>1, <2>2, <2>3, BurstCases
<1> HIDE DEF b, k
<1>11. \A c \in Cacheable : line'[c] # "D" /\ ~Sending(c)' =>
         \A i \in BeatNo : mem'[c][i] = latest'[c]
  <2> SUFFICES ASSUME NEW c \in Cacheable, line'[c] # "D", ~Sending(c)'
               PROVE  \A i \in BeatNo : mem'[c][i] = latest[c]
    BY <1>1
  <2>1. CASE c = b
    <3>1. cBurst' = None
      BY <1>8, <2>1 DEF Sending
    <3> QED BY <1>7, <1>8, <2>1, <3>1
  <2>2. CASE c # b
    BY <1>1, <1>4, <2>2, VersionsTyped DEF Versions
  <2> QED BY <2>1, <2>2
<1>12. cBurst' # None => \A i \in BeatNo :
         i <= cBurst'.sent => mem'[cBurst'.block][i] = latest'[cBurst'.block]
  BY <1>1, <1>6, <1>8
<1>13. \A c \in Uncached : mem'[c][1] >= latest'[c]
  BY <1>1, <1>4, <1>9 DEF Versions
<1>14. aBurst' # None =>
         aBurst'.block \in Uncached /\ mem'[aBurst'.block][1] >= latest'[aBurst'.block] + 1
  BY <1>1, <1>4, <1>9 DEF Versions
<1>15. \A msg \in DMessagesInFlight' :
         msg.op = "GrantData" => \A i \in BeatNo : msg.data[i] = latest'[msg.block]
  BY <1>1, <1>10 DEF Versions, DataKept
<1> QED BY <1>11, <1>12, <1>13, <1>14, <1>15 DEF Versions

LEMMA ProbesVersions ==
  ASSUME IInv, OneAnswer, Misses, Owners, Versions, MemoryTypes',
         ReceiveProbe \/ \E p \in pend : ProbeAck(p) \/ StartProbeAckData(p)
  PROVE  Versions'
<1>1. TypeOK /\ line \in [Blocks -> {"N", "B", "T", "D"}] /\ pend \subseteq Probes
  BY OwnersTyped DEF TypeOK, EngineTypes
<1>2. CASE ReceiveProbe
  <2>1. UNCHANGED <<bch, dQueue, dOut, mem, latest, aBurst, cBurst, line>>
    BY <1>2 DEF ReceiveProbe, FireB
  <2> QED BY <2>1, AllSame, VersionsQuiet DEF GrantsSame
<1>3. ASSUME NEW p \in pend, ProbeAck(p)
      PROVE  Versions'
  <2>1. /\ UNCHANGED <<latest, mshr, gets, aBurst, cBurst, mem, dOut>> /\ cBurst = None
        /\ p \in Probes /\ p.src \in Outside /\ CallAndRelease(p.src)
        /\ line' = [line EXCEPT ![p.block] = Shrink(@, p.cap)[1]] /\ line[p.block] # "D"
    BY <1>3, ProbeAckCases
  <2>2. \A c : ~Sending(c) /\ ~Sending(c)'
    BY <2>1 DEF Sending
  <2>3. DataKept
    <3>1. \A c \in Cacheable : line[c] \in {"N", "B"} =>
            \A i \in BeatNo : mem'[c][i] = latest[c]
      BY <2>1, <2>2 DEF Versions
    <3> QED BY <2>1, <3>1, CallData
  <2>4. \A c \in Cacheable : line'[c] # "D" /\ ~Sending(c)' => line[c] # "D" /\ ~Sending(c)
    BY <1>1, <2>1, <2>2 DEF Cacheable
  <2> QED BY <2>1, <2>3, <2>4, VersionsSame
<1>4. ASSUME NEW p \in pend, StartProbeAckData(p)
      PROVE  Versions'
  <2>1. /\ UNCHANGED <<dQueue, dOut, mem, latest, aBurst>> /\ cBurst = None
        /\ p \in Probes /\ line' = [line EXCEPT ![p.block] = Shrink(@, p.cap)[1]]
        /\ line[p.block] = "D"
        /\ cBurst' = [op |-> "ProbeAckData", src |-> p.src, block |-> p.block,
                      report |-> Shrink(line[p.block], p.cap)[2], sent |-> 0]
    BY <1>1, <1>4 DEF StartProbeAckData, MayAnswer, aVars
  <2>2. DataKept
    BY <2>1 DEF DataKept, DMessagesInFlight
  <2>3. cBurst' # None
    <3>1. Shrink(line[p.block], p.cap)[2] \in {"TtoT", "TtoB", "TtoN"}
      BY <2>1, ShrinkLowers DEF Probes
    <3>2. cBurst' \in AckBursts
      BY <2>1, <3>1, BeatsAssumption DEF AckBursts, Probes
    <3> QED BY <3>2, NoMessageAssumption DEF Bursts
  <2>4. \A c \in Cacheable : line'[c] # "D" /\ ~Sending(c)' => line[c] # "D" /\ ~Sending(c)
    <3>1. \A c : Sending(c)' <=> c = p.block
      BY <2>1, <2>3 DEF Sending
    <3>2. \A c \in Blocks \ {p.block} : line'[c] = line[c] /\ ~Sending(c)
      BY <1>1, <2>1 DEF Sending
    <3> QED BY <3>1, <3>2 DEF Cacheable
  <2> QED BY <2>1, <2>2, <2>4, VersionsSame
<1> QED BY <1>2, <1>3, <1>4

\* the grant of a block without data is the store for which it was asked
LEMMA ReceiveDVersions ==
  ASSUME IInv, OneAnswer, Misses, Owners, Versions, ReceiveD
  PROVE  Versions'
<1> DEFINE msg == dOut.msg
           b   == msg.block
<1>1. /\ dOut # None /\ msg \in DMessagesInFlight
      /\ DMessagesInFlight' \subseteq DMessagesInFlight
      /\ UNCHANGED <<mem, aBurst, cBurst>>
      /\ UNCHANGED <<line, latest>> \/ (Ended(msg) /\ GetsGrant(msg))
  BY ReceiveDCases DEF Ended
<1>2. DataKept /\ \A c : Sending(c)' = Sending(c)
  BY <1>1 DEF DataKept, Sending
<1>3. CASE UNCHANGED <<line, latest>>
  BY <1>1, <1>2, <1>3, VersionsSame
<1>4. CASE Ended(msg) /\ GetsGrant(msg)
  <2>1. /\ b \in Blocks /\ b \in Cacheable /\ line[b] \in {"N", "B"}
        /\ msg.src \in MSHRs /\ mshr[msg.src] # None /\ mshr[msg.src].block = b
    BY <1>1, <1>4, GrantsMissing
  <2>2. /\ line' = [line EXCEPT ![b] = IF msg.op = "Grant" THEN "D"
                                       ELSE IF msg.param = "toT" THEN "T" ELSE "B"]
        /\ latest' = IF msg.op = "Grant" THEN [latest EXCEPT ![b] = @ + 1] ELSE latest
        /\ \A x \in DMessagesInFlight' : x.src = RelSrc \/ x.src # msg.src
    BY <1>4 DEF Ended
  <2>3. \A c \in Blocks \ {b} : line'[c] = line[c] /\ latest'[c] = latest[c]
    BY <2>1, <2>2, OwnersTyped, VersionsTyped
  <2>4. line'[b] = "D" \/ latest'[b] = latest[b]
    BY <2>1, <2>2, OwnersTyped, VersionsTyped
  <2>5. cBurst # None => cBurst.block \in Blocks \ {b}
    BY <1>1, <1>4, OwnersTyped DEF Owners
  <2>6. \A x \in DMessagesInFlight' : x.op = "GrantData" => x.block \in Blocks \ {b}
    <3> SUFFICES ASSUME NEW x \in DMessagesInFlight', x.op = "GrantData"
                 PROVE  x.block \in Blocks \ {b}
      OBVIOUS
    <3>1. GetsGrant(x) /\ x \in DMessagesInFlight
      BY <1>1 DEF GetsGrant
    <3>2. /\ x.src \in MSHRs /\ mshr[x.src] # None /\ mshr[x.src].block = x.block
          /\ x.block \in Blocks
      BY <3>1, GrantsMissing
    <3>3. x.src # msg.src
      BY <2>2, <3>2, NoneAssumption
    <3> QED BY <2>1, <3>2, <3>3 DEF Misses
  <2> HIDE DEF b, msg
  <2>7. \A c \in Cacheable : line'[c] # "D" /\ ~Sending(c)' =>
          \A i \in BeatNo : mem'[c][i] = latest'[c]
    <3> SUFFICES ASSUME NEW c \in Cacheable, line'[c] # "D", ~Sending(c)'
                 PROVE  \A i \in BeatNo : mem[c][i] = latest'[c]
      BY <1>1
    <3>1. line[c] # "D" /\ ~Sending(c) /\ latest'[c] = latest[c]
      BY <1>2, <2>1, <2>3, <2>4, VersionsTyped
    <3> QED BY <3>1 DEF Versions
  <2>8. cBurst' # None => \A i \in BeatNo :
          i <= cBurst'.sent => mem'[cBurst'.block][i] = latest'[cBurst'.block]
    BY <1>1, <2>3, <2>5 DEF Versions
  <2>9. \A c \in Uncached : c \in Blocks \ {b}
    BY <2>1, VersionsTyped
  <2>10. \A c \in Uncached : mem'[c][1] >= latest'[c]
    BY <1>1, <2>3, <2>9 DEF Versions
  <2>11. aBurst' # None =>
           aBurst'.block \in Uncached /\ mem'[aBurst'.block][1] >= latest'[aBurst'.block] + 1
    BY <1>1, <2>3, <2>9 DEF Versions
  <2>12. \A x \in DMessagesInFlight' :
           x.op = "GrantData" => \A i \in BeatNo : x.data[i] = latest'[x.block]
    BY <1>1, <2>3, <2>6 DEF Versions
  <2> QED BY <2>7, <2>8, <2>10, <2>11, <2>12 DEF Versions
<1> QED BY <1>1, <1>3, <1>4

LEMMA GrantAckVersions ==
  ASSUME IInv, Versions, NEW m \in MSHRs, GrantAck(m)
  PROVE  Versions'
<1>1. UNCHANGED <<bch, dQueue, dOut, mem, latest, aBurst, cBurst, line>>
  BY DEF GrantAck, HandleGrantAck
<1> QED BY <1>1, AllSame, VersionsQuiet DEF GrantsSame

LEMMA AdapterVersions ==
  ASSUME IInv, OneAnswer, Versions,
         \/ Adapter \/ (\E b \in Tohosts : HostProbe(b)) \/ HostStop \/ UNCHANGED vars
  PROVE  Versions'
<1>1. CASE DriveD
  <2>1. UNCHANGED <<mem, latest, aBurst, cBurst, line>>
    BY <1>1 DEF DriveD, PopD, tVars
  <2> QED BY <1>1, <2>1, DriveDAnswer, VersionsQuiet
<1>2. CASE DriveB
  <2>1. UNCHANGED <<mem, latest, aBurst, cBurst, line>>
    BY <1>2 DEF DriveB, PopB, tVars
  <2> QED BY <1>2, <2>1, DriveBAnswer, VersionsQuiet DEF GrantsSame
<1>3. CASE Retrieve
  <2>1. UNCHANGED <<mem, latest, aBurst, cBurst, line>>
    BY <1>3 DEF Retrieve, DataRetriever
  <2> QED BY <1>3, <2>1, RetrieveAnswer, VersionsQuiet DEF GrantsSame
<1>4. CASE ProbeTohost
  <2>1. UNCHANGED <<mem, latest, aBurst, cBurst, line>>
    BY <1>4 DEF ProbeTohost, HostInterface, tVars
  <2> QED BY <1>4, <2>1, ProbeTohostAnswer, VersionsQuiet DEF GrantsSame
<1>5. CASE (\E b \in Tohosts : HostProbe(b)) \/ HostStop \/ UNCHANGED vars
  <2>1. UNCHANGED <<bch, dQueue, dOut, mem, latest, aBurst, cBurst, line>>
    BY <1>5 DEF HostProbe, ProbeBlock, HostStop, StopAdapter, tVars, vars, aVars
  <2> QED BY <2>1, AllSame, VersionsQuiet DEF GrantsSame
<1> QED BY <1>1, <1>2, <1>3, <1>4, <1>5 DEF Adapter

----------------------------------------------------------------------------
(* The probes that a Get waits for.                                        *)

LEMMA PlacedSame ==
  ASSUME IInv, NEW W, Placed(W), AllFit(bch', W),
         \A t \in Outside : bch'.callback[t] = bch.callback[t],
         UNCHANGED <<bOut, pend, cBurst>>
  PROVE  Placed(W)'
<1>1. /\ \A p \in pend : p.src \in Outside
      /\ bOut # None => bOut.src \in Outside
      /\ cBurst # None /\ cBurst.src # RelSrc => cBurst.src \in Outside
  BY DEF Outside, OnPort, InTile, InAnswer
<1> QED BY <1>1 DEF Placed

LEMMA PlacedFrame ==
  ASSUME NEW W, Placed(W), UNCHANGED <<bch, bOut, pend, cBurst>>
  PROVE  Placed(W)'
BY DEF Placed

\* what leaves out none of W leaves out none of a part of it
LEMMA PlacedLess ==
  ASSUME NEW W, NEW V \in SUBSET W, Placed(W)'
  PROVE  Placed(V)'
<1>1. \A cb, b : Fits(cb, b, W) => Fits(cb, b, V)
  BY DEF Fits
<1> QED BY <1>1 DEF Placed, AllFit

\* a request whose callback fits the block it probes
LEMMA PlacedRequest ==
  ASSUME IInv, OneAnswer, NEW W, Placed(W), NEW rq \in Requests, Unasked(bch, rq),
         Fits(rq.then, rq.block, W), bch' \in RetrieveBlock(bch, rq),
         UNCHANGED <<bOut, pend, cBurst>>
  PROVE  Placed(W)'
<1>1. /\ AllFit(bch', W)
      /\ \A t \in Outside : bch'.callback[t] = bch.callback[t]
  BY RequestMade DEF Placed, OneAnswer
<1> QED BY <1>1, PlacedSame

LEMMA UncachingPlaced ==
  ASSUME IInv, OneAnswer, NEW W, Placed(W), Uncaching
  PROVE  Placed(W)'
<1>1. ASSUME NEW g \in GSrcs, NEW b \in Blocks, Get(g, b)
      PROVE  Placed(W)'
  <2> DEFINE then == [kind |-> "AccessAckData_cb", src |-> g, block |-> b]
             rq   == Request(b, "toT", then)
  <2>1. UNCHANGED <<bOut, pend, cBurst>> /\ (bch' = bch \/ bch' \in RetrieveBlock(bch, rq))
    BY <1>1 DEF Get, HandleGet
  <2>2. rq \in Requests /\ rq.then = then /\ Fits(rq.then, rq.block, W)
    BY DEF Request, Requests, Pending, Caps, Fits, Reads
  <2>3. g \notin AskedIn(bch)
    <3>1. gets[g] = None /\ Expect(g, "Get", b) /\ mshr' = mshr /\ TypeOK
      BY <1>1 DEF Get, Free, IInv
    <3>2. g \notin Busy
      BY <3>1, BusyWithGet
    <3> QED BY <3>2 DEF OneAnswer
  <2>4. Unasked(bch, rq)
    BY <2>2, <2>3 DEF Unasked
  <2> HIDE DEF rq, then
  <2> QED BY <2>1, <2>2, <2>4, PlacedRequest, PlacedFrame
<1>2. CASE \/ \E g \in GSrcs, b \in Blocks : Intent(g, b)
           \/ \E g \in GSrcs, b \in Uncached : Atomic(g, b) \/ PutFirst(g, b)
           \/ PutBeat
  <2>1. UNCHANGED <<bch, bOut, pend, cBurst>>
    BY <1>2 DEF Intent, HandleIntent, Atomic, HandleAtomic, PutFirst, PutBeat, HandlePut
  <2> QED BY <2>1, PlacedFrame
<1> QED BY <1>1, <1>2 DEF Uncaching

LEMMA AcquirePlaced ==
  ASSUME IInv, NEW W, Placed(W), NEW m \in MSHRs, NEW b \in Cacheable, NEW sink,
         Acquired(m, b, sink)
  PROVE  Placed(W)'
<1>1. UNCHANGED <<bOut, pend, cBurst>>
  BY DEF Acquired
<1>2. bch' = bch \/ (/\ AllFit(bch, W) => AllFit(bch', W)
                     /\ \A t \in Outside : bch'.callback[t] = bch.callback[t])
  BY DEF Acquired, GrantPushed, GrantAsked
<1> QED BY <1>1, <1>2, PlacedSame, PlacedFrame DEF Placed

LEMMA CachePlaced ==
  ASSUME IInv, NEW W, Placed(W), NEW b \in Cacheable,
         Store(b) \/ ReleaseClean(b) \/ StartReleaseData(b)
  PROVE  Placed(W)'
<1>1. UNCHANGED <<bch, bOut, pend>> /\ (cBurst' = cBurst \/ cBurst'.src = RelSrc)
  BY DEF Store, aVars, ReleaseClean, HandleRelease, StartReleaseData
<1> QED BY <1>1 DEF Placed

LEMMA SourcesApart ==
  ASSUME IInv
  PROVE  /\ OnPort \cap InTile = {} /\ OnPort \cap InAnswer = {} /\ InTile \cap InAnswer = {}
         /\ \A p, q \in pend : p.src = q.src => p = q
         /\ \A p \in pend : p.src \in InTile
         /\ bOut # None => bOut.src \in OnPort
         /\ cBurst # None /\ cBurst.src # RelSrc => cBurst.src \in InAnswer
         /\ Outside = OnPort \cup InTile \cup InAnswer
BY DEF IInv, ProbeSources, OnPort, InTile, InAnswer, Outside

LEMMA ReceivePlaced ==
  ASSUME NEW W, Placed(W), ReceiveProbe \/ \E p \in pend : StartProbeAckData(p)
  PROVE  Placed(W)'
<1>1. CASE ReceiveProbe
  <2>1. bOut # None /\ bOut' = None /\ pend' = pend \cup {bOut} /\ UNCHANGED <<bch, cBurst>>
    BY <1>1 DEF ReceiveProbe, FireB
  <2> QED BY <2>1 DEF Placed
<1>2. ASSUME NEW p \in pend, StartProbeAckData(p)
      PROVE  Placed(W)'
  <2>1. /\ UNCHANGED <<bch, bOut>> /\ pend' = pend \ {p}
        /\ cBurst'.src = p.src /\ cBurst'.block = p.block
    BY <1>2 DEF StartProbeAckData, aVars
  <2> QED BY <2>1 DEF Placed
<1> QED BY <1>1, <1>2

\* the last beat of an answer takes its block off the list of a chain
LEMMA BurstPlaced ==
  ASSUME IInv, OneAnswer, MemoryTypes', BurstBeat, NEW W, Placed(W),
         NEW b, b = cBurst.block
  PROVE  /\ cBurst' # None => Placed(W)'
         /\ cBurst' = None => Placed(W \ {b})'
<1>1. /\ cBurst # None /\ UNCHANGED <<mshr, gets, aBurst, dOut, pend, bOut>>
      /\ \/ /\ cBurst' # None /\ cBurst'.block = cBurst.block /\ cBurst'.src = cBurst.src
            /\ bch' = bch
         \/ cBurst' = None /\ bch' = bch
         \/ /\ cBurst' = None /\ cBurst.src # RelSrc /\ cBurst.src \in Outside
            /\ CallAndRelease(cBurst.src)
  BY BurstCases
<1>2. CASE bch' = bch /\ cBurst' # None
  BY <1>1, <1>2 DEF Placed
<1>3. CASE bch' = bch /\ cBurst' = None
  <2>1. Placed(W)'
    BY <1>1, <1>3 DEF Placed
  <2> QED BY <1>3, <2>1, PlacedLess
<1>4. CASE cBurst' = None /\ cBurst.src # RelSrc /\ cBurst.src \in Outside /\ CallAndRelease(cBurst.src)
  <2>1. /\ \A t \in Outside \ {cBurst.src} : bch'.callback[t] = bch.callback[t]
        /\ \A V, c : AllFit(bch, V) /\ Fits(bch.callback[cBurst.src], c, V)
                     => AllFit(bch', V \ {c})
    BY <1>1, <1>4, CallAnswer
  <2>2. /\ \A p \in pend : p.src \in Outside \ {cBurst.src}
        /\ bOut # None => bOut.src \in Outside \ {cBurst.src}
    BY <1>1, <1>4, SourcesApart
  <2>3. AllFit(bch', W \ {b})
    BY <1>1, <1>4, <2>1 DEF Placed
  <2> QED BY <1>1, <1>4, <2>1, <2>2, <2>3 DEF Placed, Fits
<1> QED BY <1>1, <1>2, <1>3, <1>4

LEMMA ProbeAckPlaced ==
  ASSUME IInv, OneAnswer, MemoryTypes', NEW p \in pend, ProbeAck(p), NEW W, Placed(W)
  PROVE  Placed(W \ {p.block})'
<1>1. /\ UNCHANGED <<mshr, gets, aBurst, dOut, bOut, cBurst>> /\ cBurst = None
      /\ p.src \in Outside /\ CallAndRelease(p.src) /\ pend' = pend \ {p}
  BY ProbeAckCases
<1>2. /\ \A t \in Outside \ {p.src} : bch'.callback[t] = bch.callback[t]
      /\ \A V, c : AllFit(bch, V) /\ Fits(bch.callback[p.src], c, V) => AllFit(bch', V \ {c})
  BY <1>1, CallAnswer
<1>3. /\ \A q \in pend' : q.src \in Outside \ {p.src} /\ q \in pend
      /\ bOut # None => bOut.src \in Outside \ {p.src}
  BY <1>1, SourcesApart
<1>4. AllFit(bch', W \ {p.block})
  BY <1>2 DEF Placed
<1> QED BY <1>1, <1>2, <1>3, <1>4 DEF Placed, Fits

LEMMA ProbesProbed ==
  ASSUME IInv, OneAnswer, Probed, MemoryTypes',
         \/ ReceiveProbe \/ BurstBeat
         \/ \E p \in pend : ProbeAck(p) \/ StartProbeAckData(p)
  PROVE  Probed'
<1>1. Placed({})
  BY DEF Probed
<1>2. CASE ReceiveProbe \/ \E p \in pend : StartProbeAckData(p)
  BY <1>1, <1>2, ReceivePlaced DEF Probed
<1>3. CASE BurstBeat
  <2> PICK b : b = cBurst.block
    OBVIOUS
  <2>1. Placed({})' \/ Placed({} \ {b})'
    BY <1>1, <1>3, BurstPlaced
  <2>2. {} \ {b} = {}
    OBVIOUS
  <2> QED BY <2>1, <2>2 DEF Probed
<1>4. ASSUME NEW p \in pend, ProbeAck(p)
      PROVE  Probed'
  <2>1. Placed({} \ {p.block})'
    BY <1>1, <1>4, ProbeAckPlaced
  <2>2. {} \ {p.block} = {}
    OBVIOUS
  <2> QED BY <2>1, <2>2 DEF Probed
<1> QED BY <1>2, <1>3, <1>4

LEMMA QuietPlaced ==
  ASSUME NEW W, Placed(W), ReceiveD \/ \E m \in MSHRs : GrantAck(m)
  PROVE  Placed(W)'
<1>1. UNCHANGED <<bch, bOut, pend, cBurst>>
  BY DEF ReceiveD, FireD, GrantAck, HandleGrantAck
<1> QED BY <1>1, PlacedFrame

\* the retriever's chain goes over every block that is TRUNK
LEMMA RetrievePlaced ==
  ASSUME IInv, OneAnswer, NEW W, Placed(W), \A b \in W : b \in Blocks /\ perm[b] = "TRUNK",
         Retrieve
  PROVE  Placed(W)'
<1> DEFINE trunk == {b \in Blocks : perm[b] = "TRUNK"}
           rq(b) == Request(b, "toN", [kind |-> "probe_blocks", rest |-> trunk \ {b}])
<1>1. /\ UNCHANGED <<bOut, pend, cBurst>>
      /\ bch' = bch \/ \E b \in trunk : bch' \in RetrieveBlock(bch, rq(b))
  BY DEF Retrieve, DataRetriever, ProbeNext
<1>2. \A b \in trunk : rq(b) \in Requests /\ ~Replies(rq(b).then) /\ Fits(rq(b).then, rq(b).block, W)
  BY DEF Request, Requests, Pending, Caps, Replies, Fits, Reads
<1> HIDE DEF rq
<1>3. \A b \in trunk : Unasked(bch, rq(b))
  BY <1>2 DEF Unasked
<1> QED BY <1>1, <1>2, <1>3, PlacedRequest, PlacedFrame

LEMMA AdapterPlaced ==
  ASSUME IInv, OneAnswer, NEW W, Placed(W),
         \/ DriveB \/ ProbeTohost \/ DriveD
         \/ (\E b \in Tohosts : HostProbe(b)) \/ HostStop \/ UNCHANGED vars
  PROVE  Placed(W)'
<1>1. CASE DriveB
  <2>1. /\ bch.queue # <<>> /\ bOut' = Head(bch.queue) /\ UNCHANGED <<pend, cBurst>>
        /\ bch' = [bch EXCEPT !.queue = Tail(@)] /\ bch \in Engines
    BY <1>1, EngineFacts DEF DriveB, PopB, tVars
  <2>2. /\ bch'.waiting = bch.waiting /\ bch'.callback = bch.callback
        /\ bch'.queue = Tail(bch.queue)
    BY <2>1 DEF Engines
  <2>3. /\ DOMAIN bch.queue = 1..Len(bch.queue) /\ Len(bch.queue) \in Nat \ {0}
        /\ Head(bch.queue) = bch.queue[1] /\ DOMAIN bch'.queue = 1..(Len(bch.queue) - 1)
        /\ \A i \in 1..(Len(bch.queue) - 1) : bch'.queue[i] = bch.queue[i + 1]
    BY <2>1, <2>2, HeadTailProperties, EmptySeq DEF Engines
  <2>4. /\ 1 \in DOMAIN bch.queue
        /\ \A i \in DOMAIN bch'.queue : i + 1 \in DOMAIN bch.queue /\ bch'.queue[i] = bch.queue[i + 1]
    BY <2>3
  <2>5. AllFit(bch', W)
    BY <2>2, <2>4 DEF Placed, AllFit
  <2>6. Fits(bch'.callback[bOut'.src], bOut'.block, W)
    BY <2>1, <2>2, <2>3, <2>4 DEF Placed, AllFit
  <2> QED BY <2>1, <2>2, <2>5, <2>6 DEF Placed
<1>2. CASE ProbeTohost
  <2> DEFINE rq == Request(probeAddr, "toN", [kind |-> "enableProbe"])
  <2>1. bch' \in RetrieveBlock(bch, rq) /\ probe /\ UNCHANGED <<bOut, pend, cBurst>>
    BY <1>2 DEF ProbeTohost, HostInterface, HostProbes, tVars
  <2>2. probeAddr \in Blocks
    BY <2>1 DEF IInv, TypeOK, HostTypes
  <2>3. rq \in Requests /\ ~Replies(rq.then) /\ Fits(rq.then, rq.block, W)
    BY <2>2 DEF Request, Requests, Pending, Caps, Replies, Fits, Reads
  <2> HIDE DEF rq
  <2>4. Unasked(bch, rq)
    BY <2>3 DEF Unasked
  <2> QED BY <2>1, <2>3, <2>4, PlacedRequest
<1>3. CASE DriveD \/ (\E b \in Tohosts : HostProbe(b)) \/ HostStop \/ UNCHANGED vars
  <2>1. UNCHANGED <<bch, bOut, pend, cBurst>>
    BY <1>3 DEF DriveD, PopD, HostProbe, ProbeBlock, HostStop, StopAdapter, tVars, vars, aVars
  <2> QED BY <2>1, PlacedFrame
<1> QED BY <1>1, <1>2, <1>3

LEMMA AdapterProbed ==
  ASSUME IInv, OneAnswer, Probed,
         \/ Adapter \/ (\E b \in Tohosts : HostProbe(b)) \/ HostStop \/ UNCHANGED vars
  PROVE  Probed'
<1>1. Placed({})
  BY DEF Probed
<1> QED BY <1>1, AdapterPlaced, RetrievePlaced DEF Adapter, Probed

----------------------------------------------------------------------------
(* Requests of the uncached master.                                        *)

LEMMA RequestedTyped ==
  ASSUME IInv
  PROVE  /\ TypeOK /\ latest \in [Blocks -> Nat] /\ mem \in [Blocks -> [BeatNo -> Nat]]
         /\ 1 \in BeatNo /\ Cacheable \subseteq Blocks /\ Uncached = Blocks \ Cacheable
         /\ gets \in [GSrcs -> {None} \cup [op : {"Get", "Put", "Atomic", "Intent"},
                                            block : Blocks, ver : Nat]]
         /\ \A r \in [op : {"Get", "Put", "Atomic", "Intent"}, block : Blocks, ver : Nat] :
              r # None /\ r.ver \in Nat
BY BeatsAssumption, SourcesAssumption, NoRecordAssumption
   DEF IInv, TypeOK, TileTypes, MemoryTypes, BeatNo, Cacheable

\* the sources of X get their answer in this step; versions only grow
LEMMA RequestedKept ==
  ASSUME IInv, OneAnswer, Requested, NEW X,
         \A b \in Blocks : latest'[b] \in Nat /\ latest'[b] >= latest[b],
         \A g \in GSrcs \ X : gets[g] # None => gets'[g] = gets[g],
         \A cb \in CbsOf(bch') : cb.kind = "AccessAckData_cb" =>
           (cb \in CbsOf(bch) /\ cb.src \notin X) \/ ReadsFor(cb)',
         \A msg \in DMessagesInFlight' : msg.op = "AccessAckData" =>
           (msg \in DMessagesInFlight /\ msg.src \notin X) \/ Fresh(msg)'
  PROVE  Requested'
<1>1. ASSUME NEW cb \in CbsOf(bch'), cb.kind = "AccessAckData_cb"
      PROVE  ReadsFor(cb)'
  <2>1. CASE cb \in CbsOf(bch) /\ cb.src \notin X
    <3>1. ReadsFor(cb) /\ cb.src \in GSrcs /\ cb.block \in Blocks
      BY <1>1, <2>1, SourcesBusy DEF Requested
    <3>2. gets'[cb.src] = gets[cb.src] /\ gets[cb.src] # None
      BY <2>1, <3>1 DEF ReadsFor
    <3>3. gets[cb.src].ver \in Nat /\ latest[cb.block] \in Nat
      BY <3>1, <3>2, RequestedTyped
    <3> QED BY <3>1, <3>2, <3>3 DEF ReadsFor
  <2> QED BY <1>1, <2>1
<1>2. ASSUME NEW msg \in DMessagesInFlight', msg.op = "AccessAckData"
      PROVE  Fresh(msg)'
  <2>1. CASE msg \in DMessagesInFlight /\ msg.src \notin X
    <3>1. Fresh(msg)
      BY <1>2, <2>1 DEF Requested
    <3>2. gets'[msg.src] = gets[msg.src]
      BY <2>1, <3>1 DEF Fresh
    <3> QED BY <3>1, <3>2 DEF Fresh
  <2> QED BY <1>2, <2>1
<1> QED BY <1>1, <1>2 DEF Requested

LEMMA RequestedSame ==
  ASSUME IInv, OneAnswer, Requested, ReadsSame,
         \A b \in Blocks : latest'[b] \in Nat /\ latest'[b] >= latest[b],
         \A g \in GSrcs : gets[g] # None => gets'[g] = gets[g]
  PROVE  Requested'
<1>1. /\ \A cb \in CbsOf(bch') : cb.kind = "AccessAckData_cb" => cb \in CbsOf(bch)
      /\ \A msg \in DMessagesInFlight' : msg.op = "AccessAckData" => msg \in DMessagesInFlight
  BY DEF ReadsSame, AnswersKept, ReadCbsKept
<1> DEFINE X == {}
<1>2. \A g \in GSrcs \ X : gets[g] # None => gets'[g] = gets[g]
  OBVIOUS
<1>3. /\ \A cb \in CbsOf(bch') : cb.kind = "AccessAckData_cb" =>
           (cb \in CbsOf(bch) /\ cb.src \notin X) \/ ReadsFor(cb)'
      /\ \A msg \in DMessagesInFlight' : msg.op = "AccessAckData" =>
           (msg \in DMessagesInFlight /\ msg.src \notin X) \/ Fresh(msg)'
  BY <1>1
<1> HIDE DEF X
<1> QED BY <1>2, <1>3, RequestedKept

LEMMA RequestedFrame ==
  ASSUME IInv, OneAnswer, Requested, ReadsSame, UNCHANGED <<latest, gets>>
  PROVE  Requested'
<1>1. \A b \in Blocks : latest'[b] \in Nat /\ latest'[b] >= latest[b]
  BY RequestedTyped
<1> QED BY <1>1, RequestedSame

\* a new request: the others keep what they wait for
LEMMA RequestedNew ==
  ASSUME IInv, NEW g \in GSrcs, NEW b \in Blocks,
         NEW op \in {"Get", "Put", "Atomic", "Intent"}, gets[g] = None, Expect(g, op, b)
  PROVE  /\ \A h \in GSrcs : gets[h] # None => gets'[h] = gets[h]
         /\ gets'[g] # None /\ gets'[g].block = b /\ gets'[g].ver = latest[b]
         /\ latest[b] \in Nat
<1>1. [op |-> op, block |-> b, ver |-> latest[b]] # None
  BY RequestedTyped
<1> QED BY <1>1, RequestedTyped DEF Expect

\* one new message or callback for g
LEMMA RequestedMore ==
  ASSUME IInv, OneAnswer, Requested,
         \A b \in Blocks : latest'[b] \in Nat /\ latest'[b] >= latest[b],
         \A g \in GSrcs : gets[g] # None => gets'[g] = gets[g],
         NEW cb, NEW msg,
         CbsOf(bch') \subseteq CbsOf(bch) \cup {cb},
         cb \notin CbsOf(bch) /\ cb.kind = "AccessAckData_cb" => ReadsFor(cb)',
         DMessagesInFlight' \subseteq DMessagesInFlight \cup {msg},
         msg \notin DMessagesInFlight /\ msg.op = "AccessAckData" => Fresh(msg)'
  PROVE  Requested'
<1> DEFINE X == {}
<1>1. \A g \in GSrcs \ X : gets[g] # None => gets'[g] = gets[g]
  OBVIOUS
<1>2. \A c \in CbsOf(bch') : c.kind = "AccessAckData_cb" =>
        (c \in CbsOf(bch) /\ c.src \notin X) \/ ReadsFor(c)'
  OBVIOUS
<1>3. \A m \in DMessagesInFlight' : m.op = "AccessAckData" =>
        (m \in DMessagesInFlight /\ m.src \notin X) \/ Fresh(m)'
  OBVIOUS
<1> HIDE DEF X
<1> QED BY <1>1, <1>2, <1>3, RequestedKept

\* memory is current for a Get that is answered at once: nobody owns the block
LEMMA TipIsCurrent ==
  ASSUME IInv, Owners, Versions, NEW b \in Blocks, IsTip(b)
  PROVE  /\ b \in Cacheable => \A i \in BeatNo : mem[b][i] = latest[b]
         /\ mem[b][1] >= latest[b] /\ mem[b][1] \in Nat
<1>1. ASSUME b \in Cacheable
      PROVE  \A i \in BeatNo : mem[b][i] = latest[b]
  <2>1. line[b] # "D" /\ ~Sending(b)
    BY DEF Owners, IsTip, Sending
  <2> QED BY <1>1, <2>1 DEF Versions
<1>2. mem[b][1] \in Nat
  BY RequestedTyped
<1>3. mem[b][1] >= latest[b]
  BY <1>1, RequestedTyped DEF Versions
<1> QED BY <1>1, <1>2, <1>3

\* one new message
LEMMA RequestedAnswered ==
  ASSUME IInv, OneAnswer, Requested, bch' = bch,
         \A b \in Blocks : latest'[b] \in Nat /\ latest'[b] >= latest[b],
         \A g \in GSrcs : gets[g] # None => gets'[g] = gets[g],
         NEW msg, DMessagesInFlight' \subseteq DMessagesInFlight \cup {msg}, Fresh(msg)'
  PROVE  Requested'
<1>1. NoCallback.kind # "AccessAckData_cb" /\ CbsOf(bch') \subseteq CbsOf(bch) \cup {NoCallback}
  BY DEF NoCallback
<1> QED BY <1>1, RequestedMore

LEMMA GetRequested ==
  ASSUME IInv, OneAnswer, Owners, Versions, Requested,
         NEW g \in GSrcs, NEW b \in Blocks, Get(g, b)
  PROVE  Requested'
<1>1. /\ gets[g] = None /\ Expect(g, "Get", b) /\ HandleGet(g, b) /\ mshr' = mshr
      /\ UNCHANGED <<latest, dOut>>
  BY DEF Get, Free, HandleGet
<1>2. /\ \A h \in GSrcs : gets[h] # None => gets'[h] = gets[h]
      /\ gets'[g] # None /\ gets'[g].block = b /\ gets'[g].ver = latest[b] /\ latest[b] \in Nat
  BY <1>1, RequestedNew
<1>3. \A c \in Blocks : latest'[c] \in Nat /\ latest'[c] >= latest[c]
  BY <1>1, RequestedTyped
<1>4. CASE IsTip(b)
  <2> PICK msg : msg = AccessAckData(g, DataOf(mem, b))
    OBVIOUS
  <2>1. msg \in DMessages /\ dQueue' = Append(dQueue, msg) /\ bch' = bch
    BY <1>1, <1>4, RequestedTyped, DataTyped, AckDataTyped DEF HandleGet
  <2>2. DMessagesInFlight' \subseteq DMessagesInFlight \cup {msg}
    BY <1>1, <2>1, RequestedTyped, DataPushed
  <2>3. Fresh(msg)'
    <3>1. /\ msg.src = g /\ \A i \in BeatNo : msg.data[i] = mem[b][i]
      BY DEF AccessAckData, DMsg, DataOf
    <3>2. msg.data[1] = mem[b][1]
      BY <3>1, RequestedTyped
    <3> QED BY <1>2, <1>4, <3>1, <3>2, TipIsCurrent, RequestedTyped DEF Fresh
  <2> QED BY <1>2, <1>3, <2>1, <2>2, <2>3, RequestedAnswered
<1>5. CASE ~IsTip(b)
  <2> DEFINE then == [kind |-> "AccessAckData_cb", src |-> g, block |-> b]
             rq   == Request(b, "toT", then)
  <2>1. rq \in Requests /\ rq.then = then
    BY DEF Request, Requests, Pending, Caps
  <2>2. bch' \in RetrieveBlock(bch, rq) /\ dQueue' = dQueue
    BY <1>1, <1>5 DEF HandleGet
  <2>3. g \notin AskedIn(bch)
    BY <1>1, BusyWithGet, RequestedTyped DEF OneAnswer
  <2>4. Unasked(bch, rq) /\ OncePerSource(bch)
    BY <2>1, <2>3 DEF Unasked, OneAnswer
  <2>5. b \in Cacheable
    BY <1>5 DEF IsTip, Owners
  <2>6. ReadsFor(then)'
    BY <1>1, <1>2, <2>5 DEF ReadsFor
  <2> HIDE DEF rq, then
  <2>7. CbsOf(bch') \subseteq CbsOf(bch) \cup {then}
    BY <2>1, <2>2, <2>4, RequestMade
  <2>8. PICK msg : msg = DMsg("HintAck", g)
    OBVIOUS
  <2>9. DMessagesInFlight' \subseteq DMessagesInFlight \cup {msg} /\ msg.op # "AccessAckData"
    BY <1>1, <2>2, <2>8 DEF DMessagesInFlight, DMsg
  <2> QED BY <1>2, <1>3, <2>6, <2>7, <2>9, RequestedMore
<1> QED BY <1>4, <1>5

LEMMA AtomicRequested ==
  ASSUME IInv, OneAnswer, Versions, Requested, NEW g \in GSrcs, NEW b \in Uncached, Atomic(g, b)
  PROVE  Requested'
<1> PICK msg : msg = AccessAckData(g, <<mem[b][1]>>)
  OBVIOUS
<1>1. /\ gets[g] = None /\ Expect(g, "Atomic", b) /\ dQueue' = Append(dQueue, msg)
      /\ latest' = [latest EXCEPT ![b] = @ + 1] /\ UNCHANGED <<bch, dOut>>
      /\ b \in Blocks /\ b \notin Cacheable
  BY RequestedTyped, SourcesAssumption DEF Atomic, Free, HandleAtomic, Cacheable
<1>2. /\ \A h \in GSrcs : gets[h] # None => gets'[h] = gets[h]
      /\ gets'[g] # None /\ gets'[g].block = b /\ gets'[g].ver = latest[b] /\ latest[b] \in Nat
  BY <1>1, RequestedNew
<1>3. \A c \in Blocks : latest'[c] \in Nat /\ latest'[c] >= latest[c]
  BY <1>1, RequestedTyped
<1>4. mem[b][1] >= latest[b] /\ mem[b][1] \in Nat
  BY <1>1, RequestedTyped DEF Versions
<1>5. <<mem[b][1]>> \in Seq(Nat)
  BY <1>4
<1>6. msg \in DMessages
  BY <1>5, AckDataTyped
<1>7. msg.src = g /\ msg.data[1] = mem[b][1]
  BY DEF AccessAckData, DMsg
<1>8. Fresh(msg)'
  BY <1>1, <1>2, <1>4, <1>7 DEF Fresh
<1>9. DMessagesInFlight' \subseteq DMessagesInFlight \cup {msg}
  BY <1>1, <1>6, RequestedTyped, DataPushed
<1> QED BY <1>1, <1>2, <1>3, <1>8, <1>9, RequestedAnswered

LEMMA UncachingRequested ==
  ASSUME IInv, OneAnswer, Owners, Versions, Requested, Uncaching
  PROVE  Requested'
<1>1. ASSUME NEW g \in GSrcs, NEW b \in Blocks, Intent(g, b)
      PROVE  Requested'
  <2>1. gets[g] = None /\ Expect(g, "Intent", b) /\ latest' = latest
    BY <1>1 DEF Intent, Free
  <2>2. \A h \in GSrcs : gets[h] # None => gets'[h] = gets[h]
    BY <2>1, RequestedNew
  <2>3. \A c \in Blocks : latest'[c] \in Nat /\ latest'[c] >= latest[c]
    BY <2>1, RequestedTyped
  <2> QED BY <1>1, <2>2, <2>3, IntentAnswer, RequestedSame
<1>2. ASSUME NEW g \in GSrcs, NEW b \in Uncached, PutFirst(g, b)
      PROVE  Requested'
  <2>1. /\ gets[g] = None /\ Expect(g, "Put", b) /\ b \in Blocks
        /\ latest' = IF Beats = 1 THEN [latest EXCEPT ![b] = @ + 1] ELSE latest
    BY <1>2, SourcesAssumption DEF PutFirst, Free
  <2>2. \A h \in GSrcs : gets[h] # None => gets'[h] = gets[h]
    BY <2>1, RequestedNew
  <2>3. \A c \in Blocks : latest'[c] \in Nat /\ latest'[c] >= latest[c]
    BY <2>1, RequestedTyped
  <2> QED BY <1>2, <2>2, <2>3, PutFirstAnswer, RequestedSame
<1>3. CASE PutBeat
  <2>1. /\ gets' = gets
        /\ latest' = latest \/ latest' = [latest EXCEPT ![aBurst.block] = @ + 1]
    BY <1>3 DEF PutBeat
  <2>2. \A c \in Blocks : latest'[c] \in Nat /\ latest'[c] >= latest[c]
    BY <2>1, RequestedTyped
  <2> QED BY <1>3, <2>1, <2>2, PutBeatAnswer, RequestedSame
<1> QED BY <1>1, <1>2, <1>3, GetRequested, AtomicRequested DEF Uncaching

\* the reply of a callback reads memory when the block that was probed for it is current
LEMMA CallRequested ==
  ASSUME IInv, OneAnswer, Requested, MemoryTypes', NEW src \in Outside, CallAndRelease(src),
         UNCHANGED <<dOut, aBurst, mshr, gets, latest>>,
         NEW b \in Blocks, Reads(bch.callback[src], b),
         b \in Cacheable => \A i \in BeatNo : mem'[b][i] = latest[b]
  PROVE  Requested'
<1> PICK cb : cb = bch.callback[src]
  OBVIOUS
<1>1. ReadCbsKept /\ cb \in CbsOf(bch)
  BY CallAnswer
<1>2. \A c \in Blocks : latest'[c] \in Nat /\ latest'[c] >= latest[c]
  BY RequestedTyped
<1>3. CASE cb.kind # "AccessAckData_cb"
  <2>1. AnswersKept
    <3>1. CASE cb.kind = "GrantData_cb"
      <4>1. DMessagesInFlight' = DMessagesInFlight \cup {ReplyOf(cb)}
        BY <3>1, CallAnswer DEF Replies
      <4>2. ReplyOf(cb).op # "AccessAckData"
        BY <3>1 DEF ReplyOf, Grant, DMsg
      <4> QED BY <4>1, <4>2 DEF AnswersKept
    <3>2. CASE ~Replies(cb)
      BY <3>2, CallAnswer DEF ReadsSame
    <3> QED BY <1>3, <3>1, <3>2 DEF Replies
  <2>2. ReadsSame
    BY <1>1, <2>1 DEF ReadsSame
  <2> QED BY <2>2, RequestedFrame
<1>4. CASE cb.kind = "AccessAckData_cb"
  <2>1. ReadsFor(cb) /\ cb.block = b /\ cb.src \in GSrcs
    BY <1>1, <1>4, SourcesBusy DEF Requested, Reads
  <2> PICK msg : msg = AccessAckData(cb.src, DataOf(mem', b))
    OBVIOUS
  <2>2. DMessagesInFlight' = DMessagesInFlight \cup {msg}
    <3>1. ReplyOf(cb) = msg
      BY <1>4, <2>1 DEF ReplyOf
    <3> QED BY <1>4, <3>1, CallAnswer DEF Replies
  <2>3. msg.src = cb.src /\ \A i \in BeatNo : msg.data[i] = latest[b]
    <3>1. b \in Cacheable
      BY <2>1 DEF ReadsFor
    <3> QED BY <3>1 DEF AccessAckData, DMsg, DataOf
  <2>4. msg.data[1] = latest[b]
    BY <2>3, RequestedTyped
  <2>5. Fresh(msg)'
    <3>1. gets'[cb.src] = gets[cb.src] /\ gets[cb.src] # None /\ gets[cb.src].ver <= latest[b]
      BY <2>1 DEF ReadsFor
    <3>2. gets[cb.src].ver \in Nat /\ latest[b] \in Nat
      BY <2>1, <3>1, RequestedTyped
    <3>3. msg.data[1] >= gets[cb.src].ver
      BY <2>4, <3>1, <3>2
    <3> QED BY <2>1, <2>3, <2>4, <3>1, <3>3 DEF Fresh
  <2> DEFINE X == {}
  <2>6. \A g \in GSrcs \ X : gets[g] # None => gets'[g] = gets[g]
    OBVIOUS
  <2>7. \A c \in CbsOf(bch') : c.kind = "AccessAckData_cb" =>
          (c \in CbsOf(bch) /\ c.src \notin X) \/ ReadsFor(c)'
    BY <1>1 DEF ReadCbsKept
  <2>8. \A m \in DMessagesInFlight' : m.op = "AccessAckData" =>
          (m \in DMessagesInFlight /\ m.src \notin X) \/ Fresh(m)'
    BY <2>2, <2>5
  <2> HIDE DEF X
  <2> QED BY <1>2, <2>6, <2>7, <2>8, RequestedKept
<1> QED BY <1>3, <1>4

LEMMA BurstRequested ==
  ASSUME IInv, OneAnswer, Misses, Owners, Versions, Probed, Requested, MemoryTypes', BurstBeat
  PROVE  Requested'
<1> PICK b : b = cBurst.block
  OBVIOUS
<1>1. cBurst # None /\ b \in Blocks /\ UNCHANGED <<line, latest, mshr, gets, aBurst, dOut>>
  BY BurstCases
<1>2. CASE UNCHANGED <<perm, bch, dQueue, ongoingTlc>>
  BY <1>1, <1>2, AllSame, RequestedFrame
<1>3. CASE dQueue' = Append(dQueue, DMsg("ReleaseAck", RelSrc)) /\ bch' = bch
  BY <1>1, <1>3, ReleaseAckAnswer, RequestedTyped, RequestedFrame
<1>4. CASE cBurst' = None /\ cBurst.src \in Outside /\ CallAndRelease(cBurst.src) /\ cBurst.src # RelSrc
  <2>1. Reads(bch.callback[cBurst.src], b)
    BY <1>1, <1>4 DEF Probed, Placed, Fits
  <2>2. line'[b] # "D" /\ ~Sending(b)'
    BY <1>1, <1>4 DEF Owners, Sending
  <2>3. b \in Cacheable => \A i \in BeatNo : mem'[b][i] = latest[b]
    BY <1>1, <2>2, BurstVersions DEF Versions
  <2> QED BY <1>1, <1>4, <2>1, <2>3, CallRequested
<1> QED BY <1>2, <1>3, <1>4, BurstCases

LEMMA ProbesRequested ==
  ASSUME IInv, OneAnswer, Misses, Owners, Versions, Probed, Requested, MemoryTypes',
         \/ ReceiveProbe \/ BurstBeat
         \/ \E p \in pend : ProbeAck(p) \/ StartProbeAckData(p)
  PROVE  Requested'
<1>1. CASE ReceiveProbe
  <2>1. UNCHANGED <<bch, dQueue, dOut, latest, gets>>
    BY <1>1 DEF ReceiveProbe, FireB
  <2> QED BY <2>1, AllSame, RequestedFrame
<1>2. ASSUME NEW p \in pend, ProbeAck(p)
      PROVE  Requested'
  <2>1. /\ UNCHANGED <<latest, mshr, gets, aBurst, mem, dOut>> /\ cBurst = None
        /\ p \in Probes /\ p.src \in Outside /\ CallAndRelease(p.src) /\ line[p.block] # "D"
    BY <1>2, ProbeAckCases
  <2>2. p.block \in Blocks /\ Reads(bch.callback[p.src], p.block)
    BY <2>1 DEF Probes, Probed, Placed, Fits
  <2>3. p.block \in Cacheable => \A i \in BeatNo : mem'[p.block][i] = latest[p.block]
    BY <2>1 DEF Versions, Sending
  <2> QED BY <2>1, <2>2, <2>3, CallRequested
<1>3. ASSUME NEW p \in pend, StartProbeAckData(p)
      PROVE  Requested'
  <2>1. UNCHANGED <<bch, dQueue, dOut, latest, gets>>
    BY <1>3 DEF StartProbeAckData, aVars
  <2> QED BY <2>1, AllSame, RequestedFrame
<1> QED BY <1>1, <1>2, <1>3, BurstRequested

LEMMA ReceiveDRequested ==
  ASSUME IInv, OneAnswer, Misses, Requested, ReceiveD
  PROVE  Requested'
<1>1. CASE UNCHANGED <<line, latest, mshr, gets, rel>>
  BY <1>1, ReceiveDAnswer, RequestedFrame
<1>2. CASE Ended(dOut.msg)
  <2> PICK msg : msg = dOut.msg
    OBVIOUS
  <2> DEFINE X == {msg.src}
  <2>1. /\ msg \in DMessagesInFlight /\ DMessagesInFlight' \subseteq DMessagesInFlight
        /\ bch' = bch /\ Ended(msg)
    BY <1>2, ReceiveDCases
  <2>2. \A c \in Blocks : latest'[c] \in Nat /\ latest'[c] >= latest[c]
    <3>1. latest' = latest \/ latest' = [latest EXCEPT ![msg.block] = @ + 1]
      BY <2>1 DEF Ended
    <3> QED BY <3>1, RequestedTyped
  <2>3. \A g \in GSrcs \ X : gets[g] # None => gets'[g] = gets[g]
    BY <2>1 DEF Ended
  <2>4. \A cb \in CbsOf(bch') : cb.kind = "AccessAckData_cb" =>
          (cb \in CbsOf(bch) /\ cb.src \notin X) \/ ReadsFor(cb)'
    BY <2>1, SourcesBusy
  <2>5. \A m \in DMessagesInFlight' : m.op = "AccessAckData" =>
          (m \in DMessagesInFlight /\ m.src \notin X) \/ Fresh(m)'
    <3> SUFFICES ASSUME NEW m \in DMessagesInFlight', m.op = "AccessAckData"
                 PROVE  m \in DMessagesInFlight /\ m.src # msg.src
      OBVIOUS
    <3>1. m.src \in GSrcs
      BY <2>1 DEF Requested, Fresh
    <3>2. m.src # RelSrc
      BY <3>1, NoneAssumption
    <3> QED BY <2>1, <3>2 DEF Ended
  <2> HIDE DEF X
  <2> QED BY <2>2, <2>3, <2>4, <2>5, RequestedKept
<1> QED BY <1>1, <1>2, ReceiveDCases

LEMMA CacheRequested ==
  ASSUME IInv, OneAnswer, Requested, NEW b \in Cacheable,
         Store(b) \/ ReleaseClean(b) \/ StartReleaseData(b)
  PROVE  Requested'
<1>1. CASE Store(b)
  <2>1. /\ UNCHANGED <<bch, dQueue, dOut, gets>> /\ latest' = [latest EXCEPT ![b] = @ + 1]
    BY <1>1 DEF Store, aVars
  <2>2. \A c \in Blocks : latest'[c] \in Nat /\ latest'[c] >= latest[c]
    BY <2>1, RequestedTyped
  <2> QED BY <2>1, <2>2, AllSame, RequestedSame
<1>2. CASE ReleaseClean(b)
  <2>1. /\ dQueue' = Append(dQueue, DMsg("ReleaseAck", RelSrc))
        /\ UNCHANGED <<bch, dOut, aBurst, mshr, gets, latest>>
    BY <1>2 DEF ReleaseClean, HandleRelease
  <2> QED BY <2>1, RequestedTyped, ReleaseAckAnswer, RequestedFrame
<1>3. CASE StartReleaseData(b)
  <2>1. UNCHANGED <<bch, dQueue, dOut, latest, gets>>
    BY <1>3 DEF StartReleaseData, aVars
  <2> QED BY <2>1, AllSame, RequestedFrame
<1> QED BY <1>1, <1>2, <1>3

LEMMA MissesRequested ==
  ASSUME IInv, OneAnswer, Requested,
         \/ \E m \in MSHRs, b \in Cacheable :
              \/ \E grow \in {"NtoB", "NtoT", "BtoT"} : AcquireBlock(m, b, grow)
              \/ AcquirePerm(m, b)
         \/ \E m \in MSHRs : GrantAck(m)
  PROVE  Requested'
<1>1. UNCHANGED <<latest, gets>>
  BY DEF AcquireBlock, AcquirePerm, GrantAck
<1>2. ReadsSame
  BY AcquireBlockAnswer, AcquirePermAnswer, GrantAckAnswer
<1> QED BY <1>1, <1>2, RequestedFrame

LEMMA AdapterRequested ==
  ASSUME IInv, OneAnswer, Requested,
         \/ Adapter \/ (\E b \in Tohosts : HostProbe(b)) \/ HostStop \/ UNCHANGED vars
  PROVE  Requested'
<1>1. CASE DriveD
  BY <1>1, DriveDAnswer, RequestedFrame DEF DriveD, tVars
<1>2. CASE DriveB
  BY <1>2, DriveBAnswer, RequestedFrame DEF DriveB, tVars
<1>3. CASE Retrieve
  BY <1>3, RetrieveAnswer, RequestedFrame DEF Retrieve
<1>4. CASE ProbeTohost
  BY <1>4, ProbeTohostAnswer, RequestedFrame DEF ProbeTohost, tVars
<1>5. CASE (\E b \in Tohosts : HostProbe(b)) \/ HostStop \/ UNCHANGED vars
  <2>1. UNCHANGED <<bch, dQueue, dOut, latest, gets>>
    BY <1>5 DEF HostProbe, ProbeBlock, HostStop, StopAdapter, vars, aVars, tVars
  <2> QED BY <2>1, AllSame, RequestedFrame
<1> QED BY <1>1, <1>2, <1>3, <1>4, <1>5 DEF Adapter

----------------------------------------------------------------------------
(* The invariant.                                                          *)

\* before a test nothing is in flight and memory is zero, as every version is
Unused ==
  /\ bch = IdleProbes /\ dQueue = <<>> /\ dOut = None /\ bOut = None
  /\ mshr = NoMiss /\ gets = NoGet /\ aBurst = None /\ cBurst = None /\ pend = {}
  /\ line = NoLine /\ latest = Zero /\ mem = ZeroMem /\ dFree = Sinks
  /\ \A b \in Blocks : perm[b] # "TRUNK"

LEMMA UnusedData == Unused => DataIInv
<1> SUFFICES ASSUME Unused
             PROVE  DataIInv
  OBVIOUS
<1>1. /\ \A m \in MSHRs : mshr[m] = None
      /\ \A g \in GSrcs : gets[g] = None
      /\ \A b \in Blocks : /\ line[b] = "N" /\ latest[b] = 0
                           /\ \A i \in BeatNo : mem[b][i] = 0
      /\ cBurst = None /\ aBurst = None
  BY DEF Unused, NoMiss, NoGet, NoLine, Zero, ZeroMem
<1>2. /\ \A s \in BSrcs : bch.callback[s] = NoCallback
      /\ bch.waiting = <<>> /\ bch.queue = <<>> /\ dQueue = <<>> /\ dOut = None
  BY DEF Unused, IdleProbes
<1>3. /\ DOMAIN bch.waiting = {} /\ DOMAIN bch.queue = {} /\ DOMAIN dQueue = {}
  BY <1>2
<1>4. /\ CbsOf(bch) \subseteq {NoCallback} /\ DMessagesInFlight = {}
      /\ InQueue = {} /\ OnD = {} /\ Putting = {}
  BY <1>1, <1>2, <1>3 DEF CbsOf, DMessagesInFlight, InQueue, OnD, Putting
<1>5. ~Replies(NoCallback) /\ NoCallback.kind = "none"
  BY DEF Replies, NoCallback
<1>6. OneAnswer
  <2>1. AskedIn(bch) = {}
    BY <1>4, <1>5 DEF AskedIn
  <2>2. OncePerSource(bch) /\ QueueOnce
    BY <1>2, <1>3, <1>5 DEF OncePerSource, QueueOnce
  <2> QED BY <1>4, <2>1, <2>2 DEF OneAnswer
<1>7. \A cb \in CbsOf(bch) : cb.kind # "GrantData_cb" /\ cb.kind # "AccessAckData_cb"
  BY <1>4, <1>5
<1>8. Misses
  BY <1>1, <1>4, <1>7 DEF Misses
<1>9. SinksHeld
  <2> DEFINE at == [m \in MSHRs |-> None]
  <2>1. at \in [MSHRs -> Sinks \cup {None}] /\ \A m \in MSHRs : at[m] = None
    OBVIOUS
  <2>2. dFree = Sinks /\ None \notin Sinks
    BY NoneAssumption DEF Unused
  <2> HIDE DEF at
  <2>3. SinksAt(at)
    BY <1>1, <1>4, <1>7, <2>1, <2>2 DEF SinksAt
  <2> QED BY <2>1, <2>3 DEF SinksHeld
<1>10. Owners
  BY <1>1, <1>2, <1>4 DEF Owners, Unused
<1>11. Versions
  <2>1. 1 \in BeatNo /\ Cacheable \subseteq Blocks /\ Uncached \subseteq Blocks
    BY BeatsAssumption, SourcesAssumption DEF BeatNo, Cacheable
  <2> QED BY <1>1, <1>4, <2>1 DEF Versions
<1>12. Probed
  BY <1>1, <1>3 DEF Probed, Placed, AllFit, Unused
<1>13. Requested
  BY <1>4, <1>7 DEF Requested
<1> QED BY <1>6, <1>8, <1>9, <1>10, <1>11, <1>12, <1>13 DEF DataIInv

LEMMA InitUnused == Init => Unused
BY DEF Init, InitAdapter, InitTile, Unused

LEMMA StartUnused ==
  ASSUME NEW mapped \in Images, HostStart(mapped)
  PROVE  Unused'
BY DEF HostStart, StartAdapter, ResetTile, Unused

LEMMA UncachingData ==
  ASSUME IInv, DataIInv, Uncaching
  PROVE  DataIInv'
<1> USE DEF DataIInv
<1>1. OneAnswer' /\ Misses' /\ SinksHeld'
  BY UncachingTame, TameMisses, TameSinks
<1>2. Owners' /\ Versions'
  BY UncachingOwners, UncachingVersions
<1>3. Probed' /\ Requested'
  BY UncachingPlaced, UncachingRequested DEF Probed
<1> QED BY <1>1, <1>2, <1>3

LEMMA CachingData ==
  ASSUME IInv, DataIInv, Caching
  PROVE  DataIInv'
<1> USE DEF DataIInv
<1>1. ASSUME NEW m \in MSHRs, NEW b \in Cacheable,
             \/ \E grow \in {"NtoB", "NtoT", "BtoT"} : AcquireBlock(m, b, grow)
             \/ AcquirePerm(m, b)
      PROVE  DataIInv'
  <2>1. PICK sink \in dFree : Acquired(m, b, sink)
    BY <1>1, AcquireCases
  <2>2. OneAnswer'
    BY <1>1, AcquireBlockAnswer, AcquirePermAnswer
  <2>3. Misses' /\ SinksHeld' /\ Owners' /\ Versions' /\ Probed'
    BY <2>1, AcquireMisses, AcquireSinks, AcquireOwners, AcquireVersions, AcquirePlaced DEF Probed
  <2>4. Requested'
    BY <1>1, MissesRequested
  <2> QED BY <2>2, <2>3, <2>4
<1>2. ASSUME NEW b \in Cacheable, Store(b) \/ ReleaseClean(b) \/ StartReleaseData(b)
      PROVE  DataIInv'
  <2>1. OneAnswer' /\ Misses' /\ SinksHeld'
    BY <1>2, CacheTame, TameMisses, TameSinks
  <2>2. Owners' /\ Versions'
    BY <1>2, CacheOwners, CacheVersions
  <2>3. Probed' /\ Requested'
    BY <1>2, CachePlaced, CacheRequested DEF Probed
  <2> QED BY <2>1, <2>2, <2>3
<1>3. ASSUME NEW m \in MSHRs, GrantAck(m)
      PROVE  DataIInv'
  <2>1. OneAnswer' /\ Misses' /\ SinksHeld'
    BY <1>3, GrantAckAnswer, GrantAckMisses, GrantAckSinks
  <2>2. Owners' /\ Versions'
    BY <1>3, GrantAckOwners, GrantAckVersions
  <2>3. Probed' /\ Requested'
    BY <1>3, QuietPlaced, MissesRequested DEF Probed
  <2> QED BY <2>1, <2>2, <2>3
<1> QED BY <1>1, <1>2, <1>3 DEF Caching

LEMMA AnsweringData ==
  ASSUME IInv, DataIInv, MemoryTypes', Answering
  PROVE  DataIInv'
<1> USE DEF DataIInv
<1>1. CASE \/ ReceiveProbe \/ BurstBeat
           \/ \E p \in pend : ProbeAck(p) \/ StartProbeAckData(p)
  <2>1. OneAnswer' /\ Misses' /\ SinksHeld'
    BY <1>1, ProbesTame, TameMisses, TameSinks
  <2>2. Owners'
    BY <1>1, ProbesOwners
  <2>3. Versions'
    BY <1>1, ProbesVersions, BurstVersions
  <2>4. Probed' /\ Requested'
    BY <1>1, ProbesProbed, ProbesRequested
  <2> QED BY <2>1, <2>2, <2>3, <2>4
<1>2. CASE ReceiveD
  <2>1. OneAnswer' /\ Misses' /\ SinksHeld'
    BY <1>2, ReceiveDAnswer, ReceiveDMisses, ReceiveDSinks
  <2>2. Owners' /\ Versions'
    BY <1>2, ReceiveDOwners, ReceiveDVersions
  <2>3. Probed' /\ Requested'
    BY <1>2, QuietPlaced, ReceiveDRequested DEF Probed
  <2> QED BY <2>1, <2>2, <2>3
<1> QED BY <1>1, <1>2 DEF Answering

LEMMA AdapterData ==
  ASSUME IInv, DataIInv,
         \/ Adapter \/ (\E b \in Tohosts : HostProbe(b)) \/ HostStop \/ UNCHANGED vars
  PROVE  DataIInv'
<1> USE DEF DataIInv
<1>1. OneAnswer' /\ Misses' /\ SinksHeld'
  BY AdapterTame, TameMisses, TameSinks
<1>2. Owners' /\ Versions'
  BY AdapterOwners, AdapterVersions
<1>3. Probed' /\ Requested'
  BY AdapterProbed, AdapterRequested
<1> QED BY <1>1, <1>2, <1>3

\* every action but the start of a test
Continuing == \/ Running \/ (\E b \in Tohosts : HostProbe(b)) \/ HostStop \/ UNCHANGED vars

LEMMA DataIInvStep ==
  ASSUME IInv, IInv', DataIInv, Continuing
  PROVE  DataIInv'
<1>1. MemoryTypes'
  BY DEF IInv, TypeOK
<1> QED BY <1>1, UncachingData, CachingData, AnsweringData, AdapterData
        DEF Continuing, Running

\* the invariant behind all that follows
THEOREM DataInductive == Spec => []IInv /\ []DataIInv
<1>1. Init => DataIInv
  BY InitUnused, UnusedData
<1>2. [Next]_vars => Continuing \/ Unused'
  <2>1. CASE \E mapped \in Images : HostStart(mapped)
    BY <2>1, StartUnused
  <2>2. CASE Continuing
    BY <2>2
  <2>3. [Next]_vars => Continuing \/ \E mapped \in Images : HostStart(mapped)
    BY DEF Next, Continuing
  <2> QED BY <2>1, <2>2, <2>3
<1>3. IInv /\ IInv' /\ DataIInv /\ Continuing => DataIInv'
  BY DataIInvStep
<1> QED BY <1>1, <1>2, <1>3, UnusedData, Inductive, PTL DEF Spec

----------------------------------------------------------------------------
(* The retrieval at the end of a test.                                     *)

\* the blocks whose copy in memory is older than the retriever's list
Behind == {b \in Cacheable : \E i \in BeatNo : mem[b][i] < snap[b]}

\* what the chain of probes has yet to reach; before the retriever runs there is no
\* chain, since None is in the list of none
Left == IF retrieved THEN Behind ELSE {None}

Retrieval ==
  /\ drive \/ retrieved \/ ~retrieve
  /\ \A b \in Cacheable, i \in BeatNo : mem[b][i] <= latest[b]
  /\ retrieved => \A b \in Blocks : snap[b] <= latest[b]
  /\ retrieved /\ ~drive => Behind = {}
  /\ Placed(Left)

\* what every step of the tile and the adapter but the retriever's does: memory only
\* catches up with the stores
Onward ==
  /\ UNCHANGED <<retrieve, retrieved, snap>> /\ (drive' => drive)
  /\ \A b \in Blocks : latest'[b] >= latest[b]
  /\ \A b \in Cacheable, i \in BeatNo : mem'[b][i] = mem[b][i] \/ mem'[b][i] = latest'[b]

LEMMA RetrievalTyped ==
  ASSUME IInv
  PROVE  /\ latest \in [Blocks -> Nat] /\ snap \in [Blocks -> Nat]
         /\ mem \in [Blocks -> [BeatNo -> Nat]] /\ Cacheable \subseteq Blocks
         /\ drive \in BOOLEAN /\ retrieve \in BOOLEAN /\ retrieved \in BOOLEAN
BY DEF IInv, TypeOK, TileTypes, MemoryTypes, HostTypes, Cacheable

LEMMA OnwardSame ==
  ASSUME IInv, UNCHANGED <<drive, retrieve, retrieved, snap, mem>>,
         latest' = latest \/ \E b : latest' = [latest EXCEPT ![b] = @ + 1]
  PROVE  Onward
BY RetrievalTyped DEF Onward

LEMMA UncachingOnward ==
  ASSUME IInv, Versions, Uncaching
  PROVE  Onward /\ drive' = drive
<1>1. ASSUME NEW b \in Uncached, NEW k, NEW v, mem' = [mem EXCEPT ![b][k] = v],
             latest' = latest \/ latest' = [latest EXCEPT ![b] = @ + 1],
             UNCHANGED <<drive, retrieve, retrieved, snap>>
      PROVE  Onward /\ drive' = drive
  BY <1>1, RetrievalTyped DEF Onward, Cacheable
<1>2. ASSUME NEW g \in GSrcs, NEW b \in Blocks, Get(g, b) \/ Intent(g, b)
      PROVE  Onward /\ drive' = drive
  <2>1. UNCHANGED <<drive, retrieve, retrieved, snap, mem, latest>>
    BY <1>2 DEF Get, HandleGet, Intent, HandleIntent, hostVars
  <2> QED BY <2>1, OnwardSame
<1>3. ASSUME NEW g \in GSrcs, NEW b \in Uncached, Atomic(g, b) \/ PutFirst(g, b)
      PROVE  Onward /\ drive' = drive
  <2>1. /\ UNCHANGED <<drive, retrieve, retrieved, snap>>
        /\ latest' = latest \/ latest' = [latest EXCEPT ![b] = @ + 1]
        /\ \E k, v : mem' = [mem EXCEPT ![b][k] = v]
    BY <1>3 DEF Atomic, HandleAtomic, PutFirst, HandlePut, hostVars
  <2> QED BY <1>1, <2>1
<1>4. CASE PutBeat
  <2> PICK b : b = aBurst.block
    OBVIOUS
  <2>1. /\ UNCHANGED <<drive, retrieve, retrieved, snap>>
        /\ latest' = latest \/ latest' = [latest EXCEPT ![b] = @ + 1]
        /\ \E k, v : mem' = [mem EXCEPT ![b][k] = v]
    BY <1>4 DEF PutBeat, HandlePut, hostVars
  <2>2. b \in Uncached
    BY <1>4 DEF PutBeat, Versions
  <2>3. PICK k, v : mem' = [mem EXCEPT ![b][k] = v]
    BY <2>1
  <2> QED BY <1>1, <2>1, <2>2, <2>3
<1> QED BY <1>2, <1>3, <1>4 DEF Uncaching

LEMMA CachingOnward ==
  ASSUME IInv, Caching
  PROVE  Onward /\ drive' = drive
<1>1. /\ UNCHANGED <<drive, retrieve, retrieved, snap, mem>>
      /\ latest' = latest \/ \E b : latest' = [latest EXCEPT ![b] = @ + 1]
  <2>1. ASSUME NEW m \in MSHRs, NEW b \in Cacheable,
               (\E grow \in {"NtoB", "NtoT", "BtoT"} : AcquireBlock(m, b, grow)) \/ AcquirePerm(m, b)
        PROVE  UNCHANGED <<drive, retrieve, retrieved, snap, mem, latest>>
    BY <2>1 DEF AcquireBlock, HandleAcquireBlock, AcquirePerm, HandleAcquirePerm, hostVars
  <2>2. ASSUME NEW b \in Cacheable, Store(b) \/ ReleaseClean(b) \/ StartReleaseData(b)
        PROVE  /\ UNCHANGED <<drive, retrieve, retrieved, snap, mem>>
               /\ latest' = latest \/ latest' = [latest EXCEPT ![b] = @ + 1]
    BY <2>2 DEF Store, ReleaseClean, HandleRelease, StartReleaseData, hostVars, aVars
  <2>3. ASSUME NEW m \in MSHRs, GrantAck(m)
        PROVE  UNCHANGED <<drive, retrieve, retrieved, snap, mem, latest>>
    BY <2>3 DEF GrantAck, HandleGrantAck, hostVars
  <2> QED BY <2>1, <2>2, <2>3 DEF Caching
<1> QED BY <1>1, OnwardSame

LEMMA AnsweringOnward ==
  ASSUME IInv, Answering
  PROVE  Onward /\ (drive' = drive \/ BurstBeat \/ \E p \in pend : ProbeAck(p))
<1>1. CASE ReceiveProbe \/ \E p \in pend : StartProbeAckData(p)
  <2>1. UNCHANGED <<drive, retrieve, retrieved, snap, mem, latest>>
    BY <1>1 DEF ReceiveProbe, FireB, StartProbeAckData, hostVars, aVars
  <2> QED BY <2>1, OnwardSame
<1>2. ASSUME NEW p \in pend, ProbeAck(p)
      PROVE  Onward
  <2>1. UNCHANGED <<retrieve, retrieved, snap, latest, mem>> /\ drive
    BY <1>2 DEF ProbeAck, HandleProbeAck
  <2> QED BY <2>1, RetrievalTyped DEF Onward
<1>3. CASE BurstBeat
  <2> PICK b : b = cBurst.block
    OBVIOUS
  <2>1. /\ UNCHANGED <<retrieve, retrieved, snap, latest>> /\ drive /\ b \in Blocks
        /\ mem' = [mem EXCEPT ![b][cBurst.sent + 1] = latest[b]]
    BY <1>3, BurstCases DEF BurstBeat, HandleProbeAckData, HandleReleaseData, hostVars
  <2>2. /\ \A c \in Blocks \ {b} : mem'[c] = mem[c]
        /\ \A i \in BeatNo : mem'[b][i] = mem[b][i] \/ mem'[b][i] = latest[b]
    <3> PICK n, v : n = cBurst.sent + 1 /\ v = latest[b]
      OBVIOUS
    <3>1. mem' = [mem EXCEPT ![b][n] = v] /\ mem[b] \in [BeatNo -> Nat]
      BY <2>1, RetrievalTyped
    <3> QED BY <2>1, <3>1, RetrievalTyped
  <2>3. \A c \in Cacheable, i \in BeatNo : mem'[c][i] = mem[c][i] \/ mem'[c][i] = latest'[c]
    BY <2>1, <2>2, RetrievalTyped
  <2>4. \A c \in Blocks : latest'[c] >= latest[c]
    BY <2>1, RetrievalTyped
  <2> QED BY <1>3, <2>1, <2>3, <2>4 DEF Onward
<1>4. CASE ReceiveD
  <2>1. /\ UNCHANGED <<drive, retrieve, retrieved, snap, mem>>
        /\ latest' = latest \/ \E b : latest' = [latest EXCEPT ![b] = @ + 1]
    BY <1>4 DEF ReceiveD, FireD, hostVars
  <2> QED BY <2>1, OnwardSame
<1> QED BY <1>1, <1>2, <1>3, <1>4 DEF Answering

LEMMA AdapterOnward ==
  ASSUME IInv,
         DriveB \/ ProbeTohost \/ DriveD \/ (\E b \in Tohosts : HostProbe(b)) \/ UNCHANGED vars
  PROVE  Onward /\ drive' = drive
<1>1. UNCHANGED <<drive, retrieve, retrieved, snap, mem, latest>>
  BY DEF DriveB, PopB, ProbeTohost, HostInterface, DriveD, PopD, HostProbe, ProbeBlock,
         hostVars, vars, aVars, tVars
<1> QED BY <1>1, OnwardSame

\* the blocks of D were answered for in this step, and memory holds their last store
LEMMA RetrievalKept ==
  ASSUME IInv, IInv', Retrieval, Onward, NEW W, W = Left, NEW D \in SUBSET Blocks,
         Placed(W \ D)', \A b \in Cacheable \cap D, i \in BeatNo : mem'[b][i] = latest'[b],
         drive' = drive \/ (retrieved /\ W \subseteq D)
  PROVE  Retrieval'
<1>1. /\ latest \in [Blocks -> Nat] /\ snap \in [Blocks -> Nat]
      /\ mem \in [Blocks -> [BeatNo -> Nat]] /\ Cacheable \subseteq Blocks
      /\ latest' \in [Blocks -> Nat] /\ mem' \in [Blocks -> [BeatNo -> Nat]]
      /\ Cacheable' = Cacheable /\ snap' = snap /\ retrieved' = retrieved
  BY RetrievalTyped DEF Onward, Cacheable, IInv, TypeOK, TileTypes, MemoryTypes
<1>2. \A b \in Cacheable, i \in BeatNo : mem'[b][i] <= latest'[b]
  <2> SUFFICES ASSUME NEW b \in Cacheable, NEW i \in BeatNo
               PROVE  mem'[b][i] <= latest'[b]
    OBVIOUS
  <2>1. /\ mem[b][i] \in Nat /\ mem'[b][i] \in Nat /\ latest[b] \in Nat /\ latest'[b] \in Nat
        /\ mem[b][i] <= latest[b] /\ latest'[b] >= latest[b]
        /\ mem'[b][i] = mem[b][i] \/ mem'[b][i] = latest'[b]
    BY <1>1 DEF Retrieval, Onward
  <2> QED BY <2>1
<1>3. retrieved => \A b \in Blocks : snap[b] <= latest'[b]
  BY <1>1 DEF Retrieval, Onward
<1>4. retrieved => Behind' \subseteq Behind \ D
  <2> SUFFICES ASSUME retrieved, NEW b \in Behind'
               PROVE  b \in Behind \ D
    OBVIOUS
  <2>1. PICK i \in BeatNo : mem'[b][i] < snap[b]
    BY <1>1 DEF Behind
  <2>2. b \in Cacheable /\ b \in Blocks
    BY <1>1 DEF Behind
  <2>3. /\ mem[b][i] \in Nat /\ mem'[b][i] \in Nat /\ latest'[b] \in Nat /\ snap[b] \in Nat
        /\ snap[b] <= latest'[b]
    BY <1>1, <1>3, <2>2
  <2>4. mem'[b][i] # latest'[b]
    BY <2>1, <2>3
  <2>5. mem'[b][i] = mem[b][i] /\ b \notin D
    BY <2>2, <2>4 DEF Onward
  <2> QED BY <2>1, <2>2, <2>5 DEF Behind
<1>5. Left' \subseteq W \ D
  BY <1>1, <1>4, NoneAssumption DEF Left
<1>6. Placed(Left)'
  <2> PICK V : V = Left'
    OBVIOUS
  <2>1. Placed(V)'
    BY <1>5, PlacedLess
  <2> QED BY <2>1 DEF Placed
<1>7. retrieved' /\ ~drive' => Behind' = {}
  BY <1>1, <1>4 DEF Retrieval, Left
<1>8. drive' \/ retrieved' \/ ~retrieve'
  BY <1>1 DEF Retrieval, Onward
<1> QED BY <1>1, <1>2, <1>3, <1>6, <1>7, <1>8 DEF Retrieval

LEMMA RetrievalQuiet ==
  ASSUME IInv, IInv', Retrieval, Onward, NEW W, W = Left, Placed(W)', drive' = drive
  PROVE  Retrieval'
<1>1. W \ {} = W
  OBVIOUS
<1> QED BY <1>1, RetrievalKept

LEMMA UncachingRetrieval ==
  ASSUME IInv, IInv', OneAnswer, Versions, Retrieval, Uncaching
  PROVE  Retrieval'
<1> PICK W : W = Left
  OBVIOUS
<1>1. Placed(W)'
  BY UncachingPlaced DEF Retrieval
<1> QED BY <1>1, UncachingOnward, RetrievalQuiet

LEMMA CachingRetrieval ==
  ASSUME IInv, IInv', OneAnswer, Retrieval, Caching
  PROVE  Retrieval'
<1> PICK W : W = Left
  OBVIOUS
<1>1. Placed(W)
  BY DEF Retrieval
<1>2. ASSUME NEW m \in MSHRs, NEW b \in Cacheable,
             \/ \E grow \in {"NtoB", "NtoT", "BtoT"} : AcquireBlock(m, b, grow)
             \/ AcquirePerm(m, b)
      PROVE  Placed(W)'
  <2>1. PICK sink \in dFree : Acquired(m, b, sink)
    BY <1>2, AcquireCases
  <2> QED BY <1>1, <2>1, AcquirePlaced
<1>3. Placed(W)'
  BY <1>1, <1>2, CachePlaced, QuietPlaced DEF Caching
<1> QED BY <1>3, CachingOnward, RetrievalQuiet

\* the last answer of a chain turns drive off, and by then nothing is left
LEMMA CallEnds ==
  ASSUME IInv, Retrieval, NEW src, CallAndRelease(src), NEW W, W = Left, NEW b \in Blocks,
         Fits(bch.callback[src], b, W)
  PROVE  drive' = drive \/ (retrieved /\ W \subseteq {b})
<1> PICK cb : cb = bch.callback[src]
  OBVIOUS
<1>1. drive' = (drive /\ ~(cb.kind = "probe_blocks" /\ cb.rest = {}))
  BY DEF CallAndRelease
<1>2. CASE cb.kind = "probe_blocks" /\ cb.rest = {}
  <2>1. W \subseteq {b}
    BY <1>2 DEF Fits
  <2>2. retrieved
    BY <2>1, NoneAssumption DEF Left
  <2> QED BY <2>1, <2>2
<1>3. CASE ~(cb.kind = "probe_blocks" /\ cb.rest = {})
  BY <1>1, <1>3, RetrievalTyped
<1> QED BY <1>2, <1>3

LEMMA BurstRetrieval ==
  ASSUME IInv, IInv', OneAnswer, Owners, Versions', Retrieval, BurstBeat
  PROVE  Retrieval'
<1> PICK W : W = Left
  OBVIOUS
<1> PICK b : b = cBurst.block
  OBVIOUS
<1>1. Placed(W) /\ Onward /\ MemoryTypes'
  BY AnsweringOnward DEF Retrieval, Answering, IInv, TypeOK
<1>2. cBurst # None /\ b \in Blocks /\ UNCHANGED <<line, latest>>
  BY BurstCases
<1>3. CASE cBurst' # None
  <2>1. cBurst.sent + 1 # Beats
    BY <1>3 DEF BurstBeat
  <2>2. cOngoings[cBurst.src] = cBurst.sent
    BY <1>2 DEF IInv, TypeOK, EngineTypes, Bursts, AckBursts, RelBursts, BurstsCounted, CSrcs
  <2>3. drive' = drive
    BY <2>1, <2>2 DEF BurstBeat, HandleProbeAckData, HandleReleaseData, hostVars, LastBeat
  <2> QED BY <1>1, <1>3, <2>3, BurstPlaced, RetrievalQuiet
<1>4. CASE cBurst' = None
  <2>1. Placed(W \ {b})'
    BY <1>1, <1>4, BurstPlaced
  <2>2. line'[b] # "D" /\ ~Sending(b)'
    BY <1>2, <1>4 DEF Owners, Sending
  <2>3. \A c \in Cacheable \cap {b}, i \in BeatNo : mem'[c][i] = latest'[c]
    BY <2>2 DEF Versions, Cacheable
  <2>4. drive' = drive \/ (retrieved /\ W \subseteq {b})
    <3>1. cBurst \in Bursts
      BY <1>2, BurstCases
    <3>2. cBurst.op = "ProbeAckData" => cBurst.src \in BSrcs
      BY <3>1 DEF Bursts, AckBursts, RelBursts
    <3>3. drive' = drive \/ (CallAndRelease(cBurst.src) /\ cBurst.src \in BSrcs)
      BY <3>2 DEF BurstBeat, HandleProbeAckData, HandleReleaseData, hostVars
    <3>4. cBurst.src \in BSrcs => Fits(bch.callback[cBurst.src], b, W)
      BY <1>1, <1>2, NoneAssumption DEF Placed
    <3> QED BY <1>2, <3>3, <3>4, CallEnds
  <2> QED BY <1>1, <1>2, <2>1, <2>3, <2>4, RetrievalKept
<1> QED BY <1>3, <1>4

LEMMA AnsweringRetrieval ==
  ASSUME IInv, IInv', OneAnswer, Owners, Versions, Versions', Retrieval, Answering
  PROVE  Retrieval'
<1> PICK W : W = Left
  OBVIOUS
<1>1. Placed(W) /\ Onward
  BY AnsweringOnward DEF Retrieval
<1>2. CASE ReceiveD \/ ReceiveProbe \/ \E p \in pend : StartProbeAckData(p)
  <2>1. Placed(W)'
    BY <1>1, <1>2, ReceivePlaced, QuietPlaced
  <2>2. drive' = drive
    BY <1>2 DEF ReceiveD, FireD, ReceiveProbe, FireB, StartProbeAckData, hostVars, aVars
  <2> QED BY <1>1, <2>1, <2>2, RetrievalQuiet
<1>3. ASSUME NEW p \in pend, ProbeAck(p)
      PROVE  Retrieval'
  <2>1. /\ cBurst = None /\ line[p.block] # "D" /\ CallAndRelease(p.src) /\ p.block \in Blocks
        /\ UNCHANGED <<latest, mem>> /\ MemoryTypes'
    BY <1>3, ProbeAckCases DEF Probes, IInv, TypeOK
  <2>2. Placed(W \ {p.block})'
    BY <1>1, <1>3, <2>1, ProbeAckPlaced
  <2>3. \A c \in Cacheable \cap {p.block}, i \in BeatNo : mem'[c][i] = latest'[c]
    BY <2>1 DEF Versions, Sending
  <2>4. drive' = drive \/ (retrieved /\ W \subseteq {p.block})
    <3>1. Fits(bch.callback[p.src], p.block, W)
      BY <1>1 DEF Placed
    <3> QED BY <2>1, <3>1, CallEnds
  <2> QED BY <1>1, <2>1, <2>2, <2>3, <2>4, RetrievalKept
<1> QED BY <1>2, <1>3, BurstRetrieval DEF Answering

\* before the retriever runs no callback is one of a chain, so any list is kept by all
LEMMA NoChain ==
  ASSUME IInv, Placed({None}), NEW W
  PROVE  Placed(W)
<1>1. bch.callback \in [BSrcs -> Callbacks] /\ bch \in Engines
  BY DEF IInv, TypeOK, EngineTypes, Engines
<1>2. \A cb \in Callbacks, b \in Blocks : Fits(cb, b, {None}) => Fits(cb, b, W)
  <2> SUFFICES ASSUME NEW cb \in Callbacks, NEW b \in Blocks, Fits(cb, b, {None})
               PROVE  Fits(cb, b, W)
    OBVIOUS
  <2>1. cb.kind = "probe_blocks" => cb.rest \subseteq Blocks
    BY DEF Callbacks, Pending, NoCallback
  <2>2. cb.kind # "probe_blocks"
    BY <2>1, NoneAssumption DEF Fits
  <2> QED BY <2>2 DEF Fits
<1>3. /\ \A i \in DOMAIN bch.waiting : bch.waiting[i] \in Requests
      /\ \A i \in DOMAIN bch.queue : bch.queue[i] \in Probes
  BY <1>1 DEF Engines
<1>4. AllFit(bch, W)
  <2>1. \A i \in DOMAIN bch.waiting : Fits(bch.waiting[i].then, bch.waiting[i].block, W)
    BY <1>2, <1>3 DEF Placed, AllFit, Requests, Callbacks
  <2>2. \A i \in DOMAIN bch.queue : Fits(bch.callback[bch.queue[i].src], bch.queue[i].block, W)
    BY <1>1, <1>2, <1>3 DEF Placed, AllFit, Probes
  <2> QED BY <2>1, <2>2 DEF AllFit
<1>5. /\ \A p \in pend : p \in Probes
      /\ bOut # None => bOut \in Probes
      /\ cBurst # None /\ cBurst.src # RelSrc => cBurst.src \in BSrcs /\ cBurst.block \in Blocks
  BY DEF IInv, TypeOK, EngineTypes, ChannelTypes, TileTypes, Bursts, AckBursts, RelBursts
<1> QED BY <1>1, <1>2, <1>4, <1>5 DEF Placed, Probes

LEMMA RetrieveRetrieval ==
  ASSUME IInv, IInv', OneAnswer, Owners, Versions, Retrieval, Retrieve
  PROVE  Retrieval'
<1> PICK W : W = Behind'
  OBVIOUS
<1>1. /\ retrieve /\ ~retrieved /\ retrieved' = TRUE /\ snap' = latest
      /\ UNCHANGED <<mem, latest>> /\ drive
      /\ drive' = drive \/ \A b \in Blocks : perm[b] # "TRUNK"
  BY DEF Retrieve, DataRetriever, Retrieval
<1>2. \A b \in W : b \in Blocks /\ perm[b] = "TRUNK"
  <2> SUFFICES ASSUME NEW b \in W
               PROVE  b \in Blocks /\ perm[b] = "TRUNK"
    OBVIOUS
  <2>1. b \in Cacheable /\ b \in Blocks /\ \E i \in BeatNo : mem[b][i] < latest[b]
    BY <1>1, RetrievalTyped DEF Behind, Cacheable
  <2>2. \E i \in BeatNo : mem[b][i] # latest[b]
    BY <2>1, RetrievalTyped
  <2>3. line[b] = "D" \/ Sending(b)
    BY <2>1, <2>2 DEF Versions
  <2> QED BY <2>1, <2>3 DEF Owners, Sending
<1>3. Placed({None})
  BY <1>1 DEF Retrieval, Left
<1>4. Placed(W)'
  BY <1>2, <1>3, NoChain, RetrievePlaced
<1>5. Left' = W
  BY <1>1 DEF Left
<1>6. Placed(Left)'
  BY <1>4, <1>5 DEF Placed
<1>7. ~drive' => Behind' = {}
  BY <1>1, <1>2
<1>8. \A b \in Blocks : snap'[b] <= latest'[b]
  BY <1>1, RetrievalTyped
<1>9. \A b \in Cacheable, i \in BeatNo : mem'[b][i] <= latest'[b]
  BY <1>1 DEF Retrieval
<1>10. Cacheable' = Cacheable
  BY DEF Cacheable
<1> QED BY <1>1, <1>6, <1>7, <1>8, <1>9, <1>10 DEF Retrieval

LEMMA AdapterRetrieval ==
  ASSUME IInv, IInv', OneAnswer, Owners, Versions, Retrieval,
         \/ Adapter \/ (\E b \in Tohosts : HostProbe(b)) \/ HostStop \/ UNCHANGED vars
  PROVE  Retrieval'
<1> PICK W : W = Left
  OBVIOUS
<1>1. CASE DriveB \/ ProbeTohost \/ DriveD \/ (\E b \in Tohosts : HostProbe(b)) \/ UNCHANGED vars
  <2>1. Placed(W)'
    BY <1>1, AdapterPlaced DEF Retrieval
  <2> QED BY <1>1, <2>1, AdapterOnward, RetrievalQuiet
<1>2. CASE HostStop
  <2>1. UNCHANGED <<drive, retrieved, mem, bch, bOut, tVars>> /\ drive
    BY <1>2 DEF HostStop, StopAdapter
  <2>2. Left' = Left /\ Behind' = Behind
    BY <2>1 DEF Left, Behind, Cacheable, tVars
  <2>3. Placed(W)'
    BY <2>1, PlacedFrame DEF Retrieval, tVars
  <2>4. Placed(Left)'
    BY <2>2, <2>3 DEF Placed
  <2> QED BY <2>1, <2>2, <2>4 DEF Retrieval, tVars, Cacheable
<1> QED BY <1>1, <1>2, RetrieveRetrieval DEF Adapter

LEMMA UnusedRetrieval ==
  ASSUME Unused, ~retrieve, ~retrieved
  PROVE  Retrieval
<1>1. /\ \A b \in Blocks : /\ latest[b] = 0
                           /\ \A i \in BeatNo : mem[b][i] = 0
      /\ cBurst = None /\ pend = {} /\ bOut = None
      /\ DOMAIN bch.waiting = {} /\ DOMAIN bch.queue = {}
      /\ Cacheable \subseteq Blocks
  BY DEF Unused, Zero, ZeroMem, IdleProbes, Cacheable
<1>2. Placed(Left)
  BY <1>1 DEF Placed, AllFit
<1> QED BY <1>1, <1>2 DEF Retrieval

LEMMA RetrievalStep ==
  ASSUME IInv, IInv', DataIInv, DataIInv', Retrieval, Continuing
  PROVE  Retrieval'
BY UncachingRetrieval, CachingRetrieval, AnsweringRetrieval, AdapterRetrieval
   DEF Continuing, Running, DataIInv

\* the chain of probes leaves out no block that the cache has modified, and no step of the
\* tile makes memory fall behind again
THEOREM RetrievalInductive == Spec => []Retrieval
<1>1. Init => Retrieval
  BY InitUnused, UnusedRetrieval DEF Init, InitAdapter
<1>2. IInv /\ IInv' /\ DataIInv /\ DataIInv' /\ Retrieval /\ [Next]_vars => Retrieval'
  <2>1. CASE \E mapped \in Images : HostStart(mapped)
    <3>1. Unused' /\ ~retrieve' /\ ~retrieved'
      BY <2>1, StartUnused DEF HostStart, StartAdapter
    <3>2. (Unused /\ ~retrieve /\ ~retrieved => Retrieval)'
      BY UnusedRetrieval, PTL
    <3> QED BY <3>1, <3>2
  <2>2. [Next]_vars => Continuing \/ \E mapped \in Images : HostStart(mapped)
    BY DEF Next, Continuing
  <2> QED BY <2>1, <2>2, RetrievalStep
<1> QED BY <1>1, <1>2, DataInductive, PTL DEF Spec

----------------------------------------------------------------------------
(* Theorems.                                                               *)

\* every sink that is not free was taken for a miss of its own: while a miss can still
\* be started, one is left
LEMMA SinkLeft ==
  ASSUME SinksHeld, IsFiniteSet(Sinks), IsFiniteSet(MSHRs),
         Cardinality(MSHRs) <= Cardinality(Sinks), NEW m \in MSHRs, mshr[m] = None
  PROVE  dFree # {}
<1> SUFFICES ASSUME dFree = {}
             PROVE  FALSE
  OBVIOUS
<1>1. PICK at \in [MSHRs -> Sinks \cup {None}] : SinksAt(at)
  BY DEF SinksHeld
<1>2. at[m] = None /\ \A s \in Sinks : \E n \in MSHRs : at[n] = s
  BY <1>1 DEF SinksAt
<1> DEFINE f == [s \in Sinks |-> CHOOSE n \in MSHRs : at[n] = s]
<1>3. \A s \in Sinks : f[s] \in MSHRs /\ at[f[s]] = s
  BY <1>2
<1>4. f \in [Sinks -> MSHRs \ {m}]
  BY <1>2, <1>3, NoneAssumption
<1>5. \A s, t \in Sinks : f[s] = f[t] => s = t
  BY <1>3
<1> HIDE DEF f
<1>6. f \in Injection(Sinks, MSHRs \ {m})
  BY <1>4, <1>5 DEF Injection, IsInjective
<1>7. /\ IsFiniteSet(MSHRs \ {m})
      /\ Cardinality(MSHRs \ {m}) = Cardinality(MSHRs) - 1
  BY FS_RemoveElement
<1>8. Cardinality(Sinks) <= Cardinality(MSHRs \ {m})
  BY <1>6, <1>7, FS_Injection
<1>9. Cardinality(Sinks) \in Nat /\ Cardinality(MSHRs) \in Nat
  BY FS_CardinalityType
<1> QED BY <1>7, <1>8, <1>9

\* adapter.py:481, 507 and 629: d_sinks.get never finds the list empty, and a sink granted
\* to a miss is not given to another before its GrantAck, whatever the order of grants,
\* probes and acknowledgements, if there are no fewer sinks than misses in flight
THEOREM GrantSinksHeld ==
  ASSUME IsFiniteSet(Sinks), IsFiniteSet(MSHRs), Cardinality(MSHRs) <= Cardinality(Sinks)
  PROVE  Spec => []GrantSinks
<1>1. SinksHeld => GrantSinks
  <2> SUFFICES ASSUME SinksHeld
               PROVE  GrantSinks
    OBVIOUS
  <2>1. \A m \in MSHRs, b \in Blocks : MayAcquire(m, b) => dFree # {}
    BY SinkLeft DEF MayAcquire
  <2>2. ASSUME NEW m \in MSHRs, mshr[m] # None, mshr[m].sink # None
        PROVE  mshr[m].sink \notin dFree /\ ongoingTlc[mshr[m].sink] = mshr[m].block
    <3>1. PICK at \in [MSHRs -> Sinks \cup {None}] : SinksAt(at)
      BY DEF SinksHeld
    <3>2. mshr[m].sink = at[m] /\ ongoingTlc[at[m]] = mshr[m].block
      BY <2>2, <3>1 DEF SinksAt
    <3>3. at[m] \in Sinks
      BY <2>2, <3>1, <3>2
    <3>4. at[m] \notin dFree
      BY <3>1, <3>3 DEF SinksAt
    <3> QED BY <3>2, <3>4
  <2> QED BY <2>1, <2>2 DEF GrantSinks
<1>2. DataIInv => SinksHeld
  BY DEF DataIInv
<1> QED BY <1>1, <1>2, DataInductive, PTL

\* adapter.py: block_perm is TRUNK for every block that the cache may modify or is sending
\* back modified, so that the retriever at the end of a test forgets none
THEOREM OwnersNeverForgotten == Spec => []OwnersKnown
<1>1. IInv /\ DataIInv => OwnersKnown
  BY DEF DataIInv, Owners, OwnersKnown
<1> QED BY <1>1, DataInductive, PTL

\* adapter.py: a grant carries the last store to its block, and an answer to the uncached
\* master, from memory or from a cache that had to be probed, is neither older than its
\* request nor torn
THEOREM DataNeverStale == Spec => []DataFresh
<1>1. DataIInv => GrantsCurrent
  BY DEF DataIInv, Versions, GrantsCurrent
<1>2. DataIInv => AnswersFresh
  BY DEF DataIInv, Requested, Fresh, AnswersFresh
<1>3. DataIInv => DataFresh
  BY <1>1, <1>2 DEF DataFresh
<1> QED BY <1>3, DataInductive, PTL

\* adapter.py:252-266 and 711-717: when the retriever has ended the run, memory holds every store that
\* was made before it took its list of blocks, whatever probes and releases were under way
THEOREM RetrievalEndsComplete == Spec => []RetrievalComplete
<1>1. IInv /\ Retrieval => RetrievalComplete
  <2> SUFFICES ASSUME IInv, Retrieval, retrieved, ~drive, NEW b \in Cacheable, NEW i \in BeatNo
               PROVE  mem[b][i] >= snap[b]
    BY DEF RetrievalComplete
  <2>1. ~(mem[b][i] < snap[b])
    BY DEF Retrieval, Behind
  <2>2. mem[b][i] \in Nat /\ snap[b] \in Nat
    BY RetrievalTyped
  <2> QED BY <2>1, <2>2
<1> QED BY <1>1, DataInductive, RetrievalInductive, PTL
=============================================================================
