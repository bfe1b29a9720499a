------------------------------ MODULE HartMmu ------------------------------
(***************************************************************************)
(* A hart's port to memory (riscv/mmu.h and mmu.cc): page table walks in   *)
(* one or two stages, physical memory protection, the TLB and instruction  *)
(* cache kept "for simulator performance", triggers and the reservation of *)
(* LR/SC, all as operators on the hart record h of module Csr.             *)
(*                                                                         *)
(* Page tables do not change (a store to one is outside the addresses the  *)
(* program uses), so a stale translation is always the simulator's doing.  *)
(* Memory contents are not kept; data matters to triggers and devices only.*)
(* The build has neither RISCV_ENABLE_DIRTY nor RISCV_ENABLE_MISALIGNED.   *)
(***************************************************************************)
EXTENDS Csr, Sequences

CONSTANTS PgShift,       \* PGSHIFT
          IdxBits,       \* bits of a page table index
          WidenBits,     \* further bits of the first index of stage two
          PteSize,       \* bytes of a page table entry
          TlbEntries,    \* TLB_ENTRIES
          IcacheEntries, \* ICACHE_ENTRIES
          Bus,           \* memories and devices by their first address: kind and size
          DebugRegion,   \* DEBUG_START..DEBUG_END
          PageTable      \* the entries: a function from physical addresses

(* An address belongs to the last memory or device that starts at or below *)
(* it, and nothing answers behind the end of that one.                     *)
find_device(pa) ==
  LET below == {base \in DOMAIN Bus : base <= pa}
  IN {base \in below : \A other \in below : other <= base}
Answers(kind, pa) ==
  \E base \in find_device(pa) : Bus[base].kind = kind /\ pa - base < Bus[base].size

Paddrs  == 0..(2^PaddrBits - 1)
Mem     == {pa \in Paddrs : Answers("memory", pa)}     \* addr_to_mem
Devices == {pa \in Paddrs : Answers("device", pa)}     \* mmio_load, mmio_store

Access == {"FETCH", "LOAD", "STORE"}
PgSize == 2^PgShift
Vpn(a) == a \div PgSize
PgBase(a) == a - (a % PgSize)

NoTrap == [cause |-> -1, tval |-> 0, tval2 |-> 0, gva |-> FALSE, int |-> FALSE]
MemTrap(cause, tval, tval2) ==
  [cause |-> cause, tval |-> tval, tval2 |-> tval2, gva |-> TRUE, int |-> FALSE]
InsnTrap(cause, tval) ==
  [cause |-> cause, tval |-> tval, tval2 |-> 0, gva |-> FALSE, int |-> FALSE]

Cause(fetch, load, store) == [FETCH |-> fetch, LOAD |-> load, STORE |-> store]
AccessFault == Cause(1, 5, 7)
PageFault   == Cause(12, 13, 15)
GuestFault  == Cause(20, 21, 23)

Found(pa) == [trap |-> NoTrap, pa |-> pa]
Fault(trap) == [trap |-> trap, pa |-> 0]

----------------------------------------------------------------------------
(* Physical memory protection of the n_pmp entries, in order.              *)
Tor(h, i) == IF i = 0 THEN 0 ELSE Even(h.pmpaddr[i], TorGrain) * 2^PmpShift

TrailingOnes(n) ==
  CHOOSE k \in 0..(PaddrBits + 1) :
    /\ (n \div 2^k) % 2 = 0
    /\ \A j \in 0..(k - 1) : (n \div 2^j) % 2 = 1

(* The region of a NA4 or NAPOT entry is 2^RegionBits bytes large.         *)
RegionBits(h, i) ==
  LET a == h.pmpaddr[i] - (h.pmpaddr[i] % TorGrain) + TorGrain - 1
  IN PmpShift + (IF h.pmpcfg[i].A = "NA4" THEN TrailingOnes(2 * a) ELSE 1 + TrailingOnes(a))

PmpMatches(h, i, a) ==
  IF h.pmpcfg[i].A = "TOR" THEN Tor(h, i - 1) <= a /\ a < Tor(h, i)
  ELSE a \div 2^RegionBits(h, i) = Tor(h, i) \div 2^RegionBits(h, i)

Sectors(a, len) == {a + 2^PmpShift * k : k \in 0..((len - 1) \div 2^PmpShift)}

(* The first of the entries an access touches decides.                     *)
PmpAllows(h, hits, a, len, type, mode) ==
  IF hits = {} THEN NPmp = 0 \/ mode = PRV_M
  ELSE \E i \in hits :
         /\ \A j \in hits : i <= j
         /\ \A s \in Sectors(a, len) : PmpMatches(h, i, s)
         /\ \/ mode = PRV_M /\ ~h.pmpcfg[i].L
            \/ type = "LOAD" /\ h.pmpcfg[i].R
            \/ type = "STORE" /\ h.pmpcfg[i].W
            \/ type = "FETCH" /\ h.pmpcfg[i].X

PmpOk(h, a, len, type, mode) ==
  PmpAllows(h, {i \in 1..NPmp : /\ h.pmpcfg[i].A # "OFF"
                                /\ \E s \in Sectors(a, len) : PmpMatches(h, i, s)},
            a, len, type, mode)

(* Whether every entry treats all of the page at a alike: only then may the*)
(* page be remembered.                                                     *)
PmpHomogeneous(h, a) ==
  \A i \in 1..NPmp :
    LET base == Tor(h, i - 1)
        tor  == Tor(h, i)
    IN CASE h.pmpcfg[i].A = "OFF" -> TRUE
         [] h.pmpcfg[i].A = "TOR" -> \/ a < PgBase(base)
                                     \/ a >= tor
                                     \/ a >= base /\ a < PgBase(tor)
         [] OTHER -> RegionBits(h, i) >= PgShift \/ Vpn(a) # Vpn(tor)

----------------------------------------------------------------------------
(* Page table walks.                                                       *)
Levels(satp, mode, stage2) ==
  IF mode = PRV_M \/ satp.mode = "OFF" THEN 0 ELSE IF satp.mode = "SV39" THEN 2 ELSE 3

IsTable(pte) == pte.V /\ ~pte.R /\ ~pte.W /\ ~pte.X
Permits(pte, type, mxr) ==
  CASE type = "FETCH" -> pte.X
    [] type = "LOAD"  -> pte.R \/ (mxr /\ pte.X)
    [] type = "STORE" -> pte.R /\ pte.W

(* A leaf at level i that lets the access through, user page or not.       *)
LeafOk(pte, i, type, mxr) ==
  /\ pte.V /\ (pte.R \/ ~pte.W)
  /\ Permits(pte, type, mxr)
  /\ pte.ppn % 2^(i * IdxBits) = 0
  /\ pte.A /\ (type = "STORE" => pte.D)

LeafPage(pte, a, i) == (pte.ppn + (Vpn(a) % 2^(i * IdxBits))) * PgSize

Entry(p) == IF p \in DOMAIN PageTable THEN PageTable[p]
            ELSE [V |-> FALSE, R |-> FALSE, W |-> FALSE, X |-> FALSE, U |-> FALSE,
                  A |-> FALSE, D |-> FALSE, ppn |-> 0]

(* s2xlate: the host physical address of a guest physical one.             *)
S2Xlate(h, gva, gpa, type, virt, mxr) ==
  LET levels == Levels(h.hgatp, PRV_U, TRUE)
      index(i) == (gpa \div 2^(PgShift + i * IdxBits))
                    % 2^(IF i = levels - 1 THEN IdxBits + WidenBits ELSE IdxBits)
      fault == Fault(MemTrap(GuestFault[type], gva, gpa \div 4))
      walk[i \in -1..2, base \in 0..(2^PaddrBits \div PgSize)] ==
        LET p   == base * PgSize + index(i) * PteSize
            pte == Entry(p)
        IN IF i < 0 THEN fault
           ELSE IF p \notin Mem \/ ~PmpOk(h, p, PteSize, "LOAD", PRV_S)
                THEN Fault(MemTrap(AccessFault[type], gva, 0))
           ELSE IF IsTable(pte) THEN walk[i - 1, pte.ppn]
           ELSE IF pte.U /\ LeafOk(pte, i, type, mxr)
                THEN Found(LeafPage(pte, gpa, i) + (gpa % PgSize))
           ELSE fault
  IN IF ~virt \/ levels = 0 THEN Found(gpa) ELSE walk[levels - 1, h.hgatp.ppn]

PageOf(r) == [r EXCEPT !.pa = PgBase(@)]

(* walk: the page of a virtual address.                                    *)
Walk(h, a, type, mode, virt, mxr) ==
  LET satp   == IF virt THEN h.vsatp ELSE h.satp
      levels == Levels(satp, mode, FALSE)
      vaBits == PgShift + levels * IdxBits
      msbs   == a \div 2^(vaBits - 1)
      canonical == msbs \in {0, 2^(XBits - vaBits + 1) - 1}
      mine(pte) == IF pte.U THEN mode # PRV_S \/ (type # "FETCH" /\ h.mstatus.SUM)
                            ELSE mode = PRV_S
      fault == Fault(MemTrap(PageFault[type], a, 0))
      index(i) == (a \div 2^(PgShift + i * IdxBits)) % 2^IdxBits
      walk[i \in -1..2, base \in 0..(2^PaddrBits \div PgSize)] ==
        LET read(at, pte) ==
              IF at.trap # NoTrap THEN at
              ELSE IF at.pa \notin Mem \/ ~PmpOk(h, at.pa, PteSize, "LOAD", PRV_S)
                   THEN Fault(MemTrap(AccessFault[type], a, 0))
              ELSE IF IsTable(pte) THEN walk[i - 1, pte.ppn]
              ELSE IF mine(pte) /\ LeafOk(pte, i, type, mxr)
                   THEN PageOf(S2Xlate(h, a, LeafPage(pte, a, i) + (a % PgSize), type, virt, mxr))
              ELSE fault
            found(at) == read(at, Entry(at.pa))
        IN IF i < 0 THEN fault
           ELSE found(S2Xlate(h, a, base * PgSize + index(i) * PteSize, "LOAD", virt, FALSE))
  IN IF levels = 0 THEN PageOf(S2Xlate(h, a, a, type, virt, mxr))
     ELSE IF ~canonical THEN fault
     ELSE walk[levels - 1, satp.ppn]

(* The protection of the physical address a walk found.                    *)
Protected(h, a, len, type, mode, page) ==
  LET pa == page.pa + (a % PgSize)
  IN IF page.trap # NoTrap THEN page
     ELSE IF ~PmpOk(h, pa, len, type, mode) THEN Fault(MemTrap(AccessFault[type], a, 0))
     ELSE Found(pa)

(* translate: the mode, virtualization and MXR an access is made with,     *)
(* then the walk and the protection of the physical address.  xlate is     *)
(* "none", "virt" (HLV, HSV) or "virt_mxr" (HLVX).                         *)
Translate(h, a, len, type, xlate) ==
  LET data  == type # "FETCH" /\ ~h.debug_mode
      guest == data /\ xlate # "none"
      mprv  == data /\ h.mstatus.MPRV
      mode  == IF guest THEN h.hstatus.SPVP ELSE IF mprv THEN h.mstatus.MPP ELSE h.prv
      virt  == h.v \/ guest \/ (mprv /\ h.mstatus.MPV)
      mxr   == h.mstatus.MXR \/ (guest /\ type = "LOAD" /\ xlate = "virt_mxr")
  IN Protected(h, a, len, type, mode, Walk(h, a, type, mode, virt, mxr))

----------------------------------------------------------------------------
(* The TLB: a tag is <<>> or <<vpn, whether triggers must be checked>>, and*)
(* the three kinds of access share the translation of an entry.            *)
Slot(a) == Vpn(a) % TlbEntries
Tag(h, type, a) == h.tlb[type][Slot(a)]
Hit(h, type, a) == Tag(h, type, a) # <<>> /\ Tag(h, type, a)[1] = Vpn(a)
HitChecked(h, type, a) == Hit(h, type, a) /\ Tag(h, type, a)[2]
ThroughTlb(h, a) == h.tlbData[Slot(a)] * PgSize + (a % PgSize)

RefillTlb(h, a, pa, type) ==
  LET kept(t) == IF Hit(h, t, a) THEN Tag(h, t, a) ELSE <<>>
      fresh(t) == IF t = type /\ PmpHomogeneous(h, PgBase(pa))
                  THEN <<Vpn(a), h.checks[type]>> ELSE kept(t)
  IN [h EXCEPT !.tlb = [t \in Access |-> [@[t] EXCEPT ![Slot(a)] = fresh(t)]],
               !.tlbData[Slot(a)] = Vpn(pa)]

MmioOk(h, pa) == pa \in Devices /\ (pa \in DebugRegion => h.debug_mode)

----------------------------------------------------------------------------
(* Triggers.  trigger_match walks them in order; one that is chained hands *)
(* over to the next, and one that does not match is passed over, chained   *)
(* or not.                                                                 *)
TriggerApplies(h, i, op, a, data) ==
  LET mc == h.mcontrol[i]
      value == IF mc.select THEN data ELSE a
      key   == h.tdata2[i]
  IN /\ CASE op = "FETCH" -> mc.execute [] op = "LOAD" -> mc.load [] op = "STORE" -> mc.store
     /\ CASE h.prv = PRV_M -> mc.m [] h.prv = PRV_S -> mc.s [] h.prv = PRV_U -> mc.u
     /\ CASE mc.match = "equal" -> value = key
          [] mc.match = "napot" -> LET size == 2^(TrailingOnes(key) + 1)
                                   IN value \div size = key \div size
          [] mc.match = "ge"    -> value >= key
          [] mc.match = "lt"    -> value < key

(* The index of the trigger that fires, or -1.                             *)
TriggerMatch(h, op, a, data) ==
  LET firing == {i \in DOMAIN h.mcontrol :
                   TriggerApplies(h, i, op, a, data) /\ ~h.mcontrol[i].chain}
  IN IF h.debug_mode \/ firing = {} THEN -1
     ELSE CHOOSE i \in firing : \A j \in firing : i <= j

----------------------------------------------------------------------------
(* What an access leaves: the hart, a trap or NoTrap, the trigger that was *)
(* thrown or -1, and the physical address used or -1.                      *)
Result(h, trap, trig, pa) == [h |-> h, trap |-> trap, trig |-> trig, pa |-> pa]
Done(h, pa) == Result(h, NoTrap, -1, pa)
Raises(h, trap) == Result(h, trap, -1, -1)
Throws(h, trig) == Result(h, NoTrap, trig, -1)
IsDone(r) == r.trap = NoTrap /\ r.trig = -1

(* fetch_slow_path: a device is fetched from too, but not remembered.      *)
FetchTranslated(h, a, t) ==
  IF t.trap # NoTrap THEN Raises(h, t.trap)
  ELSE IF t.pa \in Mem THEN Done(RefillTlb(h, a, t.pa, "FETCH"), t.pa)
  ELSE IF MmioOk(h, t.pa) THEN Done(h, t.pa)
  ELSE Raises(h, MemTrap(1, a, 0))

FetchSlow(h, a) == FetchTranslated(h, a, Translate(h, a, 2, "FETCH", "none"))

(* translate_insn_addr for one parcel of an instruction: a trigger is      *)
(* looked for where the tag asks for it.                                   *)
FetchChecked(r, a, match) ==
  IF IsDone(r) /\ HitChecked(r.h, "FETCH", a) /\ match >= 0 THEN Throws(r.h, match) ELSE r
FetchWatched(r, a, bits) == FetchChecked(r, a, TriggerMatch(r.h, "FETCH", a, bits))

FetchParcel(h, a, bits) ==
  FetchWatched(IF Hit(h, "FETCH", a) THEN Done(h, ThroughTlb(h, a)) ELSE FetchSlow(h, a),
               a, bits)

(* load_insn: refill_icache of an entry that is then dropped.              *)
UpperParcel(low, a) == IF IsDone(low) THEN FetchParcel(low.h, a, 0) ELSE low
LoadInsn(h, pc, bits) == UpperParcel(FetchParcel(h, pc, bits), pc + 2)

(* access_icache: an entry that has the pc is used without translation.    *)
IcacheSlot(pc) == (pc \div 2) % IcacheEntries
Cached(r, pc) == IF IsDone(r) THEN [r EXCEPT !.h.icache[IcacheSlot(pc)] = pc] ELSE r
AccessIcache(h, pc, bits) ==
  IF h.icache[IcacheSlot(pc)] = pc THEN Done(h, -1) ELSE Cached(LoadInsn(h, pc, bits), pc)

(* trigger_exception: a trigger with timing 0 is thrown at once, one with  *)
(* timing 1 is remembered in matched_trigger first.                        *)
Watched(h, i) ==
  IF h.matched \/ i = -1 THEN Done(h, -1)
  ELSE Throws([h EXCEPT !.matched = h.mcontrol[i].timing = 1], i)
CheckTrigger(h, op, a, data) == Watched(h, TriggerMatch(h, op, a, data))

Misaligned(a, len) == a % len # 0

(* HLV, HLVX and HSV start from an empty TLB and leave one.                *)
Untagged(h, xlate) == IF xlate = "none" THEN h ELSE FlushTlb(h)
LeftUntagged(r, xlate) == IF IsDone(r) THEN [r EXCEPT !.h = Untagged(@, xlate)] ELSE r

(* load_func: a TLB hit answers whatever the alignment; a miss reads, then *)
(* looks at the triggers, then at the alignment.                           *)
LoadRead(h, a, len, pa, c) ==
  IF ~IsDone(c) THEN c
  ELSE IF Misaligned(a, len) THEN Raises(h, MemTrap(4, a, 0)) ELSE Done(h, pa)

LoadTranslated(h, a, len, data, t) ==
  LET h1 == IF t.pa \in Mem THEN RefillTlb(h, a, t.pa, "LOAD") ELSE h
  IN IF t.trap # NoTrap THEN Raises(h, t.trap)
     ELSE IF t.pa \notin Mem /\ ~MmioOk(h, t.pa) THEN Raises(h, MemTrap(5, a, 0))
     ELSE LoadRead(h1, a, len, t.pa, CheckTrigger(h1, "LOAD", a, data))

LoadSlow(h, a, len, data, xlate) ==
  LoadTranslated(h, a, len, data, Translate(h, a, len, "LOAD", xlate))

LoadWatched(h, a, len, data, xlate, c) ==
  IF HitChecked(h, "LOAD", a) /\ ~IsDone(c) THEN c
  ELSE IF Hit(h, "LOAD", a) THEN Done(h, ThroughTlb(h, a))
  ELSE LeftUntagged(LoadSlow(h, a, len, data, xlate), xlate)

LoadFrom(h, a, len, data, xlate) ==
  LoadWatched(h, a, len, data, xlate, CheckTrigger(h, "LOAD", a, data))
Load(h, a, len, data, xlate) == LoadFrom(Untagged(h, xlate), a, len, data, xlate)

(* store_func: the store is made, through the TLB or not, before the       *)
(* alignment is looked at.  pa is the address written even when it traps.  *)
StoreTranslated(h, a, t, c) ==
  IF t.trap # NoTrap THEN Raises(h, t.trap)
  ELSE IF ~IsDone(c) THEN c
  ELSE IF t.pa \in Mem THEN Done(RefillTlb(h, a, t.pa, "STORE"), t.pa)
  ELSE IF MmioOk(h, t.pa) THEN Done(h, t.pa)
  ELSE Raises(h, MemTrap(7, a, 0))

StoreSlow(h, a, len, xlate, c) ==
  StoreTranslated(h, a, Translate(h, a, len, "STORE", xlate), c)

StoreWatched(h, a, len, xlate, c) ==
  IF HitChecked(h, "STORE", a) /\ ~IsDone(c) THEN c
  ELSE IF Hit(h, "STORE", a) THEN Done(h, ThroughTlb(h, a))
  ELSE StoreSlow(h, a, len, xlate, c)

StoreMade(r, a, len, xlate) ==
  IF IsDone(r) /\ Misaligned(a, len) THEN [r EXCEPT !.trap = MemTrap(6, a, 0)]
  ELSE LeftUntagged(r, xlate)

StoreTo(h, a, len, data, xlate) ==
  StoreMade(StoreWatched(h, a, len, xlate, CheckTrigger(h, "STORE", a, data)), a, len, xlate)
Store(h, a, len, data, xlate) == StoreTo(Untagged(h, xlate), a, len, data, xlate)

(* amo_func: a misaligned address traps first, and the faults of the load  *)
(* are reported as those of a store.                                       *)
AsStore(cause) == IF cause = 13 THEN 15 ELSE IF cause = 5 THEN 7 ELSE cause

AmoLoaded(l, a, len, data) ==
  IF IsDone(l) THEN Store(l.h, a, len, data, "none")
  ELSE [l EXCEPT !.trap = IF @ = NoTrap THEN @ ELSE [@ EXCEPT !.cause = AsStore(@)]]

Amo(h, a, len, data) ==
  IF Misaligned(a, len) THEN Raises(h, MemTrap(6, a, 0))
  ELSE AmoLoaded(Load(h, a, len, data, "none"), a, len, data)

(* LR and SC: the reservation is a physical address, found by a translation*)
(* of its own after LR's load and before SC's store.                       *)
YieldReservation(h) == [h EXCEPT !.reservation = -1]

Reserved(l, a, t) ==
  IF t.trap # NoTrap THEN Raises(l.h, t.trap)
  ELSE IF t.pa \notin Mem THEN Raises(l.h, MemTrap(5, a, 0))
  ELSE Done([RefillTlb(l.h, a, t.pa, "LOAD") EXCEPT !.reservation = t.pa], l.pa)

Reserve(l, a) == IF IsDone(l) THEN Reserved(l, a, Translate(l.h, a, 1, "LOAD", "none")) ELSE l

LoadReserved(h, a, len, data) == Reserve(Load(h, a, len, data, "none"), a)

Conditional(s) == IF IsDone(s) THEN [s EXCEPT !.h = YieldReservation(@)] ELSE s

ConditionalAt(h, a, len, data, t) ==
  LET h1 == RefillTlb(h, a, t.pa, "STORE")
  IN IF t.trap # NoTrap THEN Raises(h, t.trap)
     ELSE IF t.pa \notin Mem THEN Raises(h, MemTrap(7, a, 0))
     ELSE IF h.reservation # t.pa THEN Done(YieldReservation(h1), -1)
     ELSE Conditional(Store(h1, a, len, data, "none"))

StoreConditional(h, a, len, data) ==
  IF Misaligned(a, len) THEN Raises(h, MemTrap(6, a, 0))
  ELSE ConditionalAt(h, a, len, data, Translate(h, a, 1, "STORE", "none"))
=============================================================================
