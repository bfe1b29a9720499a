-------------------------- MODULE Multicore_proofs --------------------------
(***************************************************************************)
(* Proofs about a multicore run, for any number of cores, batches,         *)
(* iterations and kills. Two arguments: a slot of proc_pid_arr belongs to  *)
(* one child until the parent has waited for it, so the loop that kills    *)
(* misses none; and a number between write_num and the file it names is    *)
(* nobody else's, since it was read and written under its semaphore.       *)
(***************************************************************************)
EXTENDS Multicore, FiniteSetTheorems, WellFoundedInduction, TLAPS

NumSteps == {"num_locked", "num_read", "num_written"}
GetSteps == {"get_locked", "state_done"}
LogSteps == {"log_locked", "cov_done"}

\* the part of procManager's memory that the parent and the children share
ManagerTypes ==
  /\ sem \in [Sems -> 0..1]
  /\ shm \in [Counters -> 0..NumMax]
  /\ pc \in [Clients -> NumSteps \cup GetSteps \cup LogSteps \cup {"free", "dead"}]
  /\ holds \in [Clients -> Sems \cup {None}]
  /\ num \in [Clients -> 0..NumMax]

-----------------------------------------------------------------------------
(* The slots of proc_pid_arr                                                *)

\* the parent has the slot of the child it has just waited for
Waited == ppc \in {"get_state", "check", "killing"} =>
            /\ ended \in Kids /\ kid[ended] = "reaped" /\ pids[slot[ended]] = ended

\* a child that is not waited for stands in its slot, and in no other
Slots ==
  /\ \A k \in Kids : k > forked => kid[k] = "none"
  /\ \A n \in Procs : pids[n] # 0 => pids[n] <= forked /\ slot[pids[n]] = n
  /\ \A k \in Kids : kid[k] \in {"alive", "zombie"} => pids[slot[k]] = k
  /\ Waited

\* the slots that the loop of kill has passed
Passed == /\ ppc \in {"killing", "exit"} =>
               \A n \in Procs : n < victim => \A k \in Alive : pids[n] # k
          /\ ppc = "exit" => victim = Cores
          /\ ppc \in {"killed", "ended"} => Alive = {}

-----------------------------------------------------------------------------
(* The numbers                                                              *)

HeldSems ==
  \A p \in Clients : /\ pc[p] = "free" => holds[p] = None
                     /\ pc[p] \in NumSteps => holds[p] \in Counters
                     /\ pc[p] \in GetSteps => holds[p] = "state"
                     /\ pc[p] \in LogSteps => holds[p] = "covMap"

Exclusive ==
  /\ \A p \in Clients : holds[p] # None => sem[holds[p]] = 0
  /\ \A p, q \in Clients : holds[p] = holds[q] /\ holds[p] # None => p = q

\* the number read is still the next one
NumIsNext == \A p \in Clients : pc[p] = "num_read" => num[p] = shm[holds[p]]

Active(k) == kid[k] \in {"none", "alive"}

\* where Run is, and where it is in a call of the manager
RunCall(k) ==
  Active(k) =>
    /\ kpc[k] = "start" => pc[k] \in LogSteps \cup {"free"}
    /\ kpc[k] = "mismatch" => pc[k] \in NumSteps /\ holds[k] = "mNum"
    /\ kpc[k] = "corpus" => pc[k] \in NumSteps /\ holds[k] = "cNum"
    /\ kpc[k] \in {"test", "save_mismatch", "mismatch_saved", "save_corpus"} => pc[k] = "free"
    /\ kpc[k] \notin {"start", "test"} => iter[k] <= MaxIters

RunCalls    == \A k \in Kids : RunCall(k)
ParentCalls == pc[Parent] \in GetSteps \cup {"free"}

\* num[k] is taken for a file of c that is not written yet
Owns(k, c) ==
  /\ Active(k)
  /\ \/ pc[k] = "num_written" /\ holds[k] = c
     \/ c = "mNum" /\ kpc[k] = "save_mismatch"
     \/ c = "cNum" /\ kpc[k] = "save_corpus"

Owned ==
  /\ \A k \in Kids, c \in Counters : Owns(k, c) =>
       num[k] < shm[c] /\ \A s \in saved : s[1] = c => s[2] # num[k]
  /\ \A k, l \in Kids, c \in Counters : Owns(k, c) /\ Owns(l, c) /\ num[k] = num[l] => k = l
  /\ \A s \in saved : s[2] < shm[s[1]]

Mutex    == HeldSems /\ Exclusive /\ NumIsNext
Protocol == RunCalls /\ ParentCalls
Saving   == Owned /\ NoOverwrite

Parents  == Slots /\ Passed
Numbers  == Mutex /\ Protocol /\ Saving

MulticoreIInv == /\ ManagerTypes /\ MulticoreTypeOK
                 /\ Parents /\ Numbers
-----------------------------------------------------------------------------
(* Numbers have a least one: the slot index(0) finds.                       *)

LEMMA LeastIn ==
  ASSUME NEW S \in SUBSET Nat, S # {}
  PROVE  \E m \in S : \A n \in S : m <= n
<1> DEFINE Below(n) == 0 .. (n - 1)
           Segments == {Below(n) : n \in S}
           R == StrictSubsetOrdering(Nat)
<1>1. Segments \subseteq FiniteSubsetsOf(Nat)
  <2> SUFFICES ASSUME NEW n \in S PROVE Below(n) \in FiniteSubsetsOf(Nat)
    OBVIOUS
  <2>1. n \in Nat /\ n - 1 \in Int
    OBVIOUS
  <2>2. IsFiniteSet(Below(n))
    BY <2>1, FS_Interval
  <2> QED BY <2>1, <2>2 DEF FiniteSubsetsOf
<1>2. Segments # {}
  OBVIOUS
<1>3. IsWellFoundedOn(R, FiniteSubsetsOf(Nat))
  BY FS_StrictSubsetOrderingWellFounded
<1>4. PICK T \in Segments : \A U \in Segments : ~(<<U, T>> \in R)
  <2> HIDE DEF R, Segments
  <2> QED BY <1>1, <1>2, <1>3, WFMin
<1>5. PICK m \in S : T = Below(m)
  OBVIOUS
<1>6. ASSUME NEW n \in S PROVE m <= n
  <2> SUFFICES ASSUME n < m PROVE FALSE
    OBVIOUS
  <2>1. Below(n) \subseteq Below(m) /\ n \in Below(m) /\ n \notin Below(n)
    OBVIOUS
  <2>2. <<Below(n), Below(m)>> \in R
    BY <2>1 DEF StrictSubsetOrdering
  <2> QED BY <1>4, <1>5, <2>2
<1> QED BY <1>6

LEMMA Clients0 == /\ Parent \in Clients /\ Parent \notin Kids /\ Kids \subseteq Clients
                  /\ Procs \subseteq Nat /\ 0 \in Procs
                  /\ Forks \in Nat /\ Cores \in Nat /\ MaxIters \in Nat
                  /\ "mNum" \in Counters /\ "cNum" \in Counters
                  /\ Counters \subseteq Sems /\ "state" \in Sems /\ "covMap" \in Sems
                  /\ "state" \notin Counters /\ "covMap" \notin Counters
                  /\ None \notin Sems /\ NumMax \in Nat /\ Normal \in Codes
BY MulticoreConstants, ManagerConstants DEF Parent, Kids, Sems

-----------------------------------------------------------------------------
(* Steps that leave a part alone                                            *)

LEMMA ParentsFrame ==
  ASSUME MulticoreIInv, UNCHANGED <<parentVars, kid, slot>>
  PROVE  Parents'
BY DEF MulticoreIInv, Parents, Slots, Waited, Passed, Alive, parentVars

\* a child that ends is not waited for yet
LEMMA ParentsDeath ==
  ASSUME MulticoreIInv, NEW k \in Kids, kid[k] = "alive", kid' = [kid EXCEPT ![k] = "zombie"],
         UNCHANGED <<parentVars, slot>>
  PROVE  Parents'
<1> USE DEF MulticoreIInv, Parents, MulticoreTypeOK, parentVars
<1>1. Slots'
  BY DEF Slots, Waited
<1>2. Alive' \subseteq Alive
  BY DEF Alive
<1>3. Passed'
  BY <1>2 DEF Passed
<1> QED BY <1>1, <1>3

\* a step that changes nothing of the numbers, whoever dies
LEMMA NumbersFrame ==
  ASSUME MulticoreIInv, UNCHANGED <<sem, shm, pc, holds, num, kpc, iter, saved>>,
         \A k \in Kids : Active(k)' => Active(k)
  PROVE  Numbers'
<1> USE DEF MulticoreIInv, Numbers
<1>1. Mutex'
  BY DEF Mutex, HeldSems, Exclusive, NumIsNext
<1>2. Protocol'
  BY DEF Protocol, RunCalls, RunCall, ParentCalls
<1>3. \A k \in Kids, c \in Counters : Owns(k, c)' => Owns(k, c)
  BY DEF Owns
<1>4. Saving'
  BY <1>3 DEF Saving, Owned, NoOverwrite
<1> QED BY <1>1, <1>2, <1>4

\* a step that takes no number and saves none
LEMMA SavingFrame ==
  ASSUME Saving, UNCHANGED <<shm, saved>>,
         \A k \in Kids, c \in Counters : Owns(k, c)' => Owns(k, c) /\ num'[k] = num[k]
  PROVE  Saving'
BY DEF Saving, Owned, NoOverwrite

LEMMA ManagerFrame ==
  ASSUME ManagerTypes, UNCHANGED <<sem, shm, pc, holds, num>>
  PROVE  ManagerTypes'
BY DEF ManagerTypes

-----------------------------------------------------------------------------
(* Semaphores                                                               *)

\* taking a free semaphore makes its taker the only holder
LEMMA DownMutex ==
  ASSUME ManagerTypes, Mutex, NEW p \in Clients, NEW s \in Sems, NEW to,
         \/ s \in Counters /\ to = "num_locked"
         \/ s = "state" /\ to = "get_locked"
         \/ s = "covMap" /\ to = "log_locked",
         Down(p, s, to), UNCHANGED <<shm, num>>
  PROVE  Mutex' /\ ManagerTypes'
<1> USE DEF ManagerTypes, Mutex, Down, Step, NumSteps, GetSteps, LogSteps
<1>1. sem[s] = 1 /\ sem' = [sem EXCEPT ![s] = 0]
  <2>1. sem[s] \in 0..1 /\ sem[s] > 0
    OBVIOUS
  <2>2. sem[s] = 1
    BY <2>1
  <2> QED BY <2>2
<1>2. \A q \in Clients : holds[q] # s
  BY <1>1, Clients0 DEF Exclusive
<1>3. HeldSems'
  BY DEF HeldSems
<1>4. Exclusive'
  BY <1>1, <1>2, Clients0 DEF Exclusive
<1>5. NumIsNext'
  BY DEF NumIsNext
<1>6. ManagerTypes'
  BY <1>1
<1> QED BY <1>3, <1>4, <1>5, <1>6

\* giving one back leaves it without a holder
LEMMA UpMutex ==
  ASSUME ManagerTypes, Mutex, NEW p \in Clients,
         NEW from \in {"num_written", "state_done", "cov_done"}, Up(p, from),
         UNCHANGED <<shm, num>>
  PROVE  Mutex' /\ ManagerTypes'
<1> USE DEF ManagerTypes, Mutex, Up, Step, NumSteps, GetSteps, LogSteps
<1>1. holds[p] \in Sems /\ holds[p] # None
  BY Clients0 DEF HeldSems
<1>2. sem' = [sem EXCEPT ![holds[p]] = 1]
  <2>1. sem[holds[p]] = 0
    BY <1>1 DEF Exclusive
  <2>2. sem[holds[p]] + 1 = 1
    BY <2>1
  <2> QED BY <2>2
<1>3. \A q \in Clients : q # p => holds[q] # holds[p]
  BY <1>1 DEF Exclusive
<1>4. HeldSems'
  BY DEF HeldSems
<1>5. Exclusive'
  BY <1>1, <1>2, <1>3, Clients0 DEF Exclusive
<1>6. NumIsNext'
  BY DEF NumIsNext
<1>7. ManagerTypes'
  BY <1>1, <1>2
<1> QED BY <1>4, <1>5, <1>6, <1>7

\* a step inside a call keeps what is held
LEMMA InnerMutex ==
  ASSUME ManagerTypes, Mutex, NEW p \in Clients, NEW to, UNCHANGED <<sem, holds>>,
         pc' = [pc EXCEPT ![p] = to],
         \/ pc[p] \in NumSteps /\ to \in NumSteps
         \/ pc[p] \in GetSteps /\ to \in GetSteps
         \/ pc[p] \in LogSteps /\ to \in LogSteps
         \/ to = "dead"
  PROVE  HeldSems' /\ Exclusive'
         /\ pc' \in [Clients -> NumSteps \cup GetSteps \cup LogSteps \cup {"free", "dead"}]
<1> USE DEF ManagerTypes, Mutex, NumSteps, GetSteps, LogSteps
<1>1. HeldSems'
  BY DEF HeldSems
<1>2. Exclusive'
  BY DEF Exclusive
<1> QED BY <1>1, <1>2
-----------------------------------------------------------------------------
(* The parent                                                               *)

\* the least free slot goes to the child
LEMMA ForkStep ==
  ASSUME MulticoreIInv, Fork
  PROVE  MulticoreIInv'
<1> USE DEF MulticoreIInv
<1> DEFINE S == Procs \ Running
           new == forked + 1
<1>1. S \in SUBSET Nat /\ S # {}
  BY Clients0 DEF Fork, Waits, Running
<1>2. PICK n \in S : pids' = [pids EXCEPT ![n] = new] /\ slot' = [slot EXCEPT ![new] = n]
  <2> DEFINE least == CHOOSE m \in S : \A o \in S : m <= o
  <2>1. least \in S
    <3> HIDE DEF S
    <3> QED BY <1>1, LeastIn
  <2> QED BY <2>1 DEF Fork
<1>3. /\ new \in Kids /\ kid' = [kid EXCEPT ![new] = "alive"] /\ forked' = new
      /\ ppc = "main" /\ kid[new] = "none"
      /\ UNCHANGED <<pmVars, ppc, ended, victim, exit, kpc, iter, stop, saved, kills>>
  BY Clients0 DEF Fork, Parents, Slots, MulticoreTypeOK, Kids
<1>4. n \in Procs /\ pids[n] = 0
  BY <1>2 DEF Running
<1>5. MulticoreTypeOK'
  BY <1>2, <1>3, <1>4, Clients0 DEF MulticoreTypeOK, Over, Kids
<1>6. ManagerTypes' /\ Numbers'
  BY <1>3, ManagerFrame, NumbersFrame DEF pmVars, Active, MulticoreTypeOK
<1>7. Slots'
  <2>1. \A k \in Kids : k > new => kid'[k] = "none"
    BY <1>3, Clients0 DEF Parents, Slots, MulticoreTypeOK, Kids
  <2>2. \A m \in Procs : pids'[m] # 0 => pids'[m] <= new /\ slot'[pids'[m]] = m
    <3> SUFFICES ASSUME NEW m \in Procs, pids'[m] # 0
                 PROVE  pids'[m] <= new /\ slot'[pids'[m]] = m
      OBVIOUS
    <3>1. CASE m = n
      BY <3>1, <1>2, <1>3, <1>4 DEF MulticoreTypeOK, Kids
    <3>2. CASE m # n
      <4>1. pids'[m] = pids[m] /\ pids[m] \in 0..Forks
        BY <3>2, <1>2, <1>4 DEF MulticoreTypeOK
      <4>2. pids[m] <= forked /\ slot[pids[m]] = m /\ forked \in Nat
        BY <4>1, Clients0 DEF Parents, Slots, MulticoreTypeOK
      <4>3. pids[m] # new /\ pids[m] <= new
        BY <4>1, <4>2
      <4> QED BY <4>1, <4>2, <4>3, <1>2 DEF MulticoreTypeOK
    <3> QED BY <3>1, <3>2
  <2>3. \A k \in Kids : kid'[k] \in {"alive", "zombie"} => pids'[slot'[k]] = k
    <3> SUFFICES ASSUME NEW k \in Kids, kid'[k] \in {"alive", "zombie"}
                 PROVE  pids'[slot'[k]] = k
      OBVIOUS
    <3>1. CASE k = new
      BY <3>1, <1>2, <1>3, <1>4 DEF MulticoreTypeOK
    <3>2. CASE k # new
      <4>1. kid[k] = kid'[k] /\ slot'[k] = slot[k] /\ slot[k] \in Procs
        BY <3>2, <1>2, <1>3 DEF MulticoreTypeOK
      <4>2. pids[slot[k]] = k /\ k # 0
        BY <4>1 DEF Parents, Slots, Kids
      <4> QED BY <4>1, <4>2, <1>2, <1>4 DEF MulticoreTypeOK
    <3> QED BY <3>1, <3>2
  <2>4. Waited'
    BY <1>3 DEF Waited
  <2> QED BY <2>1, <2>2, <2>3, <2>4, <1>3 DEF Slots
<1>8. Passed'
  BY <1>3 DEF Passed
<1> QED BY <1>5, <1>6, <1>7, <1>8 DEF Parents

LEMMA WaitPidStep ==
  ASSUME MulticoreIInv, NEW k \in Kids, WaitPid(k)
  PROVE  MulticoreIInv'
<1> USE DEF MulticoreIInv
<1>1. /\ ppc = "main" /\ kid[k] = "zombie" /\ kid' = [kid EXCEPT ![k] = "reaped"] /\ ended' = k
      /\ \/ ppc' = "killing" /\ victim' = 0
         \/ ppc' = "get_state" /\ victim' = victim
      /\ UNCHANGED <<pmVars, pids, forked, exit, slot, kpc, iter, stop, saved, kills>>
  BY DEF WaitPid
<1>2. MulticoreTypeOK'
  BY <1>1, Clients0 DEF MulticoreTypeOK, Over, Kids
<1>3. ManagerTypes' /\ Numbers'
  BY <1>1, ManagerFrame, NumbersFrame DEF pmVars, Active, MulticoreTypeOK
<1>4. Slots'
  BY <1>1 DEF Parents, Slots, Waited, MulticoreTypeOK
<1>5. Passed'
  <2>1. \A n \in Procs : ~(n < 0)
    BY Clients0
  <2> QED BY <1>1, <2>1 DEF Passed
<1> QED BY <1>2, <1>3, <1>4, <1>5 DEF Parents

\* get_state of the parent takes the semaphore of the states only
LEMMA GetStateStep ==
  ASSUME MulticoreIInv, GetState
  PROVE  MulticoreIInv'
<1> USE DEF MulticoreIInv
<1>1. /\ ppc = "get_state" /\ ppc' \in {"get_state", "check"}
      /\ UNCHANGED <<pids, forked, ended, victim, kidVars, kills>>
      /\ UNCHANGED <<shm, num>>
  BY DEF GetState, BeginGetState, ReadStates, EndState, numVars
<1>2. MulticoreTypeOK'
  BY <1>1 DEF MulticoreTypeOK, kidVars, Over
<1>3. Slots'
  BY <1>1 DEF Parents, Slots, Waited, kidVars
<1>4. Passed'
  BY <1>1 DEF Passed
<1>5. /\ Mutex' /\ ManagerTypes' /\ ParentCalls'
      /\ \A p \in Clients \ {Parent} : pc'[p] = pc[p] /\ holds'[p] = holds[p]
  <2> USE Clients0 DEF NumSteps, GetSteps, LogSteps
  <2>1. CASE BeginGetState(Parent)
    <3>1. Down(Parent, "state", "get_locked") /\ UNCHANGED <<shm, num>>
      BY <2>1, <1>1 DEF BeginGetState
    <3>2. Mutex' /\ ManagerTypes'
      BY <3>1, DownMutex DEF Numbers
    <3> QED BY <3>1, <3>2 DEF Down, Step, ManagerTypes, ParentCalls
  <2>2. CASE ReadStates(Parent)
    <3>1. /\ pc[Parent] = "get_locked" /\ pc' = [pc EXCEPT ![Parent] = "state_done"]
          /\ UNCHANGED <<sem, holds, shm, num>>
      BY <2>2, <1>1 DEF ReadStates, Step, Numbers, Protocol, ParentCalls
    <3>2. HeldSems' /\ Exclusive'
          /\ pc' \in [Clients -> NumSteps \cup GetSteps \cup LogSteps \cup {"free", "dead"}]
      BY <3>1, InnerMutex DEF Numbers
    <3>3. NumIsNext'
      BY <3>1 DEF Numbers, Mutex, NumIsNext, ManagerTypes
    <3> QED BY <3>1, <3>2, <3>3 DEF Mutex, ManagerTypes, ParentCalls
  <2>3. CASE EndState(Parent)
    <3>1. Up(Parent, "state_done") /\ UNCHANGED <<shm, num>>
      BY <2>3, <1>1 DEF EndState
    <3>2. Mutex' /\ ManagerTypes'
      BY <3>1, UpMutex DEF Numbers
    <3> QED BY <3>1, <3>2 DEF Up, Step, ManagerTypes, ParentCalls
  <2> QED BY <2>1, <2>2, <2>3 DEF GetState
<1>6. \A k \in Kids : pc'[k] = pc[k] /\ holds'[k] = holds[k]
  BY <1>5, Clients0
<1>7. RunCalls'
  BY <1>1, <1>6 DEF Numbers, Protocol, RunCalls, RunCall, Active, kidVars
<1>8. \A k \in Kids, c \in Counters : Owns(k, c)' => Owns(k, c) /\ num'[k] = num[k]
  BY <1>1, <1>6 DEF Owns, Active, kidVars
<1>9. Saving'
  BY <1>1, <1>8, SavingFrame DEF Numbers, kidVars
<1> QED BY <1>2, <1>3, <1>4, <1>5, <1>7, <1>9 DEF Parents, Numbers, Protocol

\* the slot of the child that was waited for is free again
LEMMA CheckStep ==
  ASSUME MulticoreIInv, Check
  PROVE  MulticoreIInv'
<1> USE DEF MulticoreIInv
<1>1. /\ ppc = "check" /\ UNCHANGED <<pmVars, forked, ended, kidVars, kills>>
      /\ \/ ppc' = "killing" /\ victim' = 0 /\ UNCHANGED pids
         \/ ppc' = "main" /\ pids' = [pids EXCEPT ![Idx(ended)] = 0] /\ UNCHANGED victim
  BY DEF Check
<1>2. Idx(ended) \in Procs /\ pids[Idx(ended)] = ended
  <2>1. slot[ended] \in Procs /\ pids[slot[ended]] = ended
    BY <1>1 DEF Parents, Slots, Waited, MulticoreTypeOK
  <2> QED BY <2>1 DEF Idx
<1>3. MulticoreTypeOK'
  BY <1>1, <1>2, Clients0 DEF MulticoreTypeOK, kidVars, Over
<1>4. ManagerTypes' /\ Numbers'
  BY <1>1, ManagerFrame, NumbersFrame DEF pmVars, kidVars, Active
<1>5. \A k \in Kids : kid[k] \in {"alive", "zombie"} => slot[k] # Idx(ended)
  BY <1>1, <1>2 DEF Parents, Slots, Waited
<1>6. Slots'
  BY <1>1, <1>5 DEF Parents, Slots, Waited, kidVars, MulticoreTypeOK
<1>7. Passed'
  <2>1. \A n \in Procs : ~(n < 0)
    BY Clients0
  <2> QED BY <1>1, <2>1 DEF Passed
<1> QED BY <1>3, <1>4, <1>6, <1>7 DEF Parents

\* no child in the slots that were passed: kill(0) leaves none at all
LEMMA KillNextStep ==
  ASSUME MulticoreIInv, KillNext
  PROVE  MulticoreIInv'
<1> USE DEF MulticoreIInv
<1>1. ppc = "killing" /\ UNCHANGED <<pmVars, pids, forked, ended, exit, slot, kpc, iter, stop, saved, kills>>
  BY DEF KillNext
<1>2. (\E S : Killed(S)) \/ UNCHANGED kid
  BY DEF KillNext
<1>3. \A k \in Kids : kid'[k] = kid[k] \/ (kid[k] = "alive" /\ kid'[k] = "killed")
  BY <1>2 DEF Killed
<1>4. kid' \in [Kids -> {"none", "alive", "zombie", "reaped", "killed"}]
  <2>1. UNCHANGED kid \/ kid' = [k \in Kids |-> kid'[k]]
    BY <1>2 DEF Killed
  <2> QED BY <2>1, <1>3 DEF MulticoreTypeOK
<1>5. ppc' \in {"killing", "exit", "killed"} /\ victim' \in 0..Cores
  BY <1>1, Clients0 DEF KillNext, MulticoreTypeOK
<1>6. MulticoreTypeOK'
  BY <1>1, <1>4, <1>5 DEF MulticoreTypeOK, Over
<1>7. ManagerTypes' /\ Numbers'
  <2>1. \A k \in Kids : Active(k)' => Active(k)
    BY <1>3 DEF Active
  <2> QED BY <1>1, <2>1, ManagerFrame, NumbersFrame DEF pmVars
<1>8. Slots'
  BY <1>1, <1>3 DEF Parents, Slots, Waited
<1>9. Passed'
  <2>1. Alive' \subseteq Alive
    BY <1>3 DEF Alive
  <2>2. CASE victim = Cores /\ ppc' = "exit" /\ UNCHANGED victim
    BY <2>1, <2>2, <1>1 DEF Parents, Passed
  <2>3. CASE ppc' = "killed" /\ Killed(Kids)
    BY <2>3 DEF Killed, Passed, Alive
  <2>4. CASE victim < Cores /\ pids[victim] # 0 /\ Killed({pids[victim]} \ {ended})
             /\ victim' = victim + 1 /\ UNCHANGED ppc
    <3>1. \A k \in Alive' : pids[victim] # k
      <4> SUFFICES ASSUME NEW k \in Alive', pids[victim] = k PROVE FALSE
        OBVIOUS
      <4>1. k \in Kids /\ kid'[k] = "alive" /\ kid[k] = "alive"
        BY <2>1 DEF Alive
      <4>2. k = ended
        BY <4>1, <2>4 DEF Killed
      <4> QED BY <4>1, <4>2, <1>1 DEF Parents, Slots, Waited
    <3>2. \A n \in Procs : n < victim + 1 => n < victim \/ n = victim
      <4>1. victim \in Nat
        BY Clients0 DEF MulticoreTypeOK
      <4>2. Procs \subseteq Nat
        BY Clients0
      <4> QED BY <4>1, <4>2
    <3>3. \A n \in Procs : n < victim' => \A k \in Alive' : pids'[n] # k
      <4>1. \A n \in Procs : n < victim => \A k \in Alive' : pids[n] # k
        BY <2>1, <1>1 DEF Parents, Passed
      <4> QED BY <1>1, <2>4, <3>1, <3>2, <4>1
    <3>4. ppc' = "killing"
      BY <1>1, <2>4
    <3> QED BY <3>3, <3>4 DEF Passed
  <2> QED BY <2>2, <2>3, <2>4 DEF KillNext
<1> QED BY <1>6, <1>7, <1>8, <1>9 DEF Parents

\* nobody is in a slot when the semaphores are removed
LEMMA FinishStep ==
  ASSUME MulticoreIInv, Finish
  PROVE  MulticoreIInv'
<1> USE DEF MulticoreIInv
<1>1. /\ ppc = "main" /\ ppc' = "ended" /\ Running = {}
      /\ UNCHANGED <<pmVars, pids, forked, ended, victim, kidVars, kills>>
  BY DEF Finish
<1>2. MulticoreTypeOK'
  BY <1>1 DEF MulticoreTypeOK, kidVars, Over
<1>3. ManagerTypes' /\ Numbers'
  BY <1>1, ManagerFrame, NumbersFrame DEF pmVars, kidVars, Active
<1>4. Slots'
  BY <1>1 DEF Parents, Slots, Waited, kidVars
<1>5. Alive' = {}
  <2> SUFFICES ASSUME NEW k \in Kids, kid[k] = "alive" PROVE FALSE
    BY <1>1 DEF Alive, kidVars
  <2>1. slot[k] \in Procs /\ pids[slot[k]] = k /\ k # 0
    BY DEF Parents, Slots, MulticoreTypeOK, Kids
  <2> QED BY <1>1, <2>1 DEF Running
<1>6. Passed'
  BY <1>1, <1>5 DEF Passed
<1> QED BY <1>2, <1>3, <1>4, <1>6 DEF Parents
-----------------------------------------------------------------------------
(* A child                                                                  *)

\* the other processes are where they were
Others(k) ==
  /\ \A l \in Kids \ {k} : /\ pc'[l] = pc[l] /\ holds'[l] = holds[l] /\ num'[l] = num[l]
                           /\ kpc'[l] = kpc[l] /\ iter'[l] = iter[l]
  /\ pc'[Parent] = pc[Parent] /\ UNCHANGED kid

LEMMA OthersProtocol ==
  ASSUME Protocol, NEW k \in Kids, Others(k), RunCall(k)'
  PROVE  Protocol'
<1>1. ASSUME NEW l \in Kids \ {k} PROVE RunCall(l)'
  BY DEF Protocol, RunCalls, RunCall, Others, Active
<1> QED BY <1>1 DEF Protocol, RunCalls, ParentCalls, Others

LEMMA OthersSaving ==
  ASSUME Saving, NEW k \in Kids, Others(k), UNCHANGED <<shm, saved>>,
         \A c \in Counters : Owns(k, c)' => Owns(k, c) /\ num'[k] = num[k]
  PROVE  Saving'
<1>1. \A l \in Kids \ {k}, c \in Counters : Owns(l, c)' => Owns(l, c) /\ num'[l] = num[l]
  BY DEF Owns, Others, Active
<1> QED BY <1>1, SavingFrame

LEMMA KidTypes ==
  ASSUME MulticoreTypeOK, KidKeeps, iter' \in [Kids -> 1..(MaxIters + 1)],
         stop' \in [Kids -> Codes],
         kpc' = kpc \/ \E k \in Kids, to \in {"start", "test", "mismatch", "save_mismatch",
                                              "mismatch_saved", "corpus", "save_corpus"} :
                         kpc' = [kpc EXCEPT ![k] = to],
         saved' \subseteq Counters \X (0..NumMax) \X Clients \X (0..MaxIters)
  PROVE  MulticoreTypeOK'
BY DEF MulticoreTypeOK, KidKeeps, parentVars, Over

LEMMA KidParents ==
  ASSUME MulticoreIInv, KidKeeps
  PROVE  Parents'
BY ParentsFrame DEF KidKeeps

\* the last line of cov_log is read
LEMMA StartKidStep ==
  ASSUME MulticoreIInv, NEW k \in Kids, StartKid(k)
  PROVE  MulticoreIInv'
<1> USE Clients0 DEF MulticoreIInv, NumSteps, GetSteps, LogSteps
<1>1. /\ kid[k] = "alive" /\ kpc[k] = "start" /\ KidKeeps /\ UNCHANGED <<iter, stop, saved>>
      /\ UNCHANGED <<shm, num>>
  BY DEF StartKid, BeginReadLog, ReadLog, EndCov, numVars
<1>2. MulticoreTypeOK' /\ Parents'
  BY <1>1, KidTypes, KidParents DEF MulticoreTypeOK, StartKid, Goto
<1>3. /\ Mutex' /\ ManagerTypes' /\ Others(k)
      /\ \/ kpc'[k] = "start" /\ pc'[k] \in LogSteps \cup {"free"}
         \/ kpc'[k] = "test" /\ pc'[k] = "free"
  <2>1. CASE BeginReadLog(k) /\ UNCHANGED kpc
    <3>1. Down(k, "covMap", "log_locked")
      BY <2>1 DEF BeginReadLog
    <3>2. Mutex' /\ ManagerTypes'
      BY <3>1, <1>1, DownMutex DEF Numbers
    <3>3. Others(k) /\ pc'[k] = "log_locked"
      BY <2>1, <3>1, <1>1 DEF Down, Step, ManagerTypes, Others, KidKeeps
    <3>4. kpc'[k] = "start"
      BY <1>1, <2>1
    <3> QED BY <3>2, <3>3, <3>4
  <2>2. CASE ReadLog(k) /\ UNCHANGED kpc
    <3>1. /\ pc[k] = "log_locked" /\ pc' = [pc EXCEPT ![k] = "cov_done"]
          /\ UNCHANGED <<sem, holds, shm, num>>
      BY <2>2, <1>1 DEF ReadLog, Step
    <3>2. HeldSems' /\ Exclusive'
          /\ pc' \in [Clients -> NumSteps \cup GetSteps \cup LogSteps \cup {"free", "dead"}]
      BY <3>1, InnerMutex DEF Numbers
    <3>3. NumIsNext'
      BY <3>1 DEF Numbers, Mutex, NumIsNext, ManagerTypes
    <3>4. Others(k) /\ pc'[k] = "cov_done"
      BY <2>2, <3>1, <1>1 DEF ManagerTypes, Others, KidKeeps
    <3>5. kpc'[k] = "start"
      BY <1>1, <2>2
    <3>6. Mutex' /\ ManagerTypes'
      BY <3>1, <3>2, <3>3 DEF Mutex, ManagerTypes
    <3> QED BY <3>4, <3>5, <3>6
  <2>3. CASE EndCov(k) /\ Goto(k, "start", "test")
    <3>1. Up(k, "cov_done") /\ kpc' = [kpc EXCEPT ![k] = "test"]
      BY <2>3 DEF EndCov, Goto
    <3>2. Mutex' /\ ManagerTypes'
      BY <3>1, <1>1, UpMutex DEF Numbers
    <3>3. Others(k) /\ pc'[k] = "free" /\ kpc'[k] = "test"
      BY <3>1, <1>1 DEF Up, Step, ManagerTypes, MulticoreTypeOK, Others, KidKeeps
    <3> QED BY <3>2, <3>3
  <2> QED BY <2>1, <2>2, <2>3 DEF StartKid
<1>4. RunCall(k)'
  BY <1>3 DEF RunCall
<1>5. Protocol'
  BY <1>3, <1>4, OthersProtocol DEF Numbers
<1>6. \A c \in Counters : ~Owns(k, c)'
  BY <1>3 DEF Owns
<1>7. Saving'
  BY <1>1, <1>3, <1>6, OthersSaving DEF Numbers
<1> QED BY <1>2, <1>3, <1>5, <1>7 DEF Numbers
\* iterations that end without a call of the manager
LEMMA QuietStep ==
  ASSUME MulticoreIInv, NEW k \in Kids, TestFails(k) \/ TestDropped(k) \/ NoNewTransition(k)
  PROVE  MulticoreIInv'
<1> USE Clients0 DEF MulticoreIInv
<1>1. /\ kid[k] = "alive" /\ iter[k] \in 1..MaxIters /\ iter' = [iter EXCEPT ![k] = @ + 1]
      /\ kpc[k] \in {"test", "mismatch_saved"} /\ kpc' = [kpc EXCEPT ![k] = "test"]
      /\ UNCHANGED <<pmVars, saved>> /\ KidKeeps
  <2>1. iter[k] \in 1..(MaxIters + 1) /\ RunCall(k)
    BY DEF MulticoreTypeOK, Numbers, Protocol, RunCalls
  <2>2. iter[k] <= MaxIters
    BY <2>1 DEF TestFails, TestDropped, NoNewTransition, RunsOn, Goto, RunCall, Active
  <2>3. CASE NoNewTransition(k)
    BY <2>1, <2>2, <2>3 DEF NoNewTransition, NextIter, Goto
  <2>4. CASE TestFails(k) \/ TestDropped(k)
    <3>1. kpc[k] = "test" /\ UNCHANGED kpc
      BY <2>4 DEF TestFails, TestDropped
    <3>2. kpc' = [kpc EXCEPT ![k] = "test"]
      BY <3>1 DEF MulticoreTypeOK
    <3>3. kid[k] = "alive" /\ NextIter(k) /\ UNCHANGED <<pmVars, saved>> /\ KidKeeps
      BY <2>4 DEF TestFails, TestDropped, RunsOn
    <3>4. iter[k] \in 1..MaxIters
      BY <2>1, <2>2
    <3> QED BY <3>1, <3>2, <3>3, <3>4 DEF NextIter
  <2> QED BY <2>3, <2>4
<1>2. stop' \in [Kids -> Codes]
  <2>1. (CHOOSE code \in Codes : code # Normal) \in Codes
    BY MulticoreConstants
  <2> QED BY <2>1 DEF TestFails, TestDropped, NoNewTransition, MulticoreTypeOK
<1>3. MulticoreTypeOK' /\ Parents'
  <2>1. iter' \in [Kids -> 1..(MaxIters + 1)]
    BY <1>1 DEF MulticoreTypeOK
  <2> QED BY <1>1, <1>2, <2>1, KidTypes, KidParents DEF MulticoreTypeOK
<1>4. ManagerTypes' /\ Mutex' /\ Others(k)
  BY <1>1, ManagerFrame DEF Numbers, Mutex, HeldSems, Exclusive, NumIsNext, pmVars, Others,
                            KidKeeps, MulticoreTypeOK
<1>5. kpc'[k] = "test" /\ pc'[k] = "free"
  BY <1>1 DEF Numbers, Protocol, RunCalls, RunCall, Active, pmVars, MulticoreTypeOK
<1>6. RunCall(k)'
  BY <1>5 DEF RunCall
<1>7. Protocol'
  BY <1>4, <1>6, OthersProtocol DEF Numbers
<1>8. \A c \in Counters : ~Owns(k, c)'
  BY <1>5 DEF Owns
<1>9. Saving'
  BY <1>1, <1>4, <1>8, OthersSaving DEF Numbers, pmVars
<1> QED BY <1>3, <1>4, <1>7, <1>9 DEF Numbers

\* read_num begins, for the file of a mismatch or of a corpus entry
LEMMA TestRanStep ==
  ASSUME MulticoreIInv, NEW k \in Kids, TestRan(k)
  PROVE  MulticoreIInv'
<1> USE Clients0 DEF MulticoreIInv
<1>1. PICK c \in Counters, to \in {"mismatch", "corpus"} :
        /\ Down(k, c, "num_locked") /\ UNCHANGED <<shm, num>>
        /\ kpc[k] \in {"test", "mismatch_saved"} /\ kpc' = [kpc EXCEPT ![k] = to]
        /\ to = "mismatch" <=> c = "mNum"
        /\ to = "corpus" <=> c = "cNum"
        /\ kid[k] = "alive" /\ iter[k] <= MaxIters
        /\ UNCHANGED <<iter, stop, saved>> /\ KidKeeps
  BY DEF TestRan, TakeNum, Goto, RunsOn, numVars
<1>2. MulticoreTypeOK' /\ Parents'
  BY <1>1, KidTypes, KidParents DEF MulticoreTypeOK
<1>3. Mutex' /\ ManagerTypes'
  BY <1>1, DownMutex DEF Numbers
<1>4. Others(k)
  BY <1>1 DEF Down, Step, Others, KidKeeps, ManagerTypes, MulticoreTypeOK
<1>5. kpc'[k] = to /\ pc'[k] = "num_locked" /\ holds'[k] = c
  BY <1>1 DEF Down, Step, ManagerTypes, MulticoreTypeOK
<1>6. RunCall(k)'
  BY <1>1, <1>5 DEF RunCall, NumSteps
<1>7. Protocol'
  BY <1>4, <1>6, OthersProtocol DEF Numbers
<1>8. \A d \in Counters : ~Owns(k, d)'
  BY <1>5 DEF Owns
<1>9. Saving'
  BY <1>1, <1>4, <1>8, OthersSaving DEF Numbers
<1> QED BY <1>2, <1>3, <1>7, <1>9 DEF Numbers

\* the number is read, taken and the semaphore given back
LEMMA GetNumStep ==
  ASSUME MulticoreIInv, NEW k \in Kids, GetNum(k)
  PROVE  MulticoreIInv'
<1> USE Clients0 DEF MulticoreIInv
<1> DEFINE c == holds[k]
<1>1. /\ kid[k] = "alive" /\ UNCHANGED <<iter, stop, saved>> /\ KidKeeps
      /\ pc[k] \in NumSteps
  BY DEF GetNum, LoadNum, StoreNum, GiveNum, Up, Step, NumSteps
<1>2. /\ c \in Counters
      /\ \/ kpc[k] = "mismatch" /\ c = "mNum"
         \/ kpc[k] = "corpus" /\ c = "cNum"
      /\ iter[k] <= MaxIters
  <2>1. RunCall(k) /\ Active(k)
    BY <1>1 DEF Numbers, Protocol, RunCalls, Active
  <2>2. pc[k] # "free" /\ pc[k] \notin LogSteps
    BY <1>1 DEF NumSteps, LogSteps
  <2>3. kpc[k] \in {"mismatch", "corpus"}
    BY <2>1, <2>2 DEF RunCall, MulticoreTypeOK
  <2> QED BY <2>1, <2>3 DEF RunCall
<1>3. MulticoreTypeOK' /\ Parents'
  <2>1. \E to \in {"mismatch", "corpus", "save_mismatch", "save_corpus"} :
          kpc' = [kpc EXCEPT ![k] = to]
    BY <1>2 DEF GetNum
  <2> QED BY <1>1, <2>1, KidTypes, KidParents DEF MulticoreTypeOK
<1>4. CASE LoadNum(k)
  <2>1. /\ pc[k] = "num_locked" /\ pc' = [pc EXCEPT ![k] = "num_read"]
        /\ num' = [num EXCEPT ![k] = shm[c]] /\ UNCHANGED <<sem, holds, shm>>
    BY <1>4 DEF LoadNum, Step
  <2>2. UNCHANGED kpc
    BY <2>1 DEF GetNum, MulticoreTypeOK
  <2>3. HeldSems' /\ Exclusive'
        /\ pc' \in [Clients -> NumSteps \cup GetSteps \cup LogSteps \cup {"free", "dead"}]
    BY <2>1, InnerMutex DEF Numbers, NumSteps
  <2>4. Mutex' /\ ManagerTypes'
    BY <1>2, <2>1, <2>3 DEF Numbers, Mutex, NumIsNext, ManagerTypes
  <2>5. Others(k) /\ kpc'[k] = kpc[k] /\ pc'[k] = "num_read" /\ holds'[k] = c
    BY <1>1, <2>1, <2>2 DEF Others, KidKeeps, ManagerTypes
  <2>6. RunCall(k)'
    BY <1>1, <1>2, <2>5 DEF RunCall, NumSteps
  <2>7. \A d \in Counters : ~Owns(k, d)'
    BY <1>2, <2>5 DEF Owns
  <2>8. Protocol' /\ Saving'
    BY <1>1, <2>1, <2>5, <2>6, <2>7, OthersProtocol, OthersSaving DEF Numbers
  <2> QED BY <1>3, <2>4, <2>8 DEF Numbers
<1>5. CASE StoreNum(k)
  <2>1. /\ pc[k] = "num_read" /\ pc' = [pc EXCEPT ![k] = "num_written"] /\ num[k] < NumMax
        /\ shm' = [shm EXCEPT ![c] = num[k] + 1] /\ UNCHANGED <<sem, holds, num>>
    BY <1>5 DEF StoreNum, Step
  <2>2. UNCHANGED kpc
    BY <2>1 DEF GetNum, MulticoreTypeOK
  <2>3. HeldSems' /\ Exclusive'
        /\ pc' \in [Clients -> NumSteps \cup GetSteps \cup LogSteps \cup {"free", "dead"}]
    BY <2>1, InnerMutex DEF Numbers, NumSteps
  <2>4. num[k] = shm[c] /\ num[k] \in Nat /\ shm'[c] = num[k] + 1
    BY <1>2, <2>1 DEF Numbers, Mutex, NumIsNext, ManagerTypes
  <2>5. \A p \in Clients : p # k => holds[p] # c
    BY <1>2 DEF Numbers, Mutex, Exclusive
  <2>6. NumIsNext'
    BY <1>2, <2>1, <2>5 DEF Numbers, Mutex, NumIsNext, ManagerTypes
  <2>7. ManagerTypes'
    BY <1>2, <2>1, <2>3, <2>4 DEF ManagerTypes
  <2>8. Others(k) /\ kpc'[k] = kpc[k] /\ pc'[k] = "num_written" /\ holds'[k] = c
    BY <1>1, <2>1, <2>2 DEF Others, KidKeeps, ManagerTypes
  <2>9. RunCall(k)'
    BY <1>1, <1>2, <2>8 DEF RunCall, NumSteps
  <2>10. Protocol'
    BY <2>8, <2>9, OthersProtocol DEF Numbers
  <2>11. \A d \in Counters : shm'[d] = IF d = c THEN shm[c] + 1 ELSE shm[d]
    BY <1>2, <2>1, <2>4 DEF ManagerTypes
  <2>12. \A l \in Kids \ {k}, d \in Counters : Owns(l, d)' => Owns(l, d)
    BY <2>8 DEF Owns, Others, Active
  <2>13. \A d \in Counters : Owns(k, d)' => d = c
    BY <1>2, <2>8 DEF Owns
  <2>14. \A l \in Kids, d \in Counters : num[l] \in Nat /\ shm[d] \in Nat
    BY DEF ManagerTypes
  <2>15. \A s \in saved : s[1] \in Counters /\ s[2] \in Nat /\ s[2] < shm[s[1]]
    BY DEF Numbers, Saving, Owned, MulticoreTypeOK
  <2>16. \A l \in Kids \ {k} : Owns(l, c) => num[l] < num[k]
    BY <1>2, <2>4 DEF Numbers, Saving, Owned
  <2>17. ASSUME NEW l \in Kids, NEW d \in Counters, Owns(l, d)'
         PROVE  num[l] < shm'[d] /\ \A s \in saved : s[1] = d => s[2] # num[l]
    <3>1. CASE l = k
      BY <3>1, <2>4, <2>13, <2>15, <2>17
    <3>2. CASE l # k
      <4>1. num[l] < shm[d] /\ \A s \in saved : s[1] = d => s[2] # num[l]
        BY <3>2, <2>12, <2>17 DEF Numbers, Saving, Owned
      <4> QED BY <4>1, <2>11, <2>14
    <3> QED BY <3>1, <3>2
  <2>18. ASSUME NEW l \in Kids, NEW m \in Kids, NEW d \in Counters, Owns(l, d)', Owns(m, d)',
                num[l] = num[m]
         PROVE  l = m
    <3>1. CASE l = k \/ m = k
      BY <3>1, <2>12, <2>13, <2>14, <2>16, <2>18
    <3>2. CASE l # k /\ m # k
      BY <3>2, <2>12, <2>18 DEF Numbers, Saving, Owned
    <3> QED BY <3>1, <3>2
  <2>19. \A s \in saved : s[2] < shm'[s[1]]
    BY <2>11, <2>14, <2>15
  <2>20. Owned'
    BY <1>1, <2>1, <2>17, <2>18, <2>19 DEF Owned
  <2>21. Saving'
    BY <1>1, <2>20 DEF Numbers, Saving, NoOverwrite
  <2> QED BY <1>3, <2>3, <2>6, <2>7, <2>10, <2>21 DEF Numbers, Mutex
<1>6. CASE GiveNum(k)
  <2>1. Up(k, "num_written") /\ UNCHANGED <<shm, num>>
    BY <1>6 DEF GiveNum, numVars
  <2>2. Mutex' /\ ManagerTypes'
    BY <2>1, UpMutex DEF Numbers
  <2>3. /\ pc[k] = "num_written" /\ pc'[k] = "free" /\ Others(k)
        /\ kpc'[k] = IF kpc[k] = "mismatch" THEN "save_mismatch" ELSE "save_corpus"
    BY <1>1, <2>1 DEF GetNum, Up, Step, Others, KidKeeps, ManagerTypes, MulticoreTypeOK
  <2>4. RunCall(k)'
    BY <1>1, <1>2, <2>3 DEF RunCall
  <2>5. \A d \in Counters : Owns(k, d)' => d = c
    BY <1>2, <2>3 DEF Owns
  <2>6. Owns(k, c)
    BY <1>1, <2>3 DEF Owns, Active
  <2>7. Protocol' /\ Saving'
    BY <1>1, <2>1, <2>3, <2>4, <2>5, <2>6, OthersProtocol, OthersSaving DEF Numbers
  <2> QED BY <1>3, <2>2, <2>7 DEF Numbers
<1> QED BY <1>4, <1>5, <1>6 DEF GetNum

\* the file is written under the number that was taken, and by nobody else
LEMMA SaveStep ==
  ASSUME MulticoreIInv, NEW k \in Kids, SaveMismatch(k) \/ SaveCorpus(k)
  PROVE  MulticoreIInv'
<1> USE Clients0 DEF MulticoreIInv
<1>1. PICK c \in Counters, to \in {"mismatch_saved", "test"} :
        /\ kid[k] = "alive" /\ Owns(k, c) /\ kpc' = [kpc EXCEPT ![k] = to]
        /\ kpc[k] \in {"save_mismatch", "save_corpus"}
        /\ saved' = saved \cup {<<c, num[k], k, iter[k]>>}
        /\ UNCHANGED <<pmVars, stop>> /\ KidKeeps
        /\ \/ iter' = iter
           \/ iter' = [iter EXCEPT ![k] = @ + 1] /\ to = "test"
  BY DEF SaveMismatch, SaveCorpus, Goto, NextIter, Owns, Active
<1>2. pc[k] = "free" /\ iter[k] \in 1..MaxIters
  BY <1>1 DEF Numbers, Protocol, RunCalls, RunCall, Active, MulticoreTypeOK
<1>3. MulticoreTypeOK' /\ Parents'
  <2>1. iter' \in [Kids -> 1..(MaxIters + 1)]
    BY <1>1, <1>2 DEF MulticoreTypeOK
  <2>2. <<c, num[k], k, iter[k]>> \in Counters \X (0..NumMax) \X Clients \X (0..MaxIters)
    BY <1>2 DEF ManagerTypes
  <2>3. saved' \subseteq Counters \X (0..NumMax) \X Clients \X (0..MaxIters)
    BY <1>1, <2>2 DEF MulticoreTypeOK
  <2> QED BY <1>1, <2>1, <2>3, KidTypes, KidParents DEF MulticoreTypeOK
<1>4. /\ UNCHANGED <<sem, shm, pc, holds, num>>
      /\ ManagerTypes' /\ Mutex' /\ Others(k)
  BY <1>1, ManagerFrame DEF Numbers, Mutex, HeldSems, Exclusive, NumIsNext, pmVars, Others,
                            KidKeeps, MulticoreTypeOK
<1>5. kpc'[k] = to /\ pc'[k] = "free"
  BY <1>1, <1>2, <1>4 DEF MulticoreTypeOK
<1>6. RunCall(k)'
  <2>1. CASE to = "test"
    BY <1>5, <2>1 DEF RunCall
  <2>2. CASE to = "mismatch_saved"
    BY <1>1, <1>2, <1>5, <2>2 DEF RunCall
  <2> QED BY <2>1, <2>2
<1>7. Protocol'
  BY <1>4, <1>6, OthersProtocol DEF Numbers
<1>8. \A d \in Counters : ~Owns(k, d)'
  BY <1>5 DEF Owns
<1>9. \A l \in Kids, d \in Counters : Owns(l, d)' => l # k /\ Owns(l, d)
  BY <1>4, <1>8 DEF Owns, Others, Active
<1>10. num[k] < shm[c] /\ \A s \in saved : s[1] = c => s[2] # num[k]
  BY <1>1 DEF Numbers, Saving, Owned
<1>11. \A l \in Kids : Owns(l, c)' => num[l] # num[k]
  BY <1>1, <1>9 DEF Numbers, Saving, Owned
<1>12. Owned'
  <2> DEFINE new == <<c, num[k], k, iter[k]>>
  <2>1. new[1] = c /\ new[2] = num[k]
    OBVIOUS
  <2>2. \A s \in saved' : s \in saved \/ s = new
    BY <1>1
  <2>3. ASSUME NEW l \in Kids, NEW d \in Counters, Owns(l, d)'
        PROVE  num[l] < shm[d] /\ \A s \in saved' : s[1] = d => s[2] # num[l]
    <3>1. num[l] < shm[d] /\ \A s \in saved : s[1] = d => s[2] # num[l]
      BY <1>9, <2>3 DEF Numbers, Saving, Owned
    <3> HIDE DEF new
    <3> QED BY <1>11, <2>1, <2>2, <2>3, <3>1
  <2>4. \A l, m \in Kids, d \in Counters : Owns(l, d)' /\ Owns(m, d)' /\ num[l] = num[m] => l = m
    BY <1>9 DEF Numbers, Saving, Owned
  <2>5. \A s \in saved' : s[2] < shm[s[1]]
    <3> HIDE DEF new
    <3> QED BY <1>10, <2>1, <2>2 DEF Numbers, Saving, Owned
  <2> QED BY <1>4, <2>3, <2>4, <2>5 DEF Owned
<1>13. NoOverwrite'
  <2> DEFINE new == <<c, num[k], k, iter[k]>>
  <2>1. new[1] = c /\ new[2] = num[k]
    OBVIOUS
  <2>2. \A s \in saved' : s \in saved \/ s = new
    BY <1>1
  <2> HIDE DEF new
  <2> QED BY <1>10, <2>1, <2>2 DEF Numbers, Saving, NoOverwrite
<1> QED BY <1>3, <1>4, <1>7, <1>12, <1>13 DEF Numbers, Saving

\* a child that has ended, by an exception or killed, does no more than hold
\* the semaphore it held
LEMMA EndStep ==
  ASSUME MulticoreIInv, NEW k \in Kids, Raises(k) \/ RaisesInCall(k) \/ Crashes(k)
  PROVE  MulticoreIInv'
<1> USE Clients0 DEF MulticoreIInv
<1>1. /\ kid[k] = "alive" /\ kid' = [kid EXCEPT ![k] = "zombie"]
      /\ \E code \in {0, 1, 9} : exit' = [exit EXCEPT ![k] = code]
      /\ UNCHANGED <<parentVars, slot, kpc, iter, stop, saved>>
      /\ UNCHANGED <<sem, holds, shm, num>>
      /\ kills' \in {kills, kills + 1}
      /\ \/ pc' = pc
         \/ pc' = [pc EXCEPT ![k] = "dead"]
  <2>1. CASE Raises(k)
    BY <2>1 DEF Raises, pmVars
  <2>2. CASE RaisesInCall(k)
    BY <2>2 DEF RaisesInCall, NumOverflow, Step, numVars
  <2>3. CASE Crashes(k)
    BY <2>3 DEF Crashes, Die, numVars
  <2> QED BY <2>1, <2>2, <2>3
<1>2. MulticoreTypeOK'
  BY <1>1 DEF MulticoreTypeOK, parentVars, Over
<1>3. Parents'
  BY <1>1, ParentsDeath
<1>4. HeldSems' /\ Exclusive'
      /\ pc' \in [Clients -> NumSteps \cup GetSteps \cup LogSteps \cup {"free", "dead"}]
  <2>1. CASE pc' = pc
    BY <1>1, <2>1 DEF Numbers, Mutex, HeldSems, Exclusive, ManagerTypes
  <2>2. CASE pc' = [pc EXCEPT ![k] = "dead"]
    BY <1>1, <2>2, InnerMutex DEF Numbers
  <2> QED BY <1>1, <2>1, <2>2
<1>5. ManagerTypes' /\ NumIsNext'
  BY <1>1, <1>4 DEF ManagerTypes, Numbers, Mutex, NumIsNext
<1>6. /\ ~Active(k)'
      /\ \A p \in Clients \ {k} : pc'[p] = pc[p]
      /\ \A l \in Kids \ {k} : kid'[l] = kid[l]
  BY <1>1 DEF Active, MulticoreTypeOK, ManagerTypes
<1>7. Protocol'
  <2>1. RunCalls'
    BY <1>1, <1>6 DEF Numbers, Protocol, RunCalls, RunCall, Active
  <2> QED BY <1>6, <2>1 DEF Numbers, Protocol, ParentCalls
<1>8. \A l \in Kids, c \in Counters : Owns(l, c)' => Owns(l, c)
  BY <1>1, <1>6 DEF Owns, Active
<1>9. Saving'
  BY <1>1, <1>8, SavingFrame DEF Numbers
<1> QED BY <1>2, <1>3, <1>4, <1>5, <1>7, <1>9 DEF Numbers, Mutex

-----------------------------------------------------------------------------
(* The run                                                                  *)

LEMMA InitStep ==
  ASSUME MulticoreInit
  PROVE  MulticoreIInv
<1> USE Clients0 DEF MulticoreInit, PMInit
<1>1. ManagerTypes
  BY DEF ManagerTypes
<1>2. \A s \in saved : \E c \in Counters : \E i \in 0..(shm[c] - 1) : s = <<c, i, Parent, 0>>
  OBVIOUS
<1>3. ASSUME NEW s \in saved
      PROVE  /\ s[1] \in Counters /\ s[2] \in 0..NumMax /\ s[2] < shm[s[1]]
             /\ s = <<s[1], s[2], Parent, 0>>
  <2>1. PICK c \in Counters : \E i \in 0..(shm[c] - 1) : s = <<c, i, Parent, 0>>
    BY <1>2
  <2>2. PICK i \in 0..(shm[c] - 1) : s = <<c, i, Parent, 0>>
    BY <2>1
  <2>3. shm[c] \in 0..NumMax /\ i \in 0..NumMax /\ i < shm[c]
    BY <1>1 DEF ManagerTypes
  <2> QED BY <2>2, <2>3
<1>4. saved \subseteq Counters \X (0..NumMax) \X Clients \X (0..MaxIters)
  <2> SUFFICES ASSUME NEW s \in saved
               PROVE  s \in Counters \X (0..NumMax) \X Clients \X (0..MaxIters)
    OBVIOUS
  <2>1. s[1] \in Counters /\ s[2] \in 0..NumMax /\ s = <<s[1], s[2], Parent, 0>>
    BY <1>3
  <2>2. 0 \in 0..MaxIters
    OBVIOUS
  <2> QED BY <2>1, <2>2
<1>5. MulticoreTypeOK
  BY <1>4, ManagerConstants, MulticoreConstants DEF MulticoreTypeOK, Over, Kids
<1>6. Parents
  BY DEF Parents, Slots, Waited, Passed, Kids
<1>7. Mutex /\ Protocol
  BY DEF Mutex, HeldSems, Exclusive, NumIsNext, Protocol, RunCalls, RunCall, ParentCalls,
         NumSteps, GetSteps, LogSteps
<1>8. Saving
  <2>1. \A k \in Kids, c \in Counters : ~Owns(k, c)
    BY DEF Owns
  <2> QED BY <1>3, <2>1 DEF Saving, Owned, NoOverwrite
<1> QED BY <1>1, <1>5, <1>6, <1>7, <1>8 DEF MulticoreIInv, Numbers

LEMMA IInvStep ==
  ASSUME MulticoreIInv, [MulticoreNext]_mcVars
  PROVE  MulticoreIInv'
<1>1. CASE ParentNext
  BY <1>1, ForkStep, WaitPidStep, GetStateStep, CheckStep, KillNextStep, FinishStep DEF ParentNext
<1>2. ASSUME NEW k \in Kids, KidNext(k) \/ Crashes(k) PROVE MulticoreIInv'
  BY <1>2, StartKidStep, QuietStep, TestRanStep, GetNumStep, SaveStep, EndStep DEF KidNext
<1>3. CASE UNCHANGED mcVars
  <2> USE <1>3 DEF mcVars, pmVars, kidVars, MulticoreIInv
  <2>1. ManagerTypes' /\ Numbers' /\ Parents'
    BY ManagerFrame, NumbersFrame, ParentsFrame DEF Active
  <2>2. MulticoreTypeOK'
    BY DEF MulticoreTypeOK, parentVars, Over
  <2> QED BY <2>1, <2>2
<1> QED BY <1>1, <1>2, <1>3 DEF MulticoreNext

LEMMA MulticoreInductive == MulticoreSpec => []MulticoreIInv
<1>1. MulticoreInit => MulticoreIInv
  BY InitStep
<1>2. MulticoreIInv /\ [MulticoreNext]_mcVars => MulticoreIInv'
  BY IInvStep
<1> QED BY <1>1, <1>2, PTL DEF MulticoreSpec

\* The type of every variable of the run, in every reachable state.
THEOREM MulticoreTypeCorrect == MulticoreSpec => []MulticoreTypeOK
<1>1. MulticoreIInv => MulticoreTypeOK
  BY DEF MulticoreIInv
<1> QED BY <1>1, MulticoreInductive, PTL

\* No file is written twice and no two children that run share a proc_num,
\* for any number of cores, children, iterations and kills (read_num with
\* write_num; proc_pid_arr.index(0) and the slot that wait_check frees).
THEOREM NothingIsShared == MulticoreSpec => []NothingShared
<1>1. MulticoreIInv => NothingShared
  BY DEF MulticoreIInv, Parents, Slots, Numbers, Saving, NothingShared, SlotsExclusive, Alive
<1> QED BY <1>1, MulticoreInductive, PTL

\* When the parent has stopped no child runs: the loop that kills skips only
\* the child it has waited for, and a free slot before it kills the group.
THEOREM NoOrphansLeft == MulticoreSpec => []NoOrphans
<1>1. MulticoreIInv => NoOrphans
  <2> SUFFICES ASSUME MulticoreIInv, Over, NEW k \in Alive PROVE FALSE
    BY DEF NoOrphans
  <2> USE DEF MulticoreIInv, Parents
  <2>1. CASE ppc \in {"killed", "ended"}
    BY <2>1 DEF Passed
  <2>2. CASE ppc = "exit"
    <3>1. k \in Kids /\ kid[k] = "alive" /\ slot[k] \in Procs /\ pids[slot[k]] = k
      BY DEF Alive, Slots, MulticoreTypeOK
    <3>2. victim = Cores /\ slot[k] < victim
      <4>1. victim = Cores
        BY <2>2 DEF Passed
      <4>2. slot[k] \in 0..(Cores - 1)
        BY <3>1, MulticoreConstants
      <4> QED BY <4>1, <4>2, Clients0
    <3> QED BY <2>2, <3>1, <3>2 DEF Passed
  <2> QED BY <2>1, <2>2 DEF Over
<1> QED BY <1>1, MulticoreInductive, PTL
=============================================================================
