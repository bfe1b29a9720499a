-------------------------- MODULE ProcCalls_proofs --------------------------
(***************************************************************************)
(* Proofs about procManager, for any number of processes, counters, slots  *)
(* and coverage files. Everything rests on mutual exclusion: a semaphore   *)
(* that a process holds is 0 and has no other holder, dead or alive. From  *)
(* it follows that the word a process read is still the one in memory when *)
(* it writes.                                                              *)
(***************************************************************************)
EXTENDS ProcCalls, TLAPS, FiniteSetTheorems

\* what a process in the middle of a call holds
HeldSems ==
  \A p \in Clients : /\ pc[p] = "free" => holds[p] = None
                     /\ pc[p] \in NumSteps => holds[p] \in Counters
                     /\ pc[p] \in StateSteps => holds[p] = "state"
                     /\ pc[p] \in CovSteps => holds[p] = "covMap"

Exclusive ==
  /\ \A p \in Clients : holds[p] # None => sem[holds[p]] = 0
  /\ \A p, q \in Clients : holds[p] = holds[q] /\ holds[p] # None => p = q

\* the number read is still the next one
NumIsNext == \A p \in Clients : pc[p] = "num_read" => num[p] = shm[holds[p]]

IdsBelow == \A p \in Clients : \A c \in Counters : \A i \in ids[p][c] : i < shm[c]

\* the bytes read are still the ones in memory
SeenIsCurrent ==
  /\ StatesKept
  /\ \A p \in Clients : /\ pc[p] \in {"set_locked", "set_read"} => arg[p] \in Procs \X Codes
                        /\ pc[p] = "set_read" => seen[p] = states

\* the holder of covMap has the points of the file it is rewriting
CoverageHeld ==
  /\ CoverageKept
  /\ \A p \in Clients :
       /\ pc[p] \in {"cov_locked", "cov_done", "log_locked"} =>
            \A f \in Files : recorded[f] \subseteq covmap[f]
       /\ pc[p] = "cov_merged" =>
            /\ merge[p].file \in Files
            /\ recorded[merge[p].file] \subseteq merge[p].map
            /\ \A f \in Files \ {merge[p].file} : recorded[f] \subseteq covmap[f]
       /\ pc[p] \in {"cov_locked", "cov_merged"} =>
            merge[p].proc \in Procs /\ arg[p] \in {<<i>> : i \in Iters}

Held == HeldSems /\ Exclusive

CallsIInv == /\ CallsTypeOK /\ Held
             /\ NumIsNext /\ IdsBelow /\ IdsDistinct
             /\ SeenIsCurrent /\ CoverageHeld

\* the part of CallsTypeOK that a call of P or V can disturb
SemTypes ==
  /\ sem \in [Sems -> 0..1]
  /\ holds \in [Clients -> Sems \cup {None}]
  /\ pc \in [Clients -> NumSteps \cup StateSteps \cup CovSteps \cup {"free", "dead"}]

-----------------------------------------------------------------------------
(* Semaphores                                                               *)

\* taking a free semaphore makes its taker the only holder
LEMMA DownHeld ==
  ASSUME CallsTypeOK, Held,
         NEW p \in Clients, NEW s \in Sems, NEW to,
         \/ s \in Counters /\ to \in NumSteps
         \/ s = "state" /\ to \in StateSteps
         \/ s = "covMap" /\ to \in CovSteps,
         Down(p, s, to)
  PROVE  Held' /\ SemTypes'
<1>1. sem[s] = 1 /\ sem' = [sem EXCEPT ![s] = 0]
  <2>1. sem[s] \in 0..1 /\ sem[s] > 0
    BY DEF CallsTypeOK, Down
  <2>2. sem[s] = 1
    BY <2>1
  <2> QED BY <2>2 DEF Down
<1> USE DEF CallsTypeOK, SemTypes, Held, Down, Step, NumSteps, StateSteps, CovSteps, Sems
<1>2. \A q \in Clients : holds[q] # s
  BY <1>1, ManagerConstants DEF Exclusive
<1>3. HeldSems'
  BY DEF HeldSems
<1>4. Exclusive'
  BY <1>1, <1>2, ManagerConstants, SMTT(20) DEF Exclusive
<1> QED BY <1>1, <1>3, <1>4

\* giving one back leaves it without a holder
LEMMA UpHeld ==
  ASSUME CallsTypeOK, Held,
         NEW p \in Clients, NEW from \in NumSteps \cup StateSteps \cup CovSteps,
         Up(p, from)
  PROVE  Held' /\ SemTypes'
<1>1. holds[p] \in Sems /\ holds[p] # None
  <2>1. pc[p] = from
    BY DEF Up, Step
  <2>2. CASE from \in NumSteps
    BY <2>1, <2>2, ManagerConstants DEF Held, HeldSems, Sems
  <2>3. CASE from \in StateSteps \cup CovSteps
    BY <2>1, <2>3, ManagerConstants DEF Held, HeldSems, Sems
  <2> QED BY <2>2, <2>3
<1>2. sem' = [sem EXCEPT ![holds[p]] = 1]
  <2>1. sem[holds[p]] = 0
    BY <1>1 DEF Held, Exclusive
  <2>2. sem[holds[p]] + 1 = 1
    BY <2>1
  <2>3. sem' = [sem EXCEPT ![holds[p]] = sem[holds[p]] + 1]
    BY DEF Up
  <2> QED BY <2>2, <2>3
<1> USE DEF CallsTypeOK, SemTypes, Held, Up, Step, NumSteps, StateSteps, CovSteps, Sems
<1>3. \A q \in Clients : q # p => holds[q] # holds[p]
  BY <1>1 DEF Exclusive
<1>4. HeldSems'
  BY DEF HeldSems
<1>5. Exclusive'
  BY <1>1, <1>2, <1>3, ManagerConstants DEF Exclusive
<1> QED BY <1>1, <1>2, <1>4, <1>5

\* a step inside a call, or a death, keeps what is held
LEMMA InnerHeld ==
  ASSUME CallsTypeOK, Held,
         NEW p \in Clients, NEW to, UNCHANGED <<sem, holds>>,
         pc' = [pc EXCEPT ![p] = to],
         \/ pc[p] \in NumSteps /\ to \in NumSteps \cup {"dead"}
         \/ pc[p] \in StateSteps /\ to \in StateSteps \cup {"dead"}
         \/ pc[p] \in CovSteps /\ to \in CovSteps \cup {"dead"}
         \/ to = "dead"
  PROVE  Held' /\ SemTypes'
<1> USE DEF CallsTypeOK, SemTypes, Held, NumSteps, StateSteps, CovSteps
<1>1. HeldSems'
  BY DEF HeldSems
<1>2. Exclusive'
  BY DEF Exclusive
<1> QED BY <1>1, <1>2
-----------------------------------------------------------------------------
(* Steps that touch nothing of a part keep it                               *)

\* what one process' step does to pc and holds
Moves(p, to) == /\ pc' = [pc EXCEPT ![p] = to]
                /\ \A q \in Clients : q # p => holds'[q] = holds[q]

NumPart == NumIsNext /\ IdsBelow /\ IdsDistinct

LEMMA NumFrame ==
  ASSUME CallsTypeOK, NumPart, NEW p \in Clients, NEW to, to # "num_read",
         Moves(p, to), UNCHANGED <<shm, num, ids>>
  PROVE  NumPart'
<1>1. NumIsNext'
  BY DEF NumPart, NumIsNext, Moves, CallsTypeOK
<1>2. IdsBelow' /\ IdsDistinct'
  BY DEF NumPart, IdsBelow, IdsDistinct
<1> QED BY <1>1, <1>2 DEF NumPart

LEMMA SeenFrame ==
  ASSUME CallsTypeOK, SeenIsCurrent, NEW p \in Clients, NEW to,
         to \notin {"set_locked", "set_read"},
         Moves(p, to), UNCHANGED <<states, seen, lastSet>>,
         \A q \in Clients : q # p => arg'[q] = arg[q]
  PROVE  SeenIsCurrent'
<1>1. StatesKept'
  BY DEF SeenIsCurrent, StatesKept
<1> QED BY <1>1 DEF SeenIsCurrent, Moves, CallsTypeOK

LEMMA CovFrame ==
  ASSUME CallsTypeOK, CoverageHeld, NEW p \in Clients, NEW to, to \notin CovSteps,
         Moves(p, to), UNCHANGED <<covmap, merge, recorded>>,
         sem'["covMap"] = 1 => sem["covMap"] = 1,
         \A q \in Clients : q # p => arg'[q] = arg[q]
  PROVE  CoverageHeld'
<1>1. CoverageKept'
  BY DEF CoverageHeld, CoverageKept
<1> QED BY <1>1 DEF CoverageHeld, Moves, CallsTypeOK, CovSteps

-----------------------------------------------------------------------------
(* File numbers                                                             *)

LEMMA NumbersStep ==
  ASSUME CallsIInv, NEW p \in Clients, Numbers(p)
  PROVE  CallsIInv'
<1> USE DEF CallsIInv
<1>1. CASE \E c \in Counters : TakeNum(p, c) /\ UNCHANGED histVars
  <2>1. PICK c \in Counters : TakeNum(p, c) /\ UNCHANGED histVars
    BY <1>1
  <2>2. c \in Sems /\ c # "covMap" /\ "num_locked" \in NumSteps
    BY ManagerConstants DEF Sems, NumSteps
  <2>3. Down(p, c, "num_locked") /\ UNCHANGED <<numVars, stateVars, covVars, histVars>>
    BY <2>1 DEF TakeNum
  <2>4. Held' /\ SemTypes'
    BY <2>2, <2>3, DownHeld
  <2>5. CallsTypeOK'
    BY <2>3, <2>4 DEF CallsTypeOK, SemTypes, numVars, stateVars, covVars, histVars
  <2>6. Moves(p, "num_locked") /\ sem'["covMap"] = sem["covMap"]
    BY <2>2, <2>3 DEF Down, Step, Moves, CallsTypeOK, Sems
  <2>7. NumPart'
    BY <2>3, <2>6, NumFrame DEF NumPart, numVars, histVars
  <2>8. SeenIsCurrent'
    BY <2>3, <2>6, SeenFrame DEF stateVars, histVars
  <2>9. CoverageHeld'
    BY <2>3, <2>6, CovFrame DEF CovSteps, stateVars, covVars, histVars
  <2> QED BY <2>4, <2>5, <2>7, <2>8, <2>9 DEF NumPart
<1>2. CASE (LoadNum(p) \/ NumOverflow(p)) /\ UNCHANGED histVars
  <2> DEFINE to == pc'[p]
  <2>1. /\ pc[p] \in NumSteps /\ to \in {"num_read", "dead"} /\ pc' = [pc EXCEPT ![p] = to]
        /\ UNCHANGED <<sem, holds, shm, stateVars, covVars, histVars>>
    BY <1>2 DEF LoadNum, NumOverflow, Step, NumSteps, numVars, CallsTypeOK
  <2>2. Held' /\ SemTypes'
    BY <2>1, InnerHeld DEF NumSteps
  <2>3. Moves(p, to)
    BY <2>1 DEF Moves
  <2>4. holds[p] \in Counters
    BY <2>1 DEF Held, HeldSems
  <2>5. num' \in [Clients -> 0..NumMax]
    BY <1>2, <2>4 DEF LoadNum, NumOverflow, numVars, CallsTypeOK
  <2>6. CallsTypeOK'
    BY <2>1, <2>2, <2>5 DEF CallsTypeOK, SemTypes, stateVars, covVars, histVars
  <2>7. NumIsNext'
    BY <1>2, <2>1 DEF LoadNum, NumOverflow, Step, numVars, NumIsNext, CallsTypeOK
  <2>8. IdsBelow' /\ IdsDistinct'
    BY <2>1 DEF IdsBelow, IdsDistinct, histVars
  <2>9. SeenIsCurrent'
    BY <2>1, <2>3, SeenFrame DEF stateVars, histVars
  <2>10. CoverageHeld'
    BY <2>1, <2>3, CovFrame DEF CovSteps, stateVars, covVars, histVars
  <2> QED BY <2>2, <2>6, <2>7, <2>8, <2>9, <2>10
<1>3. CASE StoreNum(p) /\ ids' = [ids EXCEPT ![p][holds[p]] = @ \cup {num[p]}]
                       /\ UNCHANGED <<lastSet, recorded, stores>>
  <2> DEFINE c == holds[p]
  <2>1. /\ pc[p] = "num_read" /\ pc' = [pc EXCEPT ![p] = "num_written"]
        /\ UNCHANGED <<sem, holds, num, stateVars, covVars, lastSet, recorded, stores>>
    BY <1>3 DEF StoreNum, Step
  <2>2. c \in Counters /\ num[p] = shm[c] /\ shm[c] \in Nat /\ num[p] < NumMax
    BY <1>3, <2>1, ManagerConstants DEF StoreNum, Held, HeldSems, NumSteps, NumIsNext, CallsTypeOK
  <2>3. shm' = [shm EXCEPT ![c] = shm[c] + 1]
    BY <1>3, <2>2 DEF StoreNum
  <2>4. Held' /\ SemTypes'
    BY <2>1, InnerHeld DEF NumSteps
  <2>5. Moves(p, "num_written")
    BY <2>1 DEF Moves
  <2>6. shm[c] + 1 \in 0..NumMax /\ num[p] \in 0..NumMax
    BY <2>2, ManagerConstants
  <2>7. ids' = [ids EXCEPT ![p] = [ids[p] EXCEPT ![c] = ids[p][c] \cup {shm[c]}]]
    BY <1>3, <2>2 DEF CallsTypeOK
  <2>8. shm' \in [Counters -> 0..NumMax] /\ ids' \in [Clients -> [Counters -> SUBSET (0..NumMax)]]
    BY <2>2, <2>3, <2>6, <2>7 DEF CallsTypeOK
  <2>9. CallsTypeOK'
    BY <2>1, <2>4, <2>8 DEF CallsTypeOK, SemTypes, stateVars, covVars
  <2>10. NumIsNext'
    <3> SUFFICES ASSUME NEW q \in Clients, pc'[q] = "num_read" PROVE num'[q] = shm'[holds'[q]]
      BY DEF NumIsNext
    <3>1. q # p /\ pc[q] = "num_read"
      BY <2>1 DEF CallsTypeOK
    <3>2. holds[q] \in Counters /\ holds[q] # c
      BY <2>2, <3>1, ManagerConstants DEF Held, HeldSems, NumSteps, Exclusive, Sems
    <3> QED BY <2>1, <2>3, <3>1, <3>2 DEF NumIsNext, CallsTypeOK
  <2>11. IdsBelow'
    <3> SUFFICES ASSUME NEW q \in Clients, NEW d \in Counters, NEW i \in ids'[q][d]
                 PROVE  i < shm'[d]
      BY DEF IdsBelow
    <3>1. shm[d] \in Nat /\ shm'[d] >= shm[d] /\ shm'[c] = shm[c] + 1
      BY <2>2, <2>3, ManagerConstants DEF CallsTypeOK
    <3>2. CASE i \in ids[q][d]
      <4>1. i < shm[d] /\ i \in Nat /\ shm'[d] \in Nat
        BY <2>8, <3>2, ManagerConstants DEF IdsBelow, CallsTypeOK
      <4> QED BY <3>1, <4>1
    <3>3. CASE i \notin ids[q][d]
      <4>1. q = p /\ d = c /\ i = shm[c]
        BY <2>2, <2>7, <3>3 DEF CallsTypeOK
      <4> QED BY <3>1, <4>1, <2>2
    <3> QED BY <3>2, <3>3
  <2>12. IdsDistinct'
    <3>1. \A q \in Clients : shm[c] \notin ids[q][c]
      BY <2>2 DEF IdsBelow
    <3>2. \A q \in Clients : q # p => ids'[q] = ids[q]
      BY <2>7 DEF CallsTypeOK
    <3>3. ids'[p][c] = ids[p][c] \cup {shm[c]} /\ \A d \in Counters : d # c => ids'[p][d] = ids[p][d]
      BY <2>2, <2>7 DEF CallsTypeOK
    <3> QED BY <3>1, <3>2, <3>3 DEF IdsDistinct
  <2>13. SeenIsCurrent'
    BY <2>1, <2>5, SeenFrame DEF stateVars
  <2>14. CoverageHeld'
    BY <2>1, <2>5, CovFrame DEF CovSteps, stateVars, covVars
  <2> QED BY <2>4, <2>9, <2>10, <2>11, <2>12, <2>13, <2>14
<1>4. CASE GiveNum(p) /\ UNCHANGED histVars
  <2>1. Up(p, "num_written") /\ UNCHANGED <<numVars, stateVars, covVars, histVars>>
    BY <1>4 DEF GiveNum
  <2>2. Held' /\ SemTypes'
    BY <2>1, UpHeld DEF NumSteps
  <2>3. CallsTypeOK'
    BY <2>1, <2>2 DEF CallsTypeOK, SemTypes, numVars, stateVars, covVars, histVars
  <2>4. holds[p] \in Counters /\ holds[p] # "covMap"
    BY <2>1, ManagerConstants DEF Up, Step, Held, HeldSems, NumSteps
  <2>5. Moves(p, "free") /\ sem'["covMap"] = sem["covMap"]
    BY <2>1, <2>4 DEF Up, Step, Moves, CallsTypeOK, Sems
  <2>6. NumPart'
    BY <2>1, <2>5, NumFrame DEF NumPart, numVars, histVars
  <2>7. SeenIsCurrent'
    BY <2>1, <2>5, SeenFrame DEF stateVars, histVars
  <2>8. CoverageHeld'
    BY <2>1, <2>5, CovFrame DEF CovSteps, stateVars, covVars, histVars
  <2> QED BY <2>2, <2>3, <2>6, <2>7, <2>8 DEF NumPart
<1> QED BY <1>1, <1>2, <1>3, <1>4 DEF Numbers
-----------------------------------------------------------------------------
(* States                                                                   *)

LEMMA StatesStep ==
  ASSUME CallsIInv, NEW p \in Clients, States(p)
  PROVE  CallsIInv'
<1> USE DEF CallsIInv
<1> "state" \in Sems /\ "state" \notin Counters
  BY ManagerConstants DEF Sems
<1>1. CASE (\/ \E n \in Procs, code \in Codes : BeginSetState(p, n, code)
            \/ BeginGetState(p)) /\ UNCHANGED histVars
  <2>1. PICK to \in {"set_locked", "get_locked"} :
          /\ Down(p, "state", to)
          /\ UNCHANGED <<states, seen, numVars, covVars, histVars>>
          /\ IF to = "set_locked"
             THEN \E v \in Procs \X Codes : arg' = [arg EXCEPT ![p] = v]
             ELSE UNCHANGED arg
    BY <1>1 DEF BeginSetState, BeginGetState, stateVars
  <2>2. to \in StateSteps
    BY DEF StateSteps
  <2>3. Held' /\ SemTypes'
    BY <2>1, <2>2, DownHeld
  <2>4. arg' \in [Clients -> {<<>>} \cup (Procs \X Codes) \cup {<<i>> : i \in Iters}]
    BY <2>1 DEF CallsTypeOK
  <2>5. CallsTypeOK'
    BY <2>1, <2>3, <2>4 DEF CallsTypeOK, SemTypes, numVars, covVars, histVars
  <2>6. Moves(p, to) /\ sem'["covMap"] = sem["covMap"] /\ \A q \in Clients : q # p => arg'[q] = arg[q]
    BY <2>1 DEF Down, Step, Moves, CallsTypeOK, Sems
  <2>7. NumPart'
    BY <2>1, <2>6, NumFrame DEF NumPart, numVars, histVars
  <2>8. CoverageHeld'
    BY <2>1, <2>6, CovFrame DEF CovSteps, covVars, histVars
  <2>9. StatesKept'
    BY <2>1 DEF SeenIsCurrent, StatesKept, histVars
  <2>10. pc'[p] = "set_locked" => arg'[p] \in Procs \X Codes
    BY <2>1, <2>6 DEF Moves, CallsTypeOK
  <2>11. SeenIsCurrent'
    BY <2>1, <2>6, <2>9, <2>10 DEF SeenIsCurrent, Moves, CallsTypeOK
  <2> QED BY <2>3, <2>5, <2>7, <2>8, <2>11 DEF NumPart
<1>2. CASE ReadStates(p) /\ UNCHANGED histVars
  <2>1. PICK to \in {"set_read", "state_done"} :
          /\ pc' = [pc EXCEPT ![p] = to] /\ pc[p] \in {"set_locked", "get_locked"}
          /\ to = "set_read" => pc[p] = "set_locked"
          /\ seen' = [seen EXCEPT ![p] = states]
          /\ UNCHANGED <<sem, holds, states, arg, numVars, covVars, histVars>>
    BY <1>2 DEF ReadStates, Step
  <2>2. Held' /\ SemTypes'
    BY <2>1, InnerHeld DEF StateSteps
  <2>3. CallsTypeOK'
    BY <2>1, <2>2 DEF CallsTypeOK, SemTypes, numVars, covVars, histVars
  <2>4. Moves(p, to)
    BY <2>1 DEF Moves
  <2>5. NumPart'
    BY <2>1, <2>4, NumFrame DEF NumPart, numVars, histVars
  <2>6. CoverageHeld'
    BY <2>1, <2>4, CovFrame DEF CovSteps, covVars, histVars
  <2>7. SeenIsCurrent'
    BY <2>1 DEF SeenIsCurrent, StatesKept, CallsTypeOK, histVars
  <2> QED BY <2>2, <2>3, <2>5, <2>6, <2>7 DEF NumPart
<1>3. CASE WriteStates(p) /\ lastSet' = [lastSet EXCEPT ![arg[p][1]] = arg[p][2]]
                          /\ UNCHANGED <<ids, recorded, stores>>
  <2>1. /\ pc[p] = "set_read" /\ pc' = [pc EXCEPT ![p] = "state_done"]
        /\ UNCHANGED <<sem, holds, seen, arg, numVars, covVars, ids, recorded, stores>>
    BY <1>3 DEF WriteStates, Step
  <2>2. arg[p] \in Procs \X Codes /\ seen[p] = states
    BY <2>1 DEF SeenIsCurrent
  <2>3. /\ states' = [states EXCEPT ![arg[p][1]] = arg[p][2]]
        /\ lastSet' = [lastSet EXCEPT ![arg[p][1]] = arg[p][2]]
    BY <1>3, <2>2 DEF WriteStates
  <2>4. Held' /\ SemTypes'
    BY <2>1, InnerHeld DEF StateSteps
  <2>5. states' \in [Procs -> Codes] /\ lastSet' \in [Procs -> Codes]
    BY <2>2, <2>3 DEF CallsTypeOK
  <2>6. CallsTypeOK'
    BY <2>1, <2>4, <2>5 DEF CallsTypeOK, SemTypes, numVars, covVars
  <2>7. Moves(p, "state_done")
    BY <2>1 DEF Moves
  <2>8. NumPart'
    BY <2>1, <2>7, NumFrame DEF NumPart, numVars
  <2>9. CoverageHeld'
    BY <2>1, <2>7, CovFrame DEF CovSteps, covVars
  <2>10. StatesKept'
    BY <2>3 DEF SeenIsCurrent, StatesKept
  <2>11. \A q \in Clients : pc'[q] = "set_read" => pc[q] = "set_read" /\ q # p
    BY <2>1 DEF CallsTypeOK
  <2>12. \A q \in Clients : pc[q] = "set_read" => holds[q] = "state"
    BY DEF Held, HeldSems, StateSteps
  <2>13. "state" # None
    BY ManagerConstants DEF Sems
  <2>14. \A q \in Clients : pc'[q] # "set_read"
    BY <2>1, <2>11, <2>12, <2>13 DEF Held, Exclusive
  <2>15. SeenIsCurrent'
    BY <2>1, <2>10, <2>14 DEF SeenIsCurrent, CallsTypeOK
  <2> QED BY <2>4, <2>6, <2>8, <2>9, <2>15 DEF NumPart
<1>4. CASE EndState(p) /\ UNCHANGED histVars
  <2>1. Up(p, "state_done") /\ UNCHANGED <<numVars, stateVars, covVars, histVars>>
    BY <1>4 DEF EndState
  <2>2. Held' /\ SemTypes'
    BY <2>1, UpHeld DEF StateSteps
  <2>3. CallsTypeOK'
    BY <2>1, <2>2 DEF CallsTypeOK, SemTypes, numVars, stateVars, covVars, histVars
  <2>4. holds[p] = "state"
    BY <2>1 DEF Up, Step, Held, HeldSems, StateSteps
  <2>5. Moves(p, "free") /\ sem'["covMap"] = sem["covMap"]
    BY <2>1, <2>4 DEF Up, Step, Moves, CallsTypeOK, Sems
  <2>6. NumPart'
    BY <2>1, <2>5, NumFrame DEF NumPart, numVars, histVars
  <2>7. SeenIsCurrent'
    BY <2>1, <2>5, SeenFrame DEF stateVars, histVars
  <2>8. CoverageHeld'
    BY <2>1, <2>5, CovFrame DEF CovSteps, stateVars, covVars, histVars
  <2> QED BY <2>2, <2>3, <2>6, <2>7, <2>8 DEF NumPart
<1> QED BY <1>1, <1>2, <1>3, <1>4 DEF States
-----------------------------------------------------------------------------
(* Coverage                                                                 *)

\* nobody but the holder of covMap is at a step of a call on the coverage
LEMMA CovHolder ==
  ASSUME CallsTypeOK, Held, NEW p \in Clients, pc[p] \in CovSteps
  PROVE  /\ sem["covMap"] = 0
         /\ \A q \in Clients : q # p => pc[q] \notin CovSteps
<1>1. holds[p] = "covMap" /\ "covMap" # None
  BY ManagerConstants DEF Held, HeldSems, Sems
<1> QED BY <1>1 DEF Held, HeldSems, Exclusive

\* when nobody else is at such a step, only p's part of CoverageHeld is left
LEMMA CovOnly ==
  ASSUME NEW p \in Clients,
         \A q \in Clients : q # p => pc'[q] \notin CovSteps,
         CoverageKept',
         pc'[p] \in {"cov_locked", "cov_done", "log_locked"} =>
           \A f \in Files : recorded'[f] \subseteq covmap'[f],
         pc'[p] = "cov_merged" =>
           /\ merge'[p].file \in Files
           /\ recorded'[merge'[p].file] \subseteq merge'[p].map
           /\ \A f \in Files \ {merge'[p].file} : recorded'[f] \subseteq covmap'[f],
         pc'[p] \in {"cov_locked", "cov_merged"} =>
           merge'[p].proc \in Procs /\ arg'[p] \in {<<i>> : i \in Iters}
  PROVE  CoverageHeld'
BY DEF CoverageHeld, CovSteps

LEMMA CoverageStep ==
  ASSUME CallsIInv, NEW p \in Clients, Coverage(p)
  PROVE  CallsIInv'
<1> USE DEF CallsIInv
<1> "covMap" \in Sems /\ "covMap" \notin Counters /\ "covMap" # None
  BY ManagerConstants DEF Sems
<1> DEFINE Record == [proc: Procs \cup {None}, todo: SUBSET Files, file: Files \cup {None},
                      map: SUBSET Points, sum: Nat]
<1>1. CASE (\/ \E n \in Procs, iters \in Iters : BeginStoreCov(p, n, iters)
            \/ BeginReadLog(p)) /\ UNCHANGED histVars
  <2>1. PICK to \in {"cov_locked", "log_locked"} :
          /\ Down(p, "covMap", to)
          /\ UNCHANGED <<states, seen, numVars, covmap, own, log, start, histVars>>
          /\ to = "cov_locked" =>
               \E n \in Procs, iters \in Iters :
                 /\ merge' = [merge EXCEPT ![p] = [proc |-> n, todo |-> Files, file |-> None, map |-> {}, sum |-> 0]]
                 /\ arg' = [arg EXCEPT ![p] = <<iters>>]
          /\ to = "log_locked" => UNCHANGED <<merge, arg>>
    BY <1>1 DEF BeginStoreCov, BeginReadLog, stateVars, covVars
  <2>2. to \in CovSteps
    BY DEF CovSteps
  <2>3. Held' /\ SemTypes'
    BY <2>1, <2>2, DownHeld
  <2>4. /\ merge' \in [Clients -> Record]
        /\ arg' \in [Clients -> {<<>>} \cup (Procs \X Codes) \cup {<<i>> : i \in Iters}]
        /\ to = "cov_locked" => merge'[p].proc \in Procs /\ arg'[p] \in {<<i>> : i \in Iters}
    <3>1. CASE to = "cov_locked"
      <4>1. PICK n \in Procs, iters \in Iters :
              /\ merge' = [merge EXCEPT ![p] = [proc |-> n, todo |-> Files, file |-> None, map |-> {}, sum |-> 0]]
              /\ arg' = [arg EXCEPT ![p] = <<iters>>]
        BY <2>1, <3>1
      <4>3. merge' \in [Clients -> Record] /\ merge'[p].proc \in Procs
        BY <4>1 DEF CallsTypeOK
      <4> QED BY <4>1, <4>3 DEF CallsTypeOK
    <3>2. CASE to = "log_locked"
      BY <2>1, <3>2 DEF CallsTypeOK
    <3> QED BY <3>1, <3>2
  <2>5. CallsTypeOK'
    BY <2>1, <2>3, <2>4 DEF CallsTypeOK, SemTypes, numVars, histVars
  <2>6. Moves(p, to) /\ \A q \in Clients : q # p => arg'[q] = arg[q]
    BY <2>1 DEF Down, Step, Moves, CallsTypeOK
  <2>7. NumPart'
    BY <2>1, <2>6, NumFrame DEF NumPart, numVars, histVars
  <2>8. SeenIsCurrent'
    BY <2>1, <2>6, SeenFrame DEF histVars
  <2>9. sem["covMap"] = 1
    <3>1. sem["covMap"] \in 0..1 /\ sem["covMap"] > 0
      BY <2>1 DEF Down, CallsTypeOK
    <3> QED BY <3>1
  <2>10. \A f \in Files : recorded[f] \subseteq covmap[f]
    BY <2>9 DEF CoverageHeld, CoverageKept
  <2>11. pc'[p] = to /\ pc'[p] \in CovSteps
    BY <2>2, <2>6 DEF Moves, CallsTypeOK
  <2>12. \A q \in Clients : q # p => pc'[q] \notin CovSteps
    <3>1. \A q \in Clients : pc[q] \notin CovSteps
      BY <2>9, CovHolder
    <3> QED BY <2>6, <3>1 DEF Moves, CallsTypeOK
  <2>13. CoverageKept'
    BY <2>1, <2>10 DEF CoverageKept, histVars
  <2>14. CoverageHeld'
    BY <2>1, <2>4, <2>10, <2>11, <2>12, <2>13, CovOnly DEF histVars
  <2> QED BY <2>3, <2>5, <2>7, <2>8, <2>14 DEF NumPart
<1>2. CASE \E f \in Files : MergeFile(p, f)
                           /\ recorded' = [recorded EXCEPT ![f] = @ \cup own[merge[p].proc][f]]
                           /\ UNCHANGED <<ids, lastSet, stores>>
  <2>1. PICK f \in Files : /\ MergeFile(p, f)
                           /\ recorded' = [recorded EXCEPT ![f] = @ \cup own[merge[p].proc][f]]
                           /\ UNCHANGED <<ids, lastSet, stores>>
    BY <1>2
  <2> DEFINE map == covmap[f] \cup own[merge[p].proc][f]
  <2>2. /\ pc[p] = "cov_locked" /\ pc' = [pc EXCEPT ![p] = "cov_merged"]
        /\ covmap' = [covmap EXCEPT ![f] = {}]
        /\ UNCHANGED <<sem, holds, own, log, start, numVars, stateVars, ids, lastSet, stores>>
    BY <2>1 DEF MergeFile, Step
  <2>3. /\ merge[p] \in Record /\ merge[p].proc \in Procs /\ arg[p] \in {<<i>> : i \in Iters}
        /\ \A g \in Files : recorded[g] \subseteq covmap[g]
    BY <2>2 DEF CallsTypeOK, CoverageHeld
  <2>4. map \subseteq Points /\ Cardinality(map) \in Nat
    <3>1. map \subseteq Points
      BY <2>3 DEF CallsTypeOK
    <3>2. IsFiniteSet(map)
      BY <3>1, ManagerConstants, FS_Subset
    <3> QED BY <3>1, <3>2, FS_CardinalityType
  <2>5. merge' = [merge EXCEPT ![p] = [proc |-> merge[p].proc, todo |-> merge[p].todo \ {f}, file |-> f,
                                       map |-> map, sum |-> merge[p].sum + Cardinality(map)]]
    BY <2>1 DEF MergeFile
  <2>6. /\ merge'[p].proc = merge[p].proc /\ merge'[p].file = f /\ merge'[p].map = map
        /\ merge' \in [Clients -> Record]
    <3> HIDE DEF map
    <3>1. merge[p].sum + Cardinality(map) \in Nat /\ merge[p].todo \ {f} \in SUBSET Files
      BY <2>3, <2>4
    <3>2. merge \in [Clients -> Record]
      BY DEF CallsTypeOK
    <3> QED BY <2>3, <2>4, <2>5, <3>1, <3>2
  <2>7. Held' /\ SemTypes'
    BY <2>2, InnerHeld DEF CovSteps
  <2>8. covmap' \in [Files -> SUBSET Points] /\ recorded' \in [Files -> SUBSET Points]
    BY <2>1, <2>2, <2>3 DEF CallsTypeOK
  <2>9. CallsTypeOK'
    BY <2>2, <2>6, <2>7, <2>8 DEF CallsTypeOK, SemTypes, numVars, stateVars
  <2>10. Moves(p, "cov_merged")
    BY <2>2 DEF Moves
  <2>11. NumPart'
    BY <2>2, <2>10, NumFrame DEF NumPart, numVars
  <2>12. SeenIsCurrent'
    BY <2>2, <2>10, SeenFrame DEF stateVars
  <2>13. pc'[p] = "cov_merged"
    BY <2>2 DEF CallsTypeOK
  <2>14. sem'["covMap"] = 0 /\ \A q \in Clients : q # p => pc'[q] \notin CovSteps
    <3>1. sem["covMap"] = 0 /\ \A q \in Clients : q # p => pc[q] \notin CovSteps
      BY <2>2, CovHolder DEF CovSteps
    <3> QED BY <2>2, <2>10, <3>1 DEF Moves, CallsTypeOK
  <2>15. CoverageKept'
    BY <2>14 DEF CoverageKept
  <2>16. recorded'[f] \subseteq map
    BY <2>1, <2>3 DEF CallsTypeOK
  <2>17. \A g \in Files \ {f} : recorded'[g] \subseteq covmap'[g]
    BY <2>1, <2>2, <2>3 DEF CallsTypeOK
  <2>18. CoverageHeld'
    <3> HIDE DEF map
    <3> QED BY <2>2, <2>3, <2>6, <2>13, <2>14, <2>15, <2>16, <2>17, CovOnly DEF stateVars
  <2> QED BY <2>7, <2>9, <2>11, <2>12, <2>18 DEF NumPart
<1>3. CASE WriteFile(p) /\ UNCHANGED histVars
  <2> DEFINE f == merge[p].file
  <2>1. /\ pc[p] = "cov_merged" /\ pc' = [pc EXCEPT ![p] = "cov_locked"]
        /\ covmap' = [covmap EXCEPT ![f] = merge[p].map]
        /\ UNCHANGED <<sem, holds, own, log, merge, start, numVars, stateVars, histVars>>
    BY <1>3 DEF WriteFile, Step
  <2>2. /\ merge[p] \in Record /\ merge[p].proc \in Procs /\ arg[p] \in {<<i>> : i \in Iters}
        /\ f \in Files /\ recorded[f] \subseteq merge[p].map
        /\ \A g \in Files \ {f} : recorded[g] \subseteq covmap[g]
    BY <2>1 DEF CallsTypeOK, CoverageHeld
  <2>3. Held' /\ SemTypes'
    BY <2>1, InnerHeld DEF CovSteps
  <2>4. covmap' \in [Files -> SUBSET Points]
    BY <2>1, <2>2 DEF CallsTypeOK
  <2>5. CallsTypeOK'
    BY <2>1, <2>3, <2>4 DEF CallsTypeOK, SemTypes, numVars, stateVars, histVars
  <2>6. Moves(p, "cov_locked")
    BY <2>1 DEF Moves
  <2>7. NumPart'
    BY <2>1, <2>6, NumFrame DEF NumPart, numVars, histVars
  <2>8. SeenIsCurrent'
    BY <2>1, <2>6, SeenFrame DEF stateVars, histVars
  <2>9. pc'[p] = "cov_locked"
    BY <2>1 DEF CallsTypeOK
  <2>10. \A q \in Clients : q # p => pc'[q] \notin CovSteps
    <3>1. \A q \in Clients : q # p => pc[q] \notin CovSteps
      BY <2>1, CovHolder DEF CovSteps
    <3> QED BY <2>1, <3>1 DEF CallsTypeOK
  <2>11. \A g \in Files : recorded'[g] \subseteq covmap'[g]
    BY <2>1, <2>2 DEF CallsTypeOK, histVars
  <2>12. CoverageKept'
    BY <2>11 DEF CoverageKept
  <2>13. CoverageHeld'
    BY <2>1, <2>2, <2>9, <2>10, <2>11, <2>12, CovOnly DEF stateVars
  <2> QED BY <2>3, <2>5, <2>7, <2>8, <2>13 DEF NumPart
<1>4. CASE \/ WriteLog(p) /\ UNCHANGED <<ids, lastSet, recorded>> /\ stores' = stores + 1
           \/ ReadLog(p) /\ UNCHANGED histVars
  <2>1. /\ pc[p] \in {"cov_locked", "log_locked"} /\ pc' = [pc EXCEPT ![p] = "cov_done"]
        /\ UNCHANGED <<sem, holds, covmap, own, numVars, stateVars, ids, lastSet, recorded>>
    BY <1>4 DEF WriteLog, ReadLog, Step, histVars
  <2>2. NoMerge \in Record
    BY DEF NoMerge
  <2>3. merge' \in [Clients -> Record]
    BY <1>4, <2>2 DEF WriteLog, ReadLog, CallsTypeOK
  <2>4. log' \in Nat \X Nat /\ start' \in [Clients -> Nat \X Nat] /\ stores' \in Nat
    <3>1. CASE ReadLog(p) /\ UNCHANGED histVars
      BY <3>1 DEF ReadLog, CallsTypeOK, histVars
    <3>2. CASE WriteLog(p) /\ stores' = stores + 1
      <4>1. PICK i \in Iters : arg[p] = <<i>>
        BY <3>2 DEF WriteLog, Step, CoverageHeld
      <4>2. start[p][1] \in Nat /\ merge[p].sum \in Nat /\ i \in Nat /\ arg[p][1] = i
        BY <4>1, CallsConstants DEF CallsTypeOK
      <4>3. log' = <<start[p][1] + 1 + i, merge[p].sum>>
        BY <3>2, <4>2 DEF WriteLog
      <4>4. start[p][1] + 1 + i \in Nat
        BY <4>2
      <4> QED BY <3>2, <4>2, <4>3, <4>4 DEF WriteLog, CallsTypeOK
    <3> QED BY <1>4, <3>1, <3>2
  <2>5. Held' /\ SemTypes'
    BY <2>1, InnerHeld DEF CovSteps
  <2>6. CallsTypeOK'
    BY <2>1, <2>3, <2>4, <2>5 DEF CallsTypeOK, SemTypes, numVars, stateVars
  <2>7. Moves(p, "cov_done")
    BY <2>1 DEF Moves
  <2>8. NumPart'
    BY <2>1, <2>7, NumFrame DEF NumPart, numVars
  <2>9. SeenIsCurrent'
    BY <2>1, <2>7, SeenFrame DEF stateVars
  <2>10. pc'[p] = "cov_done"
    BY <2>1 DEF CallsTypeOK
  <2>11. \A q \in Clients : q # p => pc'[q] \notin CovSteps
    <3>1. \A q \in Clients : q # p => pc[q] \notin CovSteps
      BY <2>1, CovHolder DEF CovSteps
    <3> QED BY <2>1, <3>1 DEF CallsTypeOK
  <2>12. \A g \in Files : recorded'[g] \subseteq covmap'[g]
    BY <2>1 DEF CoverageHeld
  <2>13. CoverageKept'
    BY <2>12 DEF CoverageKept
  <2>14. CoverageHeld'
    BY <2>10, <2>11, <2>12, <2>13, CovOnly
  <2> QED BY <2>5, <2>6, <2>8, <2>9, <2>14 DEF NumPart
<1>5. CASE EndCov(p) /\ UNCHANGED histVars
  <2>1. Up(p, "cov_done") /\ UNCHANGED <<numVars, stateVars, covVars, histVars>>
    BY <1>5 DEF EndCov
  <2>2. Held' /\ SemTypes'
    BY <2>1, UpHeld DEF CovSteps
  <2>3. CallsTypeOK'
    BY <2>1, <2>2 DEF CallsTypeOK, SemTypes, numVars, stateVars, covVars, histVars
  <2>4. Moves(p, "free") /\ pc[p] = "cov_done" /\ pc'[p] = "free"
    BY <2>1 DEF Up, Step, Moves, CallsTypeOK
  <2>5. NumPart'
    BY <2>1, <2>4, NumFrame DEF NumPart, numVars, histVars
  <2>6. SeenIsCurrent'
    BY <2>1, <2>4, SeenFrame DEF stateVars, histVars
  <2>7. \A q \in Clients : q # p => pc'[q] \notin CovSteps
    <3>1. \A q \in Clients : q # p => pc[q] \notin CovSteps
      BY <2>4, CovHolder DEF CovSteps
    <3> QED BY <2>4, <3>1 DEF Moves, CallsTypeOK
  <2>8. CoverageKept'
    BY <2>1, <2>4 DEF CoverageHeld, CoverageKept, covVars, histVars
  <2>9. CoverageHeld'
    BY <2>4, <2>7, <2>8, CovOnly
  <2> QED BY <2>2, <2>3, <2>5, <2>6, <2>9 DEF NumPart
<1> QED BY <1>1, <1>2, <1>3, <1>4, <1>5 DEF Coverage

-----------------------------------------------------------------------------
(* Deaths and the design under test                                         *)

LEMMA DieStep ==
  ASSUME CallsIInv, NEW p \in Clients, Die(p), UNCHANGED histVars
  PROVE  CallsIInv'
<1> USE DEF CallsIInv
<1>1. pc' = [pc EXCEPT ![p] = "dead"] /\ UNCHANGED <<sem, holds, numVars, stateVars, covVars, histVars>>
  BY DEF Die
<1>2. Held' /\ SemTypes'
  BY <1>1, InnerHeld
<1>3. CallsTypeOK'
  BY <1>1, <1>2 DEF CallsTypeOK, SemTypes, numVars, stateVars, covVars, histVars
<1>4. Moves(p, "dead")
  BY <1>1 DEF Moves
<1>5. NumPart'
  BY <1>1, <1>4, NumFrame DEF NumPart, numVars, histVars
<1>6. SeenIsCurrent'
  BY <1>1, <1>4, SeenFrame DEF stateVars, histVars
<1>7. CoverageHeld'
  BY <1>1, <1>4, CovFrame DEF CovSteps, stateVars, covVars, histVars
<1> QED BY <1>2, <1>3, <1>5, <1>6, <1>7 DEF NumPart

LEMMA DutStep ==
  ASSUME CallsIInv, NEW n \in Procs, RunDut(n)
  PROVE  CallsIInv'
<1> USE DEF CallsIInv
<1>1. PICK f \in Files, x \in Points : own' = [own EXCEPT ![n] = [own[n] EXCEPT ![f] = @ \cup {x}]]
  BY DEF RunDut, CovStore
<1>2. UNCHANGED <<sem, pc, holds, numVars, stateVars, covmap, log, merge, start, histVars>>
  BY DEF RunDut, CovStore
<1>3. own' \in [Procs -> [Files -> SUBSET Points]]
  BY <1>1 DEF CallsTypeOK
<1>4. CallsTypeOK'
  BY <1>2, <1>3 DEF CallsTypeOK, numVars, stateVars, histVars
<1>5. Held' /\ NumPart'
  BY <1>2 DEF Held, HeldSems, Exclusive, NumPart, NumIsNext, IdsBelow, IdsDistinct, numVars, histVars
<1>6. SeenIsCurrent' /\ CoverageHeld'
  BY <1>2 DEF SeenIsCurrent, StatesKept, CoverageHeld, CoverageKept, stateVars, histVars
<1> QED BY <1>4, <1>5, <1>6 DEF NumPart
-----------------------------------------------------------------------------
(* The inductive invariant                                                  *)

LEMMA CallsInitStep == CallsInit => CallsIInv
<1> SUFFICES ASSUME CallsInit PROVE CallsIInv
  OBVIOUS
<1> USE DEF CallsInit, PMInit
<1>1. CallsTypeOK
  <2>1. Normal \in Codes /\ NumMax \in Nat
    BY ManagerConstants
  <2>2. /\ sem \in [Sems -> 0..1] /\ shm \in [Counters -> 0..NumMax]
        /\ num \in [Clients -> 0..NumMax] /\ log \in Nat \X Nat /\ start \in [Clients -> Nat \X Nat]
        /\ ids \in [Clients -> [Counters -> SUBSET (0..NumMax)]] /\ stores \in Nat
    BY <2>1
  <2>3. /\ states \in [Procs -> Codes] /\ lastSet \in [Procs -> Codes]
        /\ seen \in [Clients -> [Procs -> Codes]]
        /\ covmap \in [Files -> SUBSET Points] /\ recorded \in [Files -> SUBSET Points]
        /\ own \in [Procs -> [Files -> SUBSET Points]]
    BY <2>1
  <2>4. /\ merge \in [Clients -> [proc: Procs \cup {None}, todo: SUBSET Files, file: Files \cup {None},
                                  map: SUBSET Points, sum: Nat]]
        /\ arg \in [Clients -> {<<>>} \cup (Procs \X Codes) \cup {<<i>> : i \in Iters}]
        /\ holds \in [Clients -> Sems \cup {None}]
        /\ pc \in [Clients -> NumSteps \cup StateSteps \cup CovSteps \cup {"free", "dead"}]
    BY DEF NoMerge
  <2> QED BY <2>2, <2>3, <2>4 DEF CallsTypeOK
<1>2. Held
  BY DEF Held, HeldSems, Exclusive, NumSteps, StateSteps, CovSteps
<1>3. NumIsNext /\ IdsBelow /\ IdsDistinct
  BY DEF NumIsNext, IdsBelow, IdsDistinct
<1>4. SeenIsCurrent /\ CoverageHeld
  BY DEF SeenIsCurrent, StatesKept, CoverageHeld, CoverageKept
<1> QED BY <1>1, <1>2, <1>3, <1>4 DEF CallsIInv

LEMMA CallsNextStep ==
  ASSUME CallsIInv, [CallsNext]_callVars
  PROVE  CallsIInv'
<1>1. CASE \E p \in Clients : Numbers(p) \/ States(p) \/ Coverage(p)
  BY <1>1, NumbersStep, StatesStep, CoverageStep
<1>2. CASE \E p \in Clients : Die(p) /\ UNCHANGED histVars
  BY <1>2, DieStep
<1>3. CASE \E n \in Procs : RunDut(n)
  BY <1>3, DutStep
<1>4. CASE UNCHANGED callVars
  <2> USE <1>4 DEF callVars, pmVars, histVars
  <2>1. CallsTypeOK' /\ Held'
    BY DEF CallsIInv, CallsTypeOK, Held, HeldSems, Exclusive
  <2>2. NumIsNext' /\ IdsBelow' /\ IdsDistinct'
    BY DEF CallsIInv, NumIsNext, IdsBelow, IdsDistinct
  <2>3. SeenIsCurrent' /\ CoverageHeld'
    BY DEF CallsIInv, SeenIsCurrent, StatesKept, CoverageHeld, CoverageKept
  <2> QED BY <2>1, <2>2, <2>3 DEF CallsIInv
<1> QED BY <1>1, <1>2, <1>3, <1>4 DEF CallsNext

LEMMA CallsInductive == CallsSpec => []CallsIInv
BY CallsInitStep, CallsNextStep, PTL DEF CallsSpec

-----------------------------------------------------------------------------
(* Theorems                                                                 *)

\* Every variable of procManager keeps its type; a semaphore is never given
\* twice, and no number is larger than the shared word (P and V of all calls).
THEOREM CallsTypeCorrect == CallsSpec => []CallsTypeOK
BY CallsInductive, PTL DEF CallsIInv

\* No file number is given to two processes, for any number of processes of
\* which any may be killed anywhere (read_num and write_num).
THEOREM IdsNeverShared == CallsSpec => []IdsDistinct
BY CallsInductive, PTL DEF CallsIInv

\* No set_state is ever lost (set_state).
THEOREM StatesNeverLost == CallsSpec => []StatesKept
BY CallsInductive, PTL DEF CallsIInv, SeenIsCurrent

\* Whoever gets covMap finds all coverage that was merged (store_covmap).
THEOREM CoverageNeverLost == CallsSpec => []CoverageKept
BY CallsInductive, PTL DEF CallsIInv, CoverageHeld

\* a step gives one process the next number, or changes neither numbers nor ids
LEMMA DispenserStep ==
  ASSUME CallsIInv, [CallsNext]_callVars
  PROVE  [Dispenser!Next]_<<shm, ids>>
<1>1. CASE \E p \in Clients : StoreNum(p) /\ ids' = [ids EXCEPT ![p][holds[p]] = @ \cup {num[p]}]
  <2>1. PICK p \in Clients : StoreNum(p) /\ ids' = [ids EXCEPT ![p][holds[p]] = @ \cup {num[p]}]
    BY <1>1
  <2>2. holds[p] \in Counters /\ num[p] = shm[holds[p]]
    BY <2>1 DEF StoreNum, Step, CallsIInv, Held, HeldSems, NumSteps, NumIsNext
  <2>3. Dispenser!Give(p, holds[p])
    BY <2>1, <2>2 DEF StoreNum, Dispenser!Give
  <2> QED BY <2>2, <2>3 DEF Dispenser!Next
<1>2. CASE UNCHANGED <<shm, ids>>
  BY <1>2
<1>3. CASE \E p \in Clients : Numbers(p)
  <2>1. PICK p \in Clients : Numbers(p)
    BY <1>3
  <2>2. \/ UNCHANGED <<shm, ids>>
        \/ StoreNum(p) /\ ids' = [ids EXCEPT ![p][holds[p]] = @ \cup {num[p]}]
    BY <2>1 DEF Numbers, TakeNum, LoadNum, NumOverflow, GiveNum, numVars, histVars
  <2> QED BY <1>1, <1>2, <2>2
<1>4. CASE \E p \in Clients : States(p)
  <2>1. UNCHANGED <<shm, ids>>
    BY <1>4 DEF States, BeginSetState, ReadStates, BeginGetState, EndState, WriteStates, numVars, histVars
  <2> QED BY <1>2, <2>1
<1>5. CASE \E p \in Clients : Coverage(p)
  <2>1. UNCHANGED <<shm, ids>>
    BY <1>5 DEF Coverage, BeginStoreCov, MergeFile, WriteFile, WriteLog, EndCov, BeginReadLog, ReadLog,
                numVars, histVars
  <2> QED BY <1>2, <2>1
<1>6. CASE (\E p \in Clients : Die(p) /\ UNCHANGED histVars) \/ (\E n \in Procs : RunDut(n))
  <2>1. UNCHANGED <<shm, ids>>
    BY <1>6 DEF Die, RunDut, CovStore, numVars, histVars
  <2> QED BY <1>2, <2>1
<1>7. CASE UNCHANGED callVars
  BY <1>2, <1>7 DEF callVars, pmVars, histVars
<1> QED BY <1>3, <1>4, <1>5, <1>6, <1>7 DEF CallsNext

\* The calls that take a number implement the dispenser: each takes effect in
\* one step, when write_num writes (read_num and write_num).
THEOREM ImplementsDispenser == CallsSpec => IsDispenser
<1>1. CallsInit => Dispenser!Init
  BY ManagerConstants DEF CallsInit, PMInit, Dispenser!Init
<1>2. CallsIInv /\ [CallsNext]_callVars => [Dispenser!Next]_<<shm, ids>>
  BY DispenserStep
<1> QED BY <1>1, <1>2, CallsInductive, PTL DEF CallsSpec, IsDispenser, Dispenser!Spec
-----------------------------------------------------------------------------
(* The coverage log                                                         *)

\* the points of some files that a map marks
Marked(files, map) == {fx \in files \X Points : fx[2] \in map[fx[1]]}

\* the merged files as they are when the one p has opened is written
Rewritten(p) ==
  [f \in Files |-> IF pc[p] = "cov_merged" /\ f = merge[p].file THEN merge[p].map ELSE covmap[f]]

\* The sum of a merge counts what its files are left with, and the last line
\* of the log counts no more than the merged files have.
LogHeld(p) ==
  pc[p] \in CovSteps =>
    /\ log[2] <= Cardinality(Marked(Files, Rewritten(p)))
    /\ pc[p] \in {"cov_locked", "cov_merged"} =>
         merge[p].sum = Cardinality(Marked(Files \ merge[p].todo, Rewritten(p)))
    /\ pc[p] = "cov_merged" => merge[p].file \in Files \ merge[p].todo
LogCovered ==
  /\ sem["covMap"] = 1 => log[2] <= Cardinality(Marked(Files, covmap))
  /\ \A p \in Clients : LogHeld(p)

LEMMA MarkedFinite ==
  ASSUME NEW files \in SUBSET Files, NEW map
  PROVE  IsFiniteSet(Marked(files, map)) /\ Cardinality(Marked(files, map)) \in Nat
<1>1. IsFiniteSet(files)
  BY ManagerConstants, FS_Subset
<1>2. IsFiniteSet(files \X Points)
  BY <1>1, ManagerConstants, FS_Product
<1>3. Marked(files, map) \in SUBSET (files \X Points)
  BY DEF Marked
<1>4. IsFiniteSet(Marked(files, map))
  BY <1>2, <1>3, FS_Subset
<1> QED BY <1>4, FS_CardinalityType

\* the files a map marks more points of count for more
LEMMA MarkedMore ==
  ASSUME NEW map, NEW more, \A f \in Files : map[f] \subseteq more[f]
  PROVE  Cardinality(Marked(Files, map)) <= Cardinality(Marked(Files, more))
<1>1. Marked(Files, map) \in SUBSET Marked(Files, more)
  BY DEF Marked
<1> QED BY <1>1, MarkedFinite, FS_Subset

\* one more file counts for its points
LEMMA MarkedOneMore ==
  ASSUME NEW files \in SUBSET Files, NEW f \in Files \ files, NEW map, NEW after,
         \A g \in files : after[g] = map[g], after[f] \subseteq Points
  PROVE  Cardinality(Marked(files \cup {f}, after))
           = Cardinality(Marked(files, map)) + Cardinality(after[f])
<1> DEFINE pairs == {f} \X after[f]
<1>1. IsFiniteSet(after[f]) /\ Cardinality(after[f]) \in Nat
  BY ManagerConstants, FS_Subset, FS_CardinalityType
<1>2. IsFiniteSet(pairs) /\ Cardinality(pairs) = Cardinality(after[f])
  <2>1. IsFiniteSet({f}) /\ Cardinality({f}) = 1
    BY FS_Singleton
  <2> QED BY <1>1, <2>1, FS_Product
<1>3. IsFiniteSet(Marked(files, map)) /\ Cardinality(Marked(files, map)) \in Nat
  BY MarkedFinite
<1>4. Marked(files \cup {f}, after) = Marked(files, map) \cup pairs
  BY DEF Marked
<1>5. Marked(files, map) \cap pairs = {}
  BY DEF Marked
<1> HIDE DEF pairs
<1>6. Cardinality(Marked(files, map) \cup pairs)
        = Cardinality(Marked(files, map)) + Cardinality(pairs) - Cardinality({})
  BY <1>2, <1>3, <1>5, FS_Union
<1>7. Cardinality({}) = 0
  BY FS_EmptySet
<1>8. Cardinality(Marked(files, map) \cup pairs) = Cardinality(Marked(files, map)) + Cardinality(after[f])
  BY <1>1, <1>2, <1>3, <1>6, <1>7
<1> QED BY <1>4, <1>8

\* a step that leaves files, merge and log alone, and covMap with its holder
LEMMA LogFrame ==
  ASSUME CallsTypeOK, LogCovered, NEW p \in Clients, NEW to, to \notin CovSteps,
         pc' = [pc EXCEPT ![p] = to], UNCHANGED <<covmap, merge, log>>,
         sem'["covMap"] = 1 => sem["covMap"] = 1
  PROVE  LogCovered'
<1>1. ASSUME NEW q \in Clients PROVE LogHeld(q)'
  <2>1. CASE q = p
    BY <2>1 DEF LogHeld, CallsTypeOK
  <2>2. CASE q # p
    <3>1. pc'[q] = pc[q]
      BY <2>2 DEF CallsTypeOK
    <3>2. Rewritten(q)' = Rewritten(q)
      BY <3>1 DEF Rewritten
    <3> QED BY <3>1, <3>2 DEF LogCovered, LogHeld, Marked
  <2> QED BY <2>1, <2>2
<1> QED BY <1>1 DEF LogCovered, Marked

\* while p holds covMap only its part is left
LEMMA LogOnly ==
  ASSUME NEW p \in Clients, \A q \in Clients : q # p => pc'[q] \notin CovSteps,
         sem'["covMap"] = 1 => (log[2] <= Cardinality(Marked(Files, covmap)))', LogHeld(p)'
  PROVE  LogCovered'
BY DEF LogCovered, LogHeld

LEMMA LogCoverageStep ==
  ASSUME CallsIInv, LogCovered, NEW p \in Clients, Coverage(p)
  PROVE  LogCovered' /\ log'[2] >= log[2]
<1> "covMap" \in Sems /\ "covMap" # None
  BY ManagerConstants DEF Sems
<1> USE DEF CallsIInv
<1>1. log[2] \in Nat /\ covmap \in [Files -> SUBSET Points]
  BY DEF CallsTypeOK
<1>2. pc[p] \in CovSteps => /\ sem["covMap"] = 0 /\ LogHeld(p)
                            /\ \A q \in Clients : q # p => pc[q] \notin CovSteps
  BY CovHolder DEF LogCovered
<1>3. CASE (\/ \E n \in Procs, iters \in Iters : BeginStoreCov(p, n, iters)
            \/ BeginReadLog(p)) /\ UNCHANGED histVars
  <2>1. PICK to \in {"cov_locked", "log_locked"} :
          /\ Down(p, "covMap", to) /\ UNCHANGED <<covmap, log>>
          /\ to = "cov_locked" => \E n \in Procs :
               merge' = [merge EXCEPT ![p] = [proc |-> n, todo |-> Files, file |-> None, map |-> {}, sum |-> 0]]
    BY <1>3 DEF BeginStoreCov, BeginReadLog, covVars
  <2>2. /\ sem["covMap"] = 1 /\ sem'["covMap"] = 0
        /\ pc' = [pc EXCEPT ![p] = to] /\ pc'[p] = to
    BY <2>1 DEF Down, Step, CallsTypeOK
  <2>3. \A q \in Clients : q # p => pc'[q] \notin CovSteps
    <3>1. \A q \in Clients : pc[q] \notin CovSteps
      BY <2>2, CovHolder
    <3> QED BY <2>2, <3>1 DEF CallsTypeOK
  <2>4. Rewritten(p)' = covmap
    BY <1>1, <2>1, <2>2 DEF Rewritten
  <2>5. log[2] <= Cardinality(Marked(Files, covmap))
    BY <2>2 DEF LogCovered
  <2>6. to = "cov_locked" => merge'[p].sum = 0 /\ merge'[p].todo = Files
    BY <2>1 DEF CallsTypeOK
  <2>7. Cardinality(Marked({}, covmap)) = 0
    <3>1. Marked({}, covmap) = {}
      BY DEF Marked
    <3> QED BY <3>1, FS_EmptySet
  <2>8. Files \ Files = {}
    OBVIOUS
  <2>9. LogHeld(p)'
    BY <2>1, <2>2, <2>4, <2>5, <2>6, <2>7, <2>8 DEF LogHeld, Marked
  <2> QED BY <1>1, <2>1, <2>2, <2>3, <2>9, LogOnly
<1>4. CASE \E f \in Files : MergeFile(p, f)
  <2>1. PICK f \in Files : MergeFile(p, f)
    BY <1>4
  <2> DEFINE map == covmap[f] \cup own[merge[p].proc][f]
             left == merge[p].todo
             before == Files \ left
             after == Rewritten(p)'
  <2>2. /\ pc[p] = "cov_locked" /\ f \in left /\ pc' = [pc EXCEPT ![p] = "cov_merged"]
        /\ covmap' = [covmap EXCEPT ![f] = {}] /\ UNCHANGED <<sem, log>>
        /\ merge' = [merge EXCEPT ![p] = [proc |-> merge[p].proc, todo |-> left \ {f}, file |-> f,
                                          map |-> map, sum |-> merge[p].sum + Cardinality(map)]]
    BY <2>1 DEF MergeFile, Step
  <2>3. merge[p].proc \in Procs /\ left \in SUBSET Files /\ map \subseteq Points
    BY <2>2 DEF CallsTypeOK, CoverageHeld
  <2>4. /\ pc'[p] = "cov_merged" /\ merge'[p].file = f /\ merge'[p].map = map
        /\ merge'[p].todo = left \ {f} /\ merge'[p].sum = merge[p].sum + Cardinality(map)
    BY <2>2 DEF CallsTypeOK
  <2>5. /\ log[2] <= Cardinality(Marked(Files, covmap))
        /\ merge[p].sum = Cardinality(Marked(before, covmap))
    <3>1. Rewritten(p) = covmap
      BY <1>1, <2>2 DEF Rewritten
    <3>2. LogHeld(p) /\ pc[p] \in CovSteps
      BY <1>2, <2>2 DEF CovSteps
    <3> QED BY <2>2, <3>1, <3>2 DEF LogHeld
  <2>6. after[f] = map /\ \A g \in Files \ {f} : after[g] = covmap[g]
    BY <1>1, <2>2, <2>4 DEF Rewritten
  <2>7. Files \ merge'[p].todo = before \cup {f} /\ f \in Files \ before /\ before \in SUBSET Files
    BY <2>2, <2>3, <2>4
  <2>8. merge'[p].sum = Cardinality(Marked(before \cup {f}, after))
    <3>1. \A g \in before : after[g] = covmap[g]
      BY <2>6, <2>7
    <3> HIDE DEF before, after, map
    <3>2. Cardinality(Marked(before \cup {f}, after)) = Cardinality(Marked(before, covmap)) + Cardinality(after[f])
      BY <2>3, <2>6, <2>7, <3>1, MarkedOneMore
    <3> QED BY <2>4, <2>5, <2>6, <3>2
  <2>9. log[2] <= Cardinality(Marked(Files, after))
    <3>1. \A g \in Files : covmap[g] \subseteq after[g]
      BY <2>6
    <3> HIDE DEF after
    <3>2. Cardinality(Marked(Files, covmap)) <= Cardinality(Marked(Files, after))
      BY <3>1, MarkedMore
    <3>3. Cardinality(Marked(Files, covmap)) \in Nat /\ Cardinality(Marked(Files, after)) \in Nat
      BY MarkedFinite
    <3> QED BY <1>1, <2>5, <3>2, <3>3
  <2>10. LogHeld(p)'
    <3> HIDE DEF before, map
    <3> QED BY <2>2, <2>4, <2>7, <2>8, <2>9 DEF LogHeld, Marked
  <2>11. \A q \in Clients : q # p => pc'[q] \notin CovSteps
    BY <1>2, <2>2 DEF CallsTypeOK, CovSteps
  <2>12. sem'["covMap"] = 0
    BY <1>2, <2>2 DEF CovSteps
  <2> QED BY <1>1, <2>2, <2>10, <2>11, <2>12, LogOnly
<1>5. CASE WriteFile(p)
  <2>1. /\ pc[p] = "cov_merged" /\ pc' = [pc EXCEPT ![p] = "cov_locked"]
        /\ covmap' = [covmap EXCEPT ![merge[p].file] = merge[p].map] /\ UNCHANGED <<sem, log, merge>>
    BY <1>5 DEF WriteFile, Step
  <2>2. LogHeld(p) /\ sem["covMap"] = 0 /\ pc'[p] = "cov_locked" /\ merge[p].file \in Files
    BY <1>2, <2>1 DEF CovSteps, CallsTypeOK, LogHeld
  <2>3. Rewritten(p)' = Rewritten(p)
    BY <1>1, <2>1, <2>2 DEF Rewritten
  <2>4. LogHeld(p)'
    BY <2>1, <2>2, <2>3 DEF LogHeld, Marked, CovSteps
  <2>5. \A q \in Clients : q # p => pc'[q] \notin CovSteps
    BY <1>2, <2>1 DEF CallsTypeOK, CovSteps
  <2> QED BY <1>1, <2>1, <2>2, <2>4, <2>5, LogOnly
<1>6. CASE WriteLog(p) \/ ReadLog(p)
  <2>1. /\ pc[p] \in {"cov_locked", "log_locked"} /\ pc' = [pc EXCEPT ![p] = "cov_done"]
        /\ UNCHANGED <<sem, covmap>>
    BY <1>6 DEF WriteLog, ReadLog, Step
  <2>2. LogHeld(p) /\ sem["covMap"] = 0 /\ pc'[p] = "cov_done"
    BY <1>2, <2>1 DEF CovSteps, CallsTypeOK
  <2>3. Rewritten(p) = covmap /\ Rewritten(p)' = covmap
    BY <1>1, <2>1, <2>2 DEF Rewritten
  <2>4. log[2] <= log'[2] /\ log'[2] <= Cardinality(Marked(Files, covmap))
    <3>1. log[2] <= Cardinality(Marked(Files, covmap)) /\ Cardinality(Marked(Files, covmap)) \in Nat
      BY <2>1, <2>2, <2>3, MarkedFinite DEF LogHeld, CovSteps
    <3>2. CASE WriteLog(p)
      <4>1. pc[p] = "cov_locked" /\ merge[p].todo = {} /\ log'[2] = merge[p].sum
        BY <3>2 DEF WriteLog, Step
      <4>2. merge[p].sum = Cardinality(Marked(Files, covmap))
        BY <2>2, <2>3, <4>1 DEF LogHeld, CovSteps
      <4> QED BY <1>1, <3>1, <4>1, <4>2
    <3>3. CASE ReadLog(p)
      BY <1>1, <3>1, <3>3 DEF ReadLog
    <3> QED BY <1>6, <3>2, <3>3
  <2>5. LogHeld(p)'
    BY <2>1, <2>2, <2>3, <2>4 DEF LogHeld, Marked
  <2>6. \A q \in Clients : q # p => pc'[q] \notin CovSteps
    BY <1>2, <2>1 DEF CallsTypeOK, CovSteps
  <2>7. LogCovered'
    BY <2>1, <2>2, <2>5, <2>6, LogOnly
  <2>8. log'[2] \in Nat
    BY CoverageStep DEF CallsTypeOK
  <2> QED BY <1>1, <2>4, <2>7, <2>8
<1>7. CASE EndCov(p)
  <2>1. /\ pc[p] = "cov_done" /\ pc' = [pc EXCEPT ![p] = "free"] /\ UNCHANGED <<covmap, log, merge>>
    BY <1>7 DEF EndCov, Up, Step, covVars
  <2>2. LogHeld(p) /\ pc'[p] = "free"
    BY <1>2, <2>1 DEF CovSteps, CallsTypeOK
  <2>3. Rewritten(p) = covmap
    BY <1>1, <2>1 DEF Rewritten
  <2>4. log[2] <= Cardinality(Marked(Files, covmap))
    BY <2>1, <2>2, <2>3 DEF LogHeld, CovSteps
  <2>5. LogHeld(p)'
    BY <2>2 DEF LogHeld, CovSteps
  <2>6. \A q \in Clients : q # p => pc'[q] \notin CovSteps
    BY <1>2, <2>1 DEF CallsTypeOK, CovSteps
  <2>7. (log[2] <= Cardinality(Marked(Files, covmap)))'
    BY <2>1, <2>4 DEF Marked
  <2> QED BY <1>1, <2>1, <2>5, <2>6, <2>7, LogOnly
<1>8. \/ (\/ \E n \in Procs, iters \in Iters : BeginStoreCov(p, n, iters)
          \/ BeginReadLog(p)) /\ UNCHANGED histVars
      \/ \E f \in Files : MergeFile(p, f)
      \/ WriteFile(p) \/ EndCov(p)
      \/ WriteLog(p) \/ ReadLog(p)
  <2> HIDE DEF CallsIInv
  <2> QED BY Zenon DEF Coverage
<1> QED
  <2> HIDE DEF CallsIInv
  <2> QED BY <1>3, <1>4, <1>5, <1>6, <1>7, <1>8

LEMMA LogStep ==
  ASSUME CallsIInv, LogCovered, [CallsNext]_callVars
  PROVE  LogCovered' /\ log'[2] >= log[2]
<1>1. log[2] \in Nat
  BY DEF CallsIInv, CallsTypeOK
<1>2. CASE \E p \in Clients : Numbers(p) \/ States(p) \/ Die(p)
  <2>1. PICK p \in Clients : Numbers(p) \/ States(p) \/ Die(p)
    BY <1>2
  <2>2. "covMap" \notin Counters
    BY ManagerConstants
  <2> DEFINE Away(to) == /\ to \notin CovSteps /\ pc' = [pc EXCEPT ![p] = to]
                         /\ UNCHANGED <<covmap, merge, log>>
                         /\ sem'["covMap"] = 1 => sem["covMap"] = 1
  <2>3. PICK to : Away(to)
    <3>1. CASE Numbers(p)
      <4>1. \/ \E c \in Counters : TakeNum(p, c)
            \/ LoadNum(p) \/ NumOverflow(p) \/ StoreNum(p) \/ GiveNum(p)
        BY <3>1 DEF Numbers
      <4>2. CASE \E c \in Counters : TakeNum(p, c)
        <5>1. Away("num_locked")
          BY <2>2, <4>2 DEF TakeNum, Down, Step, CovSteps, covVars
        <5> QED BY <5>1
      <4>3. CASE LoadNum(p) \/ NumOverflow(p) \/ StoreNum(p)
        <5>1. Away("num_read") \/ Away("dead") \/ Away("num_written")
          BY <4>3 DEF LoadNum, NumOverflow, StoreNum, Step, CovSteps, covVars
        <5> QED BY <5>1
      <4>4. CASE GiveNum(p)
        <5>1. holds[p] \in Counters
          BY <4>4 DEF GiveNum, Up, Step, CallsIInv, Held, HeldSems, NumSteps
        <5>2. Away("free")
          BY <2>2, <4>4, <5>1 DEF GiveNum, Up, Step, CovSteps, covVars
        <5> QED BY <5>2
      <4> QED BY <4>1, <4>2, <4>3, <4>4
    <3>2. CASE States(p)
      <4>1. \/ \E n \in Procs, code \in Codes : BeginSetState(p, n, code)
            \/ BeginGetState(p) \/ ReadStates(p) \/ WriteStates(p) \/ EndState(p)
        BY <3>2 DEF States
      <4>2. CASE (\E n \in Procs, code \in Codes : BeginSetState(p, n, code)) \/ BeginGetState(p)
        <5>1. PICK to \in {"set_locked", "get_locked"} : Down(p, "state", to) /\ UNCHANGED covVars
          BY <4>2 DEF BeginSetState, BeginGetState
        <5>2. Away(to)
          BY <5>1 DEF Down, Step, CovSteps, covVars
        <5> QED BY <5>2
      <4>3. CASE ReadStates(p) \/ WriteStates(p)
        <5>1. Away("set_read") \/ Away("state_done")
          BY <4>3 DEF ReadStates, WriteStates, Step, CovSteps, covVars
        <5> QED BY <5>1
      <4>4. CASE EndState(p)
        <5>1. holds[p] = "state"
          BY <4>4 DEF EndState, Up, Step, CallsIInv, Held, HeldSems, StateSteps
        <5>2. Away("free")
          BY <2>2, <4>4, <5>1 DEF EndState, Up, Step, CovSteps, covVars
        <5> QED BY <5>2
      <4> QED BY <4>1, <4>2, <4>3, <4>4
    <3>3. CASE Die(p)
      <4>1. Away("dead")
        BY <3>3 DEF Die, CovSteps, covVars
      <4> QED BY <4>1
    <3> QED BY <2>1, <3>1, <3>2, <3>3
  <2>4. LogCovered'
    <3> HIDE DEF CallsIInv
    <3>1. CallsTypeOK
      BY DEF CallsIInv
    <3> QED BY <2>3, <3>1, LogFrame
  <2> QED BY <1>1, <2>3, <2>4
<1>3. CASE \E p \in Clients : Coverage(p)
  BY <1>3, LogCoverageStep
<1>4. CASE \/ \E n \in Procs : RunDut(n)
           \/ UNCHANGED callVars
  <2>1. UNCHANGED <<sem, pc, covmap, merge, log>>
    BY <1>4 DEF RunDut, CovStore, callVars, pmVars
  <2> QED BY <1>1, <2>1 DEF LogCovered, LogHeld, Marked, Rewritten
<1> QED BY <1>2, <1>3, <1>4 DEF CallsNext

\* The coverage in the log never decreases, whatever processes die in the
\* middle of a merge: what a line counts is what the merged files have, no
\* merge takes a point from them, and after a death in the middle of one
\* nobody merges any more (store_covmap).
THEOREM CoverageLogGrows == CallsSpec => LogGrows
<1>1. CallsInit => LogCovered
  <2> SUFFICES ASSUME CallsInit PROVE LogCovered
    OBVIOUS
  <2>1. log[2] = 0 /\ \A p \in Clients : pc[p] \notin CovSteps
    BY DEF CallsInit, PMInit, CovSteps
  <2>2. Cardinality(Marked(Files, covmap)) \in Nat
    BY MarkedFinite
  <2> QED BY <2>1, <2>2 DEF LogCovered, LogHeld
<1>2. CallsIInv /\ LogCovered /\ [CallsNext]_callVars => LogCovered' /\ [log'[2] >= log[2]]_log
  BY LogStep
<1> QED BY <1>1, <1>2, CallsInductive, PTL DEF CallsSpec, LogGrows
=============================================================================
