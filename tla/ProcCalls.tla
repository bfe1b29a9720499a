----------------------------- MODULE ProcCalls -----------------------------
(***************************************************************************)
(* Processes that make any calls of procManager in any order and may be    *)
(* killed at any step: what the manager promises does not depend on how    *)
(* the fuzzing loop uses it. Three history variables record what the calls *)
(* were meant to do.                                                       *)
(***************************************************************************)
EXTENDS ProcManager

CONSTANTS
  Calls,      \* the groups of calls made: "num", "state", "cov"
  Iters,      \* values of num_iter
  MaxStores   \* bound on the lines store_covmap adds to the log

ASSUME CallsConstants == Iters \subseteq Nat

VARIABLES
  ids,        \* ids[p][c]: the numbers p was given
  lastSet,    \* lastSet[n]: the code of the last set_state of n
  recorded,   \* recorded[f]: all points any store_covmap has merged
  stores      \* lines added to the log

histVars == <<ids, lastSet, recorded, stores>>
callVars == <<pmVars, histVars>>

CallsInit == /\ PMInit
             /\ ids = [p \in Clients |-> [c \in Counters |-> {}]]
             /\ lastSet = [n \in Procs |-> Normal]
             /\ recorded = [f \in Files |-> {}]
             /\ stores = 0

Numbers(p) ==
  \/ /\ \/ \E c \in Counters : TakeNum(p, c)
        \/ LoadNum(p)
        \/ NumOverflow(p)
        \/ GiveNum(p)
     /\ UNCHANGED histVars
  \/ /\ StoreNum(p)
     /\ ids' = [ids EXCEPT ![p][holds[p]] = @ \cup {num[p]}]
     /\ UNCHANGED <<lastSet, recorded, stores>>

States(p) ==
  \/ /\ \/ \E n \in Procs, code \in Codes : BeginSetState(p, n, code)
        \/ ReadStates(p)
        \/ BeginGetState(p)
        \/ EndState(p)
     /\ UNCHANGED histVars
  \/ /\ WriteStates(p)
     /\ lastSet' = [lastSet EXCEPT ![arg[p][1]] = arg[p][2]]
     /\ UNCHANGED <<ids, recorded, stores>>

Coverage(p) ==
  \/ /\ \/ \E n \in Procs, iters \in Iters : BeginStoreCov(p, n, iters)
        \/ WriteFile(p)
        \/ EndCov(p)
        \/ BeginReadLog(p)
        \/ ReadLog(p)
     /\ UNCHANGED histVars
  \/ \E f \in Files :
        /\ MergeFile(p, f)
        /\ recorded' = [recorded EXCEPT ![f] = @ \cup own[merge[p].proc][f]]
        /\ UNCHANGED <<ids, lastSet, stores>>
  \/ /\ WriteLog(p) /\ stores < MaxStores
     /\ stores' = stores + 1
     /\ UNCHANGED <<ids, lastSet, recorded>>

\* the coverage of a run only grows, one point at a time
RunDut(n) == /\ \E f \in Files, x \in Points :
                  CovStore(n, [own[n] EXCEPT ![f] = @ \cup {x}])
             /\ UNCHANGED histVars

CallsNext ==
  \/ \E p \in Clients : \/ "num" \in Calls /\ Numbers(p)
                        \/ "state" \in Calls /\ States(p)
                        \/ "cov" \in Calls /\ Coverage(p)
                        \/ Die(p) /\ UNCHANGED histVars
  \/ "cov" \in Calls /\ \E n \in Procs : RunDut(n)

CallsSpec == CallsInit /\ [][CallsNext]_callVars

-----------------------------------------------------------------------------
(* Typing                                                                   *)

NumSteps   == {"num_locked", "num_read", "num_written"}
StateSteps == {"set_locked", "set_read", "get_locked", "state_done"}
CovSteps   == {"cov_locked", "cov_merged", "cov_done", "log_locked"}

\* The type of every variable: semaphores are 0 or 1, numbers fit their word.
CallsTypeOK ==
  /\ sem \in [Sems -> 0..1]
  /\ shm \in [Counters -> 0..NumMax]
  /\ states \in [Procs -> Codes]
  /\ covmap \in [Files -> SUBSET Points]
  /\ own \in [Procs -> [Files -> SUBSET Points]]
  /\ log \in Nat \X Nat
  /\ pc \in [Clients -> NumSteps \cup StateSteps \cup CovSteps \cup {"free", "dead"}]
  /\ holds \in [Clients -> Sems \cup {None}]
  /\ num \in [Clients -> 0..NumMax]
  /\ seen \in [Clients -> [Procs -> Codes]]
  /\ arg \in [Clients -> {<<>>} \cup (Procs \X Codes) \cup {<<i>> : i \in Iters}]
  /\ merge \in [Clients -> [proc: Procs \cup {None}, todo: SUBSET Files, file: Files \cup {None},
                             map: SUBSET Points, sum: Nat]]
  /\ start \in [Clients -> Nat \X Nat]
  /\ ids \in [Clients -> [Counters -> SUBSET (0..NumMax)]]
  /\ lastSet \in [Procs -> Codes]
  /\ recorded \in [Files -> SUBSET Points]
  /\ stores \in Nat

-----------------------------------------------------------------------------
(* Safety                                                                   *)

\* A file number is given to one process only, also when a process is killed
\* between read_num and write_num: two processes never save to the same
\* id_N.si of mismatch/ or corpus/ (read_num and write_num).
IdsDistinct ==
  \A p, q \in Clients : p # q =>
    \A c \in Counters : ids[p][c] \cap ids[q][c] = {}

\* Each process that calls read_num and write_num gets the next number in one
\* step and the number is taken in the same step: the two calls together
\* implement a dispenser (read_num and write_num).
Dispenser == INSTANCE IdDispenser WITH next <- shm
IsDispenser == Dispenser!Spec

\* No set_state is lost: whatever reads and writes of the whole state array
\* interleave, the byte of each process is what its last set_state wrote
\* (set_state rewrites the bytes of all processes).
StatesKept == states = lastSet

\* Whoever gets covMap finds in the merged files every point that was ever
\* merged, although a file is emptied while it is rewritten (store_covmap).
CoverageKept ==
  sem["covMap"] = 1 => \A f \in Files : recorded[f] \subseteq covmap[f]

\* The coverage in the log never decreases from one line to the next, so
\* start_cov of a new process is never below that of an older one (the last
\* line of cov_log, written by store_covmap and read when a process starts).
LogGrows == [][log'[2] >= log[2]]_log
=============================================================================
