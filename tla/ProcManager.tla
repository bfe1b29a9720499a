---------------------------- MODULE ProcManager ----------------------------
(***************************************************************************)
(* procManager of src/multicore_manager.py: the System V semaphores and    *)
(* shared memory that the processes of a multicore run work on. A call is  *)
(* a sequence of steps, one for each access to shared memory, to a file or *)
(* to a semaphore, so calls of different processes interleave between any  *)
(* two of them. A process may be killed after any step; a semaphore it     *)
(* holds is then never given back (the objects are made without SEM_UNDO). *)
(*                                                                         *)
(* The elapsed-time column of the coverage log and the padding of its      *)
(* lines are left out. A coverage file is the set of the points it marks   *)
(* with 1; a file that does not exist yet is read as the empty one.        *)
(***************************************************************************)
EXTENDS Integers, FiniteSets

CONSTANTS
  Clients,   \* the processes
  Procs,     \* proc_num: 0 .. num_cores - 1
  Counters,  \* of mNum and cNum, the ones in use
  NumMax,    \* the largest number that fits the shared word (2^32 - 1)
  Codes,     \* the values of proc_state
  Normal,    \* proc_state.NORMAL
  Files,     \* names of the coverage files
  Points,    \* cover points of a file
  None       \* no semaphore

Sems == Counters \cup {"covMap", "state"}

ASSUME ManagerConstants ==
  /\ Counters \cap {"covMap", "state"} = {} /\ None \notin Sems
  /\ NumMax \in Nat
  /\ Normal \in Codes
  /\ IsFiniteSet(Files) /\ IsFiniteSet(Points)

VARIABLES
  sem,      \* value of each semaphore
  shm,      \* mNum_shm, cNum_shm
  states,   \* proc_states
  covmap,   \* out/covmap
  own,      \* out/covmap-NN
  log,      \* last line of cov_log: iterations and coverage
  pc,       \* the step a process is at
  holds,    \* the semaphore of the call a process is in
  num,      \* what read_num returned
  seen,     \* the bytes set_state or get_state read
  arg,      \* arguments of set_state or store_covmap
  merge,    \* locals of store_covmap: files to do, the file at hand, sum
  start     \* last_tuple: what a process read from cov_log

numVars   == <<shm, num>>
stateVars == <<states, seen, arg>>
covVars   == <<covmap, own, log, merge, start>>
pmVars    == <<sem, shm, states, covmap, own, log, pc, holds, num, seen, arg, merge, start>>

NoMerge == [proc |-> None, todo |-> {}, file |-> None, map |-> {}, sum |-> 0]

\* the semaphores of the numbers start at 0: write_num in __init__ gives them
PMInit ==
  /\ sem = [s \in Sems |-> 1]
  /\ shm \in [Counters -> 0..NumMax]
  /\ states = [n \in Procs |-> Normal]
  /\ covmap = [f \in Files |-> {}]
  /\ own = [n \in Procs |-> [f \in Files |-> {}]]
  /\ log = <<0, 0>>
  /\ pc = [p \in Clients |-> "free"]
  /\ holds = [p \in Clients |-> None]
  /\ num = [p \in Clients |-> 0]
  /\ seen = [p \in Clients |-> [n \in Procs |-> Normal]]
  /\ arg = [p \in Clients |-> <<>>]
  /\ merge = [p \in Clients |-> NoMerge]
  /\ start = [p \in Clients |-> <<0, 0>>]

Step(p, from, to) == pc[p] = from /\ pc' = [pc EXCEPT ![p] = to]

\* mutant of Down: the value is looked at but not taken
Down_Peek(p, s, to) ==
  /\ Step(p, "free", to)
  /\ sem[s] > 0 /\ UNCHANGED sem
  /\ holds' = [holds EXCEPT ![p] = s]

\* P: the call that takes s begins
Down(p, s, to) ==
  /\ Step(p, "free", to)
  /\ sem[s] > 0
  /\ sem' = [sem EXCEPT ![s] = @ - 1]
  /\ holds' = [holds EXCEPT ![p] = s]

\* mutant of Up: the semaphore is not given back
Up_Keep(p, from) ==
  /\ Step(p, from, "free")
  /\ holds' = [holds EXCEPT ![p] = None]
  /\ UNCHANGED sem

\* V: the call that holds its semaphore ends
Up(p, from) ==
  /\ Step(p, from, "free")
  /\ sem' = [sem EXCEPT ![holds[p]] = @ + 1]
  /\ holds' = [holds EXCEPT ![p] = None]

-----------------------------------------------------------------------------
(* File numbers. read_num returns with the semaphore taken; write_num gives *)
(* it back.                                                                 *)

TakeNum(p, c) == /\ c \in Counters /\ Down(p, c, "num_locked")
                 /\ UNCHANGED <<numVars, stateVars, covVars>>

LoadNum(p) == /\ Step(p, "num_locked", "num_read")
              /\ num' = [num EXCEPT ![p] = shm[holds[p]]]
              /\ UNCHANGED <<sem, holds, shm, stateVars, covVars>>

\* mutant of StoreNum: the number that was read is written back
StoreNum_Same(p) == /\ Step(p, "num_read", "num_written")
                    /\ num[p] < NumMax
                    /\ shm' = [shm EXCEPT ![holds[p]] = num[p]]
                    /\ UNCHANGED <<sem, holds, num, stateVars, covVars>>

StoreNum(p) == /\ Step(p, "num_read", "num_written")
               /\ num[p] < NumMax
               /\ shm' = [shm EXCEPT ![holds[p]] = num[p] + 1]
               /\ UNCHANGED <<sem, holds, num, stateVars, covVars>>

\* to_bytes raises OverflowError, with the semaphore taken
NumOverflow(p) == /\ Step(p, "num_read", "dead")
                  /\ num[p] = NumMax
                  /\ UNCHANGED <<sem, holds, numVars, stateVars, covVars>>

GiveNum(p) == Up(p, "num_written") /\ UNCHANGED <<numVars, stateVars, covVars>>

-----------------------------------------------------------------------------
(* States: all bytes are read and written for a change of one of them.      *)

BeginSetState(p, n, code) ==
  /\ Down(p, "state", "set_locked")
  /\ arg' = [arg EXCEPT ![p] = <<n, code>>]
  /\ UNCHANGED <<states, seen, numVars, covVars>>

ReadStates(p) ==
  /\ \/ Step(p, "set_locked", "set_read")
     \/ Step(p, "get_locked", "state_done")
  /\ seen' = [seen EXCEPT ![p] = states]
  /\ UNCHANGED <<sem, holds, states, arg, numVars, covVars>>

\* mutant of WriteStates: the other processes' bytes are written as NORMAL
WriteStates_Reset(p) ==
  /\ Step(p, "set_read", "state_done")
  /\ states' = [n \in Procs |-> IF n = arg[p][1] THEN arg[p][2] ELSE Normal]
  /\ UNCHANGED <<sem, holds, seen, arg, numVars, covVars>>

WriteStates(p) ==
  /\ Step(p, "set_read", "state_done")
  /\ states' = [seen[p] EXCEPT ![arg[p][1]] = arg[p][2]]
  /\ UNCHANGED <<sem, holds, seen, arg, numVars, covVars>>

BeginGetState(p) == /\ Down(p, "state", "get_locked")
                    /\ UNCHANGED <<numVars, stateVars, covVars>>

EndState(p) == Up(p, "state_done") /\ UNCHANGED <<numVars, stateVars, covVars>>

-----------------------------------------------------------------------------
(* Coverage: the merged files are rewritten one after the other.            *)

BeginStoreCov(p, n, iters) ==
  /\ Down(p, "covMap", "cov_locked")
  /\ merge' = [merge EXCEPT ![p] = [proc |-> n, todo |-> Files, file |-> None, map |-> {}, sum |-> 0]]
  /\ arg' = [arg EXCEPT ![p] = <<iters>>]
  /\ UNCHANGED <<states, seen, numVars, covmap, own, log, start>>

\* reads the merged file and the process' own one, and opens the merged one
\* for writing, which empties it
\* mutant of MergeFile: the merged file is not read
MergeFile_Own(p, f) ==
  /\ Step(p, "cov_locked", "cov_merged")
  /\ f \in merge[p].todo
  /\ LET map == own[merge[p].proc][f] IN
       merge' = [merge EXCEPT ![p] = [proc |-> @.proc, todo |-> @.todo \ {f}, file |-> f, map |-> map,
                                      sum |-> @.sum + Cardinality(map)]]
  /\ covmap' = [covmap EXCEPT ![f] = {}]
  /\ UNCHANGED <<sem, holds, own, log, start, numVars, stateVars>>

MergeFile(p, f) ==
  /\ Step(p, "cov_locked", "cov_merged")
  /\ f \in merge[p].todo
  /\ LET map == covmap[f] \cup own[merge[p].proc][f] IN
       merge' = [merge EXCEPT ![p] = [proc |-> @.proc, todo |-> @.todo \ {f}, file |-> f, map |-> map,
                                      sum |-> @.sum + Cardinality(map)]]
  /\ covmap' = [covmap EXCEPT ![f] = {}]
  /\ UNCHANGED <<sem, holds, own, log, start, numVars, stateVars>>

WriteFile(p) ==
  /\ Step(p, "cov_merged", "cov_locked")
  /\ covmap' = [covmap EXCEPT ![merge[p].file] = merge[p].map]
  /\ UNCHANGED <<sem, holds, own, log, merge, start, numVars, stateVars>>

WriteLog(p) ==
  /\ Step(p, "cov_locked", "cov_done")
  /\ merge[p].todo = {}
  /\ log' = <<start[p][1] + 1 + arg[p][1], merge[p].sum>>
  /\ merge' = [merge EXCEPT ![p] = NoMerge]
  /\ UNCHANGED <<sem, holds, covmap, own, start, numVars, stateVars>>

EndCov(p) == Up(p, "cov_done") /\ UNCHANGED <<numVars, stateVars, covVars>>

\* a new process reads the last line under the same semaphore
BeginReadLog(p) == /\ Down(p, "covMap", "log_locked")
                   /\ UNCHANGED <<numVars, stateVars, covVars>>

ReadLog(p) == /\ Step(p, "log_locked", "cov_done")
              /\ start' = [start EXCEPT ![p] = log]
              /\ UNCHANGED <<sem, holds, covmap, own, log, merge, numVars, stateVars>>

\* cov_store: the simulator of process n writes its coverage files
CovStore(n, files) == /\ own' = [own EXCEPT ![n] = files]
                      /\ UNCHANGED <<sem, pc, holds, numVars, stateVars, covmap, log, merge, start>>

\* the process is killed
Die(p) == /\ pc[p] # "dead" /\ pc' = [pc EXCEPT ![p] = "dead"]
          /\ UNCHANGED <<sem, holds, numVars, stateVars, covVars>>
=============================================================================
