----------------------------- MODULE Multicore -----------------------------
(***************************************************************************)
(* A multicore run: the process that forks and waits (ProcessorFuzz.py)    *)
(* and its children, each of which fuzzes with the numbers, the coverage   *)
(* log and the states it shares through procManager (Fuzzer.py Run).       *)
(*                                                                         *)
(* Of a child's loop only what it shares is kept: an iteration may end in  *)
(* an error that changes stop[0], save a mismatch, save a corpus entry, or *)
(* raise. cocotb reports an exception of the test as a failed test and     *)
(* ends the simulator; the exit code it ends with is not decided by this   *)
(* code, so it may be zero or not. Run has no other end in a multicore     *)
(* run: it calls save_err without its argument it, which raises before     *)
(* set_state, cov_store and store_covmap.                                  *)
(***************************************************************************)
EXTENDS ProcManager

CONSTANTS
  Cores,     \* multicore
  Forks,     \* num_batch * multicore
  MaxIters,  \* num_iter of a child
  MaxKills   \* bound on the children that are killed from outside

Kids   == 1..Forks
Parent == 0

ASSUME MulticoreConstants == /\ Cores \in Nat \ {0} /\ Forks \in Nat
                             /\ Procs = 0..(Cores - 1) /\ Clients = 0..Forks
                             /\ Counters = {"mNum", "cNum"} /\ MaxIters \in Nat
                             /\ \E code \in Codes : code # Normal

VARIABLES
  ppc,       \* where the parent is
  pids,      \* proc_pid_arr, 0 where a slot is free
  forked,    \* i of the fork loop
  ended,     \* end_pid of the last waitpid
  victim,    \* the slot the loop that kills is at
  kid,       \* what the operating system says of a process
  exit,      \* its exit code
  slot,      \* proc_num of a child
  kpc,       \* where Run is
  iter,      \* it
  stop,      \* stop[0]
  saved,     \* the files id_N of mismatch/ and corpus/, with their writers
  kills      \* children killed from outside so far

parentVars == <<ppc, pids, forked, ended, victim>>
kidVars    == <<kid, exit, slot, kpc, iter, stop, saved>>
mcVars     == <<pmVars, parentVars, kidVars, kills>>

Running == {n \in Procs : pids[n] # 0}
Idx(k)  == CHOOSE n \in Procs : pids[n] = k
Alive   == {k \in Kids : kid[k] = "alive"}

MulticoreInit ==
  /\ PMInit
  /\ ppc = "main" /\ pids = [n \in Procs |-> 0] /\ forked = 0 /\ ended = 0 /\ victim = 0
  /\ kid = [k \in Kids |-> "none"]
  /\ exit = [k \in Kids |-> 0]
  /\ slot = [k \in Kids |-> 0]
  /\ kpc = [k \in Kids |-> "start"]
  /\ iter = [k \in Kids |-> 1]
  /\ stop = [k \in Kids |-> Normal]
  \* the files of an earlier run that ended well: mNum, cNum = len(listdir)
  /\ saved = UNION {{<<c, i, Parent, 0>> : i \in 0..(shm[c] - 1)} : c \in Counters}
  /\ kills = 0

-----------------------------------------------------------------------------
(* The parent                                                               *)

\* the first pass of either loop that has to wait for a child
Waits == Running = Procs \/ (forked = Forks /\ Running # {})

Fork ==
  /\ ppc = "main" /\ forked < Forks /\ ~Waits
  /\ LET n == CHOOSE m \in Procs \ Running : \A o \in Procs \ Running : m <= o IN
       /\ pids' = [pids EXCEPT ![n] = forked + 1]
       /\ slot' = [slot EXCEPT ![forked + 1] = n]
  /\ forked' = forked + 1
  /\ kid' = [kid EXCEPT ![forked + 1] = "alive"]
  /\ UNCHANGED <<pmVars, ppc, ended, victim, exit, kpc, iter, stop, saved, kills>>

WaitPid(k) ==
  /\ ppc = "main" /\ Waits /\ kid[k] = "zombie"
  /\ kid' = [kid EXCEPT ![k] = "reaped"]
  /\ ended' = k
  /\ IF exit[k] # 0 THEN ppc' = "killing" /\ victim' = 0
                    ELSE ppc' = "get_state" /\ UNCHANGED victim
  /\ UNCHANGED <<pmVars, pids, forked, exit, slot, kpc, iter, stop, saved, kills>>

GetState ==
  /\ \/ ppc = "get_state" /\ BeginGetState(Parent) /\ UNCHANGED ppc
     \/ ppc = "get_state" /\ ReadStates(Parent) /\ UNCHANGED ppc
     \/ ppc = "get_state" /\ EndState(Parent) /\ ppc' = "check"
  /\ UNCHANGED <<pids, forked, ended, victim, kidVars, kills>>

Check ==
  /\ ppc = "check"
  /\ IF seen[Parent][Idx(ended)] # Normal
     THEN ppc' = "killing" /\ victim' = 0 /\ UNCHANGED pids
     ELSE ppc' = "main" /\ pids' = [pids EXCEPT ![Idx(ended)] = 0] /\ UNCHANGED victim
  /\ UNCHANGED <<pmVars, forked, ended, kidVars, kills>>

Killed(S) == kid' = [k \in Kids |-> IF k \in S /\ kid[k] = "alive" THEN "killed" ELSE kid[k]]

\* mutant of KillNext: the loop stops at the first free slot
KillNext_SkipsZero ==
  /\ ppc = "killing"
  /\ \/ /\ victim < Cores => pids[victim] = 0
        /\ ppc' = "exit" /\ UNCHANGED <<victim, kid>>
     \/ /\ victim < Cores /\ pids[victim] # 0
        /\ Killed({pids[victim]} \ {ended})
        /\ victim' = victim + 1 /\ UNCHANGED ppc
  /\ UNCHANGED <<pmVars, pids, forked, ended, exit, slot, kpc, iter, stop, saved, kills>>

\* one pass of the loop over proc_pid_arr; kill(0) is for the process group
KillNext ==
  /\ ppc = "killing"
  /\ \/ /\ victim = Cores
        /\ ppc' = "exit" /\ UNCHANGED <<victim, kid>>
     \/ /\ victim < Cores /\ pids[victim] = 0
        /\ ppc' = "killed" /\ Killed(Kids) /\ UNCHANGED victim
     \/ /\ victim < Cores /\ pids[victim] # 0
        /\ Killed({pids[victim]} \ {ended})
        /\ victim' = victim + 1 /\ UNCHANGED ppc
  /\ UNCHANGED <<pmVars, pids, forked, ended, exit, slot, kpc, iter, stop, saved, kills>>

\* mutant of Finish: the objects are removed when the last child is forked
Finish_Early ==
  /\ ppc = "main" /\ forked = Forks
  /\ ppc' = "ended"
  /\ UNCHANGED <<pmVars, pids, forked, ended, victim, kidVars, kills>>

\* manager.remove(); the minimizers that are forked then share nothing of it
Finish ==
  /\ ppc = "main" /\ forked = Forks /\ Running = {}
  /\ ppc' = "ended"
  /\ UNCHANGED <<pmVars, pids, forked, ended, victim, kidVars, kills>>

-----------------------------------------------------------------------------
(* A child                                                                  *)

Goto(k, from, to) == kpc[k] = from /\ kpc' = [kpc EXCEPT ![k] = to]
NextIter(k)  == iter' = [iter EXCEPT ![k] = @ + 1]
RunsOn(k)    == kid[k] = "alive" /\ iter[k] <= MaxIters
KidKeeps     == UNCHANGED <<parentVars, kid, exit, slot, kills>>

\* the last line of cov_log is read before Run begins
StartKid(k) ==
  /\ kid[k] = "alive" /\ kpc[k] = "start"
  /\ \/ BeginReadLog(k) /\ UNCHANGED kpc
     \/ ReadLog(k) /\ UNCHANGED kpc
     \/ EndCov(k) /\ Goto(k, "start", "test")
  /\ UNCHANGED <<iter, stop, saved>> /\ KidKeeps

\* the test is compiled and run; an error ends the iteration
TestFails(k) ==
  /\ RunsOn(k) /\ kpc[k] = "test"
  /\ stop' = [stop EXCEPT ![k] = CHOOSE code \in Codes : code # Normal]
  /\ NextIter(k)
  /\ UNCHANGED <<pmVars, kpc, saved>> /\ KidKeeps

\* a later ISA timeout sets stop[0] back to NORMAL; a test without new
\* transitions ends the iteration too
TestDropped(k) ==
  /\ RunsOn(k) /\ kpc[k] = "test"
  /\ stop' \in {stop, [stop EXCEPT ![k] = Normal]}
  /\ NextIter(k)
  /\ UNCHANGED <<pmVars, kpc, saved>> /\ KidKeeps

\* the number of a mismatch, then that of the corpus entry
TestRan(k) ==
  /\ RunsOn(k)
  /\ \/ TakeNum(k, "mNum") /\ Goto(k, "test", "mismatch")
     \/ TakeNum(k, "cNum") /\ Goto(k, "test", "corpus")
     \/ TakeNum(k, "cNum") /\ Goto(k, "mismatch_saved", "corpus")
  /\ UNCHANGED <<iter, stop, saved>> /\ KidKeeps

GetNum(k) ==
  /\ kid[k] = "alive"
  /\ LoadNum(k) \/ StoreNum(k) \/ GiveNum(k)
  /\ kpc' = [kpc EXCEPT ![k] =
               IF pc[k] = "num_written"
               THEN IF @ = "mismatch" THEN "save_mismatch" ELSE "save_corpus" ELSE @]
  /\ UNCHANGED <<iter, stop, saved>> /\ KidKeeps

SaveMismatch(k) ==
  /\ kid[k] = "alive" /\ Goto(k, "save_mismatch", "mismatch_saved")
  /\ saved' = saved \cup {<<"mNum", num[k], k, iter[k]>>}
  /\ UNCHANGED <<pmVars, iter, stop>> /\ KidKeeps

SaveCorpus(k) ==
  /\ kid[k] = "alive" /\ Goto(k, "save_corpus", "test")
  /\ saved' = saved \cup {<<"cNum", num[k], k, iter[k]>>}
  /\ NextIter(k)
  /\ UNCHANGED <<pmVars, stop>> /\ KidKeeps

NoNewTransition(k) ==
  /\ kid[k] = "alive" /\ Goto(k, "mismatch_saved", "test")
  /\ NextIter(k)
  /\ UNCHANGED <<pmVars, stop, saved>> /\ KidKeeps

\* an exception in the loop, between two calls of the manager, or the one of
\* the call of save_err after the loop
Raises(k) ==
  /\ kid[k] = "alive" /\ pc[k] = "free" /\ kpc[k] # "start"
  /\ kid' = [kid EXCEPT ![k] = "zombie"]
  /\ \E code \in {0, 1} : exit' = [exit EXCEPT ![k] = code]
  /\ UNCHANGED <<pmVars, parentVars, slot, kpc, iter, stop, saved, kills>>

\* OverflowError in write_num
RaisesInCall(k) ==
  /\ kid[k] = "alive" /\ NumOverflow(k)
  /\ kid' = [kid EXCEPT ![k] = "zombie"]
  /\ \E code \in {0, 1} : exit' = [exit EXCEPT ![k] = code]
  /\ UNCHANGED <<parentVars, slot, kpc, iter, stop, saved, kills>>

\* the simulator crashes or the operating system kills it, at any point
Crashes(k) ==
  /\ kid[k] = "alive" /\ kills < MaxKills
  /\ kills' = kills + 1
  /\ Die(k)
  /\ kid' = [kid EXCEPT ![k] = "zombie"] /\ exit' = [exit EXCEPT ![k] = 9]
  /\ UNCHANGED <<parentVars, slot, kpc, iter, stop, saved>>

ParentNext == Fork \/ (\E k \in Kids : WaitPid(k)) \/ GetState \/ Check \/ KillNext \/ Finish

KidNext(k) == \/ StartKid(k) \/ TestFails(k) \/ TestDropped(k) \/ TestRan(k) \/ GetNum(k)
              \/ SaveMismatch(k) \/ SaveCorpus(k) \/ NoNewTransition(k)
              \/ Raises(k) \/ RaisesInCall(k)

MulticoreNext == ParentNext \/ \E k \in Kids : KidNext(k) \/ Crashes(k)

MulticoreSpec == MulticoreInit /\ [][MulticoreNext]_mcVars

FairMulticore == /\ MulticoreSpec
                 /\ WF_mcVars(ParentNext)
                 /\ \A k \in Kids : WF_mcVars(KidNext(k))

-----------------------------------------------------------------------------
(* Properties                                                               *)

Over == ppc \in {"exit", "killed", "ended"}

\* The type of every variable that Multicore adds to procManager.
MulticoreTypeOK ==
  /\ ppc \in {"main", "get_state", "check", "killing"} \/ Over
  /\ pids \in [Procs -> 0..Forks] /\ forked \in 0..Forks
  /\ ended \in 0..Forks /\ victim \in 0..Cores
  /\ kid \in [Kids -> {"none", "alive", "zombie", "reaped", "killed"}]
  /\ exit \in [Kids -> {0, 1, 9}]
  /\ slot \in [Kids -> Procs]
  /\ kpc \in [Kids -> {"start", "test", "mismatch", "save_mismatch", "mismatch_saved",
                       "corpus", "save_corpus"}]
  /\ iter \in [Kids -> 1..(MaxIters + 1)]
  /\ stop \in [Kids -> Codes]
  /\ saved \subseteq Counters \X (0..NumMax) \X Clients \X (0..MaxIters)
  /\ kills \in Nat

\* No file id_N of mismatch/ or corpus/ is written twice, neither by two
\* children nor over a file of an earlier run, whoever is killed in between
\* (Run reads and writes mNum and cNum, then saves under that number).
NoOverwrite == \A s, t \in saved : s[1] = t[1] /\ s[2] = t[2] => s = t

\* Two children that run have different proc_nums: they share no signature
\* file and no covmap-NN (proc_pid_arr.index(0) and the slot wait_check frees).
SlotsExclusive == \A k, l \in Alive : slot[k] = slot[l] => k = l

\* Whatever the children write, no other process has written: see both parts.
NothingShared == NoOverwrite /\ SlotsExclusive

\* When the parent has stopped, well or not, no child runs: none fuzzes on
\* after an error, and none finds the semaphores removed under it (the loops
\* that kill in wait_check, and manager.remove() after the last wait).
NoOrphans == Over => Alive = {}

\* The run ends, also when a child is killed while it holds a semaphore that
\* the others wait for: the parent sees it and kills the rest. It needs room
\* for the numbers in the shared word (waitpid in wait_check).
Room == \A c \in Counters : shm[c] + Forks * MaxIters <= NumMax
MulticoreEnds == Room => <>Over

\* Once the parent has taken back a child whose Run met an error, it does not
\* go on: "Child {} is in abnormal state {}!" (ProcessorFuzz.py 28 to 34).
AbnormalStops ==
  ppc \in {"main", "ended"} => \A k \in Kids : kid[k] = "reaped" => stop[k] = Normal
=============================================================================
