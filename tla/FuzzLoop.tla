------------------------------ MODULE FuzzLoop ------------------------------
(***************************************************************************)
(* The loop of Run in Fuzzer.py: a test of the mutator is compiled and run *)
(* by the instruction set simulator under a time limit (IsaRun), its log   *)
(* is searched for transitions of control registers that no earlier test   *)
(* made, and only a test with one goes on to the simulation of the RTL and *)
(* then to the corpus the mutator draws from. A timer of an earlier call   *)
(* may still go on. A test read from a file may have interrupts; it is the *)
(* only one, and is simulated again with the interrupts that were taken.   *)
(***************************************************************************)
EXTENDS Mutator

CONSTANTS
  Runs,         \* calls of run_isa_test: 1 .. their number
  Transitions   \* transitions of control registers

ASSUME FuzzAssumption == Runs \subseteq Nat \ {0}

VARIABLES
  main, run, child, code, timer, list, stop, result, killed,  \* of IsaRun
  loop,    \* where Run is
  intr,    \* assert_intr: the test is read from a file
  trns,    \* transitions in the log of the test that no earlier test made
  comb_t,  \* all transitions seen so far
  kept     \* the tests added to the corpus: their calls and transitions (history)

isaVars  == <<main, run, child, code, timer, list, stop, result, killed>>
loopVars == <<loop, intr, trns, comb_t, kept>>
allVars  == <<vars, isaVars, loopVars>>

Sim == INSTANCE IsaRun

LoopInit ==
  /\ Init /\ Sim!Init
  /\ loop = "get" /\ intr \in BOOLEAN
  /\ trns = {} /\ comb_t = {} /\ kept = {}

Goto(from, to) == loop = from /\ loop' = to
\* continue: the next iteration, if there is one
Continue == Dropped /\ loop' = "get"

Get ==
  /\ Goto("get", "isa") /\ run \in Runs
  /\ intr => run = 1 /\ Generate     \* num_iter = 1: any test may be in the file
  /\ Generate \/ Mutate \/ Merge
  /\ UNCHANGED <<isaVars, intr, trns, comb_t, kept>>

Update ==
  /\ loop = "get" /\ ~intr /\ UpdateCorpus
  /\ UNCHANGED <<isaVars, loopVars>>

\* a step of run_isa_test or of the compilation before it; what it returned
\* decides whether the log is looked at; the second call needs no compilation
Simulate ==
  /\ loop \in {"isa", "again"} /\ run \in Runs /\ Sim!Main
  /\ main = "compile" => (main' = "ready" <=> loop = "again")
  /\ IF run' = run THEN UNCHANGED <<vars, loop>>
     ELSE IF result'[run] # "NORMAL" THEN Continue
     ELSE loop' = (IF loop = "isa" THEN "log" ELSE "keep") /\ UNCHANGED vars
  /\ UNCHANGED <<intr, trns, comb_t, kept>>

\* the compiler reports an error: the test is dropped
CompileFails ==
  /\ loop = "isa" /\ main = "compiling" /\ ~child.up /\ code = 1
  /\ main' = "compile" /\ stop' = "COMPILE" /\ Continue
  /\ UNCHANGED <<run, child, code, timer, list, result, killed, intr, trns, comb_t, kept>>

\* extract_transitions: the log of a simulator that was not killed is complete
Extract ==
  /\ loop = "log"
  /\ \E seen \in SUBSET Transitions :
       /\ comb_t' = comb_t \cup seen /\ trns' = seen \ comb_t
       /\ IF trns' = {} THEN Continue ELSE loop' = "rtl" /\ UNCHANGED vars
  /\ UNCHANGED <<isaVars, intr, kept>>

\* the simulation of the RTL raises: the iteration ends, but its transitions
\* are no longer new to a later test
RtlFails ==
  /\ loop = "rtl" /\ stop' = "RTL_SIM" /\ Continue
  /\ UNCHANGED <<main, run, child, code, timer, list, result, killed, intr, trns, comb_t, kept>>

\* it returns: an interrupted test was taken at an address, or at none
RtlReturns ==
  /\ loop = "rtl"
  /\ \/ ~intr /\ loop' = "keep" /\ UNCHANGED vars
     \/ intr /\ loop' \in {"keep", "again"} /\ UNCHANGED vars
     \/ intr /\ Continue
  /\ UNCHANGED <<isaVars, intr, trns, comb_t, kept>>

Keep ==
  /\ Goto("keep", "get") /\ Found
  /\ kept' = kept \cup {[call |-> run - 1, trns |-> trns]}
  /\ UNCHANGED <<isaVars, intr, trns, comb_t>>

\* what goes on beside the loop
Beside ==
  /\ Sim!ChildEnds \/ \E r \in Runs : Sim!Timers(r)
  /\ UNCHANGED <<vars, loopVars>>

LoopNext == Get \/ Update \/ Simulate \/ CompileFails \/ Extract \/ RtlFails \/ RtlReturns \/ Keep \/ Beside

\* the threads run; a timer that is not cancelled fires; the compiler and
\* elf2hex end, but nothing makes a simulator end that is not killed
LoopSpec ==
  /\ LoopInit /\ [][LoopNext]_allVars
  /\ WF_allVars(Simulate \/ CompileFails)
  /\ WF_allVars(Sim!ChildEnds /\ child.name # "spike" /\ UNCHANGED <<vars, loopVars>>)
  /\ \A r \in Runs : WF_allVars(Sim!Timers(r) /\ UNCHANGED <<vars, loopVars>>)

-----------------------------------------------------------------------------
(* Properties                                                               *)

\* A test enters the corpus for what it did itself: its simulator was not
\* killed, by its own timer or by that of an earlier test, so the log that was
\* searched is complete, and it made a transition that no test before it made
\* (run_isa_test, isa_timeout, extract_transitions, the loop of Run).
KeptRan ==
  /\ \A k \in kept : k.call \notin killed /\ result[k.call] = "NORMAL" /\ k.trns # {}
  /\ \A k, l \in kept : k.call # l.call => k.trns \cap l.trns = {}

\* A call whose simulator has started before its timer fires returns, also when
\* the simulator would never end: the timer kills it (run_isa_test, isa_timeout).
CallReturns == Sim!CallReturns
=============================================================================
