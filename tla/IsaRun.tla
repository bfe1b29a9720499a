------------------------------- MODULE IsaRun -------------------------------
(***************************************************************************)
(* run_isa_test of src/utils.py: one call after the other, each with a     *)
(* timer thread that kills every child process of the fuzzer and then sets *)
(* the shared stop[0]. A timer that has fired cannot be cancelled any more *)
(* and may go on while later tests are compiled and run. Time is not       *)
(* modelled: a timer that waits may fire at any time.                      *)
(***************************************************************************)
EXTENDS Integers, FiniteSets

CONSTANTS
  Runs     \* calls of run_isa_test: 1 .. their number

VARIABLES
  main,    \* where the main thread is
  run,     \* the call it is in
  child,   \* the child process it waits for: its name, run and whether it still runs
  code,    \* exit code of the child that ended last
  timer,   \* timer[r]: the thread of the call's timer
  list,    \* list[r]: the child its thread has found and will kill
  stop,    \* stop[0]
  result,  \* result[r]: what the call returned
  killed   \* the simulator runs that were killed (history variable)

vars == <<main, run, child, code, timer, list, stop, result, killed>>

NoChild == [name |-> "none", run |-> 0, up |-> FALSE]

Init == /\ main = "compile" /\ run = 1
        /\ child = NoChild /\ code = 0
        /\ timer = [r \in Runs |-> "off"]
        /\ list = [r \in Runs |-> NoChild]
        /\ stop = "NORMAL"
        /\ result = [r \in Runs |-> "none"]
        /\ killed = {}

Goto(from, to) == main = from /\ main' = to
Spawn(name)    == child' = [name |-> name, run |-> run, up |-> TRUE]
InRun          == run \in Runs

-----------------------------------------------------------------------------
(* The main thread                                                          *)

\* a test is compiled and turned into a hex file before it runs; the second
\* run of a test with an interrupt is not; the exit code of the second call of
\* the compiler and of elf2hex is not looked at
Prepare ==
  /\ InRun
  /\ \/ Goto("compile", "compiling") /\ Spawn("cc")
     \/ Goto("compiled", "converting") /\ Spawn("elf2hex")
     \/ Goto("compile", "ready") /\ run > 1 /\ UNCHANGED child
  /\ UNCHANGED <<run, code, timer, list, stop, result, killed>>

\* -9 is taken for a lack of memory: the compiler is called again; what a test
\* that does not compile leads to is up to the caller
Prepared ==
  /\ ~child.up
  /\ main = "compiling" => code # 1
  /\ \/ main = "compiling" /\ main' = IF code = -9 THEN "compile" ELSE "compiled"
     \/ Goto("converting", "ready")
  /\ UNCHANGED <<run, child, code, timer, list, stop, result, killed>>

StartTimer ==
  /\ InRun /\ Goto("ready", "armed")
  /\ timer' = [timer EXCEPT ![run] = "waits"]
  /\ UNCHANGED <<run, child, code, list, stop, result, killed>>

CallSpike ==
  /\ Goto("armed", "simulating") /\ Spawn("spike")
  /\ UNCHANGED <<run, code, timer, list, stop, result, killed>>

Cancel ==
  /\ Goto("simulating", "returned") /\ ~child.up
  /\ timer' = [timer EXCEPT ![run] = IF @ = "waits" THEN "cancelled" ELSE @]
  /\ UNCHANGED <<run, child, code, list, stop, result, killed>>

\* the first test of stop[0]; the timer thread may come before the second step
ReadStop ==
  /\ main = "returned"
  /\ main' = IF stop = "ISA_TIMEOUT" THEN "timed_out" ELSE "in_time"
  /\ UNCHANGED <<run, child, code, timer, list, stop, result, killed>>

\* mutant of Return: a negative exit code is not an error
Return_Killed ==
  /\ \/ main = "timed_out" /\ stop' = "NORMAL" /\ result' = [result EXCEPT ![run] = "ISA_TIMEOUT"]
     \/ main = "in_time" /\ code > 0 /\ stop' = "ISA_ASSERT" /\ result' = [result EXCEPT ![run] = "ISA_ASSERT"]
     \/ main = "in_time" /\ code <= 0 /\ UNCHANGED stop /\ result' = [result EXCEPT ![run] = "NORMAL"]
  /\ main' = "compile" /\ run' = run + 1
  /\ UNCHANGED <<child, code, timer, list, killed>>

Return ==
  /\ \/ main = "timed_out" /\ stop' = "NORMAL" /\ result' = [result EXCEPT ![run] = "ISA_TIMEOUT"]
     \/ main = "in_time" /\ code # 0 /\ stop' = "ISA_ASSERT" /\ result' = [result EXCEPT ![run] = "ISA_ASSERT"]
     \/ main = "in_time" /\ code = 0 /\ UNCHANGED stop /\ result' = [result EXCEPT ![run] = "NORMAL"]
  /\ main' = "compile" /\ run' = run + 1
  /\ UNCHANGED <<child, code, timer, list, killed>>

\* the child has ended: killing it later has no effect
Gone == /\ child' = [child EXCEPT !.up = FALSE]
        /\ list' = [r \in Runs |-> IF list[r] = child THEN NoChild ELSE list[r]]

\* a child ends by itself; a simulator may also run for ever
ChildEnds ==
  /\ child.up /\ Gone
  /\ code' \in IF child.name = "elf2hex" THEN {0} ELSE {0, 1}
  /\ UNCHANGED <<main, run, timer, stop, result, killed>>

-----------------------------------------------------------------------------
(* The thread of a timer: isa_timeout                                       *)

Fire(r) ==
  /\ timer[r] = "waits"
  /\ timer' = [timer EXCEPT ![r] = "fired"]
  /\ UNCHANGED <<main, run, child, code, list, stop, result, killed>>

\* mutant of ListChildren: no child is found
ListChildren_Empty(r) ==
  /\ timer[r] = "fired"
  /\ timer' = [timer EXCEPT ![r] = "kills"]
  /\ UNCHANGED <<main, run, child, code, list, stop, result, killed>>

\* psutil lists the children that run now
ListChildren(r) ==
  /\ timer[r] = "fired"
  /\ timer' = [timer EXCEPT ![r] = "kills"]
  /\ list' = [list EXCEPT ![r] = IF child.up THEN child ELSE NoChild]
  /\ UNCHANGED <<main, run, child, code, stop, result, killed>>

KillChildren(r) ==
  /\ timer[r] = "kills"
  /\ timer' = [timer EXCEPT ![r] = "stops"]
  /\ IF list[r] # NoChild
     THEN /\ Gone /\ code' = -9
          /\ killed' = IF child.name = "spike" THEN killed \cup {child.run} ELSE killed
     ELSE UNCHANGED <<child, list, code, killed>>
  /\ UNCHANGED <<main, run, stop, result>>

SetStop(r) ==
  /\ timer[r] = "stops"
  /\ timer' = [timer EXCEPT ![r] = "done"]
  /\ stop' = "ISA_TIMEOUT"
  /\ UNCHANGED <<main, run, child, code, list, result, killed>>

Main  == Prepare \/ Prepared \/ StartTimer \/ CallSpike \/ Cancel \/ ReadStop \/ Return
Timers(r) == Fire(r) \/ ListChildren(r) \/ KillChildren(r) \/ SetStop(r)

-----------------------------------------------------------------------------
(* Properties                                                               *)

\* A call whose simulator has started before its timer fires returns, also when
\* the simulator would never end: the timer kills it. A timer that fires earlier
\* finds no child, and nothing stops the simulator (run_isa_test, isa_timeout).
Started(r)  == run = r /\ main = "simulating" /\ timer[r] = "waits"
CallReturns == \A r \in Runs : Started(r) ~> result[r] # "none"
=============================================================================
