---------------------------- MODULE MCProcCalls ----------------------------
EXTENDS ProcCalls
CONSTANTS a, b, ok, bad, f1, f2, x
PCTwo == {a, b}
PCOne == {"mNum"}
PCProcs == 0..1
PCAll == {"num", "state", "cov"}
PCCodes == {ok, bad}
PCTwoFiles == {f1, f2}
PCOnePoint == {x}
PCIters == {1}

\* bound: the calls for numbers and states share no memory and no semaphore
\* with those for the coverage, so a behaviour makes either the ones or the others
VARIABLE group
PCInit == CallsInit /\ group \in {"numbers", "coverage"}
            /\ (group = "coverage" => \A c \in Counters : shm[c] = 0)
OfGroup ==
  IF group = "numbers"
  THEN own = [n \in Procs |-> [f \in Files |-> {}]] /\ \A p \in Clients : pc[p] \notin CovSteps
  ELSE \A p \in Clients : pc[p] \notin NumSteps \cup StateSteps
PCSpec == PCInit /\ [][CallsNext /\ UNCHANGED group /\ OfGroup']_<<callVars, group>>
=============================================================================
