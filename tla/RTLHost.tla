------------------------------ MODULE RTLHost ------------------------------
(***************************************************************************)
(* The loop of the RTL host (RTLSim/host.py run_test, with start and stop  *)
(* of RTLSim/src/adapters/tile_adapter.py) that runs one test after the    *)
(* other against the same adapter object. Every 100 cycles it reads tohost *)
(* in memory and, while it is zero, asks the adapter to fetch the block    *)
(* back from the cache; then it stops the tile and retrieves what is still *)
(* cached before it saves the signature. Cycles are not counted: a poll    *)
(* and the end of max_cycles may come at any time.                         *)
(***************************************************************************)
EXTENDS TLTile

VARIABLES
  hpc,     \* where run_test is
  tohost,  \* symbols['tohost'] of the test that runs
  ended,   \* how the loop ended
  status,  \* what run_test returned
  atExit,  \* latest at the program's first store to tohost (history variable)
  lost     \* the test began with a host_interface that could not probe tohost (history
           \* variable)

hVars   == <<hpc, tohost, ended, status, atExit, lost>>
allVars == <<vars, hVars>>

HostInit == /\ Init
            /\ hpc = "idle" /\ tohost = None /\ ended = "no" /\ status = "no"
            /\ atExit = Zero /\ lost = FALSE

\* the memory image is built, tohost is a key of it, and the adapter starts
StartTest(mapped, b) ==
  /\ hpc = "idle" /\ b \in mapped
  /\ HostStart(mapped)
  /\ hpc' = "running" /\ tohost' = b /\ ended' = "no" /\ status' = "no" /\ atExit' = Zero
  /\ lost' = (~probeEn \/ \E s \in Sinks : ongoingTlc[s] = b)

\* i % 100 == 0
Poll ==
  /\ hpc = "running"
  /\ IF mem[tohost][1] # 0
     THEN /\ hpc' = "stopping" /\ ended' = "tohost"
          /\ UNCHANGED vars
     ELSE /\ HostProbe(tohost)
          /\ UNCHANGED <<hpc, ended>>
  /\ UNCHANGED <<tohost, status, atExit, lost>>

CyclesUp ==
  /\ hpc = "running"
  /\ hpc' = "stopping" /\ ended' = "max_cycles"
  /\ UNCHANGED <<vars, tohost, status, atExit, lost>>

\* tileAdapter.stop: wait while onGoing, then tl_adapter.stop
Stop ==
  /\ hpc = "stopping"
  /\ HostStop
  /\ hpc' = "retrieving"
  /\ UNCHANGED <<tohost, ended, status, atExit, lost>>

\* mutant of Finish: the end of the retrieval is not waited for
Finish_Early ==
  /\ hpc = "retrieving"
  /\ hpc' = "idle"
  /\ status' \in {"SUCCESS", "TIME_OUT"}
  /\ UNCHANGED <<vars, tohost, ended, atExit, lost>>

\* wait while isRunning, then check memory, cycles and the assertions of the tile; the
\* poll that sees tohost may be that of the last cycle
Finish ==
  /\ hpc = "retrieving" /\ ~drive
  /\ hpc' = "idle"
  /\ status' \in {"ILL_MEM", "TIME_OUT"}
                 \cup (IF ended = "tohost" THEN {"ASSERTION_FAIL", "SUCCESS"} ELSE {})
  /\ UNCHANGED <<vars, tohost, ended, atExit, lost>>

\* anything else that happens between two steps of the host
TileStep ==
  /\ Running
  /\ atExit' = IF tohost # None /\ latest[tohost] = 0 /\ latest'[tohost] > 0
               THEN latest' ELSE atExit
  /\ UNCHANGED <<hpc, tohost, ended, status, lost>>

HostNext == \/ \E mapped \in Images, b \in Tohosts : StartTest(mapped, b)
            \/ Poll \/ CyclesUp \/ Stop \/ Finish
            \/ TileStep

HostSpec == HostInit /\ [][HostNext]_allVars

HostFairness == /\ Fairness
                /\ WF_allVars(Poll) /\ WF_allVars(Stop) /\ WF_allVars(Finish)

FairHostSpec == HostSpec /\ HostFairness

----------------------------------------------------------------------------
(* Properties. *)

\* type of the host's own state; a test that runs has a tohost
HostTypeOK ==
  /\ hpc \in {"idle", "running", "stopping", "retrieving"}
  /\ tohost \in Tohosts \cup {None}
  /\ hpc # "idle" => tohost # None
  /\ ended \in {"no", "tohost", "max_cycles"}
  /\ status \in {"no", "ILL_MEM", "TIME_OUT", "ASSERTION_FAIL", "SUCCESS"}
  /\ atExit \in [Blocks -> Nat] /\ lost \in BOOLEAN

\* a test that succeeds leaves in memory, where save_signature reads it, every store
\* that the program made before it wrote tohost (host.py:170-200)
SignatureComplete ==
  status = "SUCCESS" =>
    /\ mem[tohost][1] > 0
    /\ \A b \in Cacheable, i \in BeatNo : mem[b][i] >= atExit[b]

\* an answer is awaited that will call enableProbe, or a source to send its probe with
Asking == \/ \E s \in BSrcs : bch.callback[s].kind = "enableProbe"
          \/ \E i \in DOMAIN bch.waiting : bch.waiting[i].then.kind = "enableProbe"

\* what a test that began with a free host_interface does to it, whatever comes between a
\* probe and its answer: probe_en is FALSE only while an answer is awaited, and ongoing_tlc
\* has tohost's block only under a sink that is taken, so that the test leaves the
\* interface to the next one unless it is stopped in between (adapter.py:89-94, 711-747)
InterfaceKept ==
  ~lost =>
    /\ probeEn <=> ~Asking
    /\ \A s \in Sinks : tohost # None /\ ongoingTlc[s] = tohost => s \notin dFree

\* tohost reaches the host although it sits in a write-back cache, in every test that
\* began with a free host_interface (host.py:170-176, adapter.py:720-741)
TohostSeen == hpc = "running" /\ latest[tohost] > 0 /\ ~lost ~> hpc # "running"

\* a test that ran ends: tileAdapter.stop returns
TestEnds == hpc = "stopping" ~> hpc = "idle"

\* a stopped test ends, and until then every probe gives its source back: the
\* next test finds the pools as the first one did
TestsDrain == TestEnds /\ ProbesEnd

\* the assertion of host_interface (adapter.py:729): the block of the address it was
\* asked to probe is one of the test's blocks
ProbedBlockKnown == HostProbes => perm[probeAddr] # "Absent"
=============================================================================
