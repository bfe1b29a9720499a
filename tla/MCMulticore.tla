---------------------------- MODULE MCMulticore ----------------------------
EXTENDS Multicore
CONSTANTS ok, bad
MCBoth    == {"mNum", "cNum"}
MCProcs   == 0..(Cores - 1)
MCClients == 0..Forks
MCCodes   == {ok, bad}
MCEmpty   == {}

\* bounds: one file of each kind is there at the start, or all that the word of
\* the number has room for; the children after the second raise before their first
\* iteration ends
FilesInit == MulticoreInit /\ \E n \in {1, NumMax} : \A c \in Counters : shm[c] = n
Few       == \A k \in Kids : k > 2 => kpc[k] \in {"start", "test"} /\ iter[k] = 1
FewFiles  == /\ FilesInit /\ [][MulticoreNext /\ Few']_mcVars
             /\ WF_mcVars(ParentNext)
             /\ \A k \in Kids : WF_mcVars(KidNext(k) /\ Few')
=============================================================================
