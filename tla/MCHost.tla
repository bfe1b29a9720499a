------------------------------- MODULE MCHost -------------------------------
EXTENDS RTLHost
CONSTANTS t, u, d, m1, s1, s2, p1, r

\* tohost's block and one that the program only reads; two sinks, so that what a test
\* leaves under one is not taken back by the next grant
HCBlocks   == {t, d}
HCSinks    == {s1, s2}
HCBSrcs    == {p1}
HCMSHRs    == {m1}
HCTohosts  == {t}
HCImages   == {{t, d}}
HCPrograms == {{t, d}}
HCVer      == [b \in HCBlocks |-> IF b = t THEN 1 ELSE 0]

\* tests whose images have no block in common
HCTwoBlocks   == {t, u}
HCTwoImages   == {{t}, {u}}
HCTwoPrograms == {{t, u}}
HCTwoVer      == [b \in HCTwoBlocks |-> 1]
HCOneSink     == {s1}
HCNone        == {}
=============================================================================
