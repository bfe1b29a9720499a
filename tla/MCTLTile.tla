------------------------------ MODULE MCTLTile ------------------------------
EXTENDS TLTile, TLC
CONSTANTS t, u, v, w, m1, m2, s1, s2, p1, p2, g1, r

\* A test works on tohost's block and a device, which is not in the image, or never gets
\* to tohost and reads two other cached blocks, which can both miss at once. Two of each
\* id.
Read_Only    == {v, w}
Two_Sinks    == {s1, s2}
Two_BSrcs    == {p1, p2}
Two_MSHRs    == {m1, m2}
Ids          == Permutations(Two_Sinks) \cup Permutations(Two_BSrcs)
                \cup Permutations(Two_MSHRs) \cup Permutations(Read_Only)
The_Blocks   == {t, u} \cup Read_Only
The_Device   == {u}
The_Image    == {{t} \cup Read_Only}
The_Programs == {{t, u}, Read_Only}
The_Tohost   == {t}
One_GSrc     == {g1}
The_Stores   == [b \in The_Blocks |-> IF b \in Read_Only THEN 0 ELSE 1]
=============================================================================
