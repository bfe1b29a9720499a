---------------------------- MODULE IdDispenser ----------------------------
(***************************************************************************)
(* What read_num and write_num of procManager promise together: whoever    *)
(* asks for a file number gets the next one, in one step, and nobody ever  *)
(* gets that number again.                                                 *)
(***************************************************************************)
EXTENDS Naturals

CONSTANTS Clients, Counters

VARIABLES
  next,  \* next[c]: the number the next asker of c will get
  ids    \* ids[p][c]: the numbers p was given

Init == /\ next \in [Counters -> Nat]
        /\ ids = [p \in Clients |-> [c \in Counters |-> {}]]

Give(p, c) == /\ next' = [next EXCEPT ![c] = @ + 1]
              /\ ids' = [ids EXCEPT ![p][c] = @ \cup {next[c]}]

Next == \E p \in Clients, c \in Counters : Give(p, c)

Spec == Init /\ [][Next]_<<next, ids>>
=============================================================================
