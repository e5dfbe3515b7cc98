------------------------------- MODULE MCNicRx -------------------------------
(* Instances of NicRx for TLC: ring sizes and the GMACs.                   *)
EXTENDS NicRx

OneGmac == {0}

\* Two descriptors in each of three rings.
ThreeRings == [r \in 0 .. 2 |-> 2]

\* A ring longer than the budget, and the ring of the highest priority, which is
\* as long as the budget.
LongAndShort == [r \in 0 .. 1 |-> IF r = 1 THEN 2 ELSE 3]
=============================================================================
