------------------------------- MODULE MCNicTx -------------------------------
(***************************************************************************)
(* Small instances of NicTx: a ring of four descriptors and two senders.   *)
(***************************************************************************)
EXTENDS NicTx, TLC

CONSTANTS s1, s2

TwoSenders == {s1, s2}
Symmetry == Permutations(TwoSenders)
=============================================================================
