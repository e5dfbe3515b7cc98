--------------------------- MODULE MCIpFragCache ---------------------------
(***************************************************************************)
(* An instance of IpFragCache: a datagram of two fragments of different    *)
(* length and two that lose all but the first.  Two of them share a        *)
(* bucket; the key of a cleared entry hashes to the other one.             *)
(***************************************************************************)
EXTENDS IpFragCache

SharedChain == [k \in Keys |-> IF k \in {0, 3} THEN 1 ELSE 0]

Sizes == [d \in Datagrams |-> IF d = 1 THEN <<2, 1>> ELSE <<1, 2>>]

TwoLost == {<<2, 2>>, <<3, 2>>}

=============================================================================
