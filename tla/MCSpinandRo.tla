---------------------------- MODULE MCSpinandRo ----------------------------
(***************************************************************************)
(* Small instances of SpinandRo: two erase blocks of two pages, two ECC    *)
(* sectors and three oob bytes a page.                                     *)
(***************************************************************************)
EXTENDS SpinandRo, TLC

CONSTANTS r1, r2

TwoReaders == {r1, r2}
OneReader == {r1}

Blank(n) == [blank |-> n, err |-> 9]
Data(n) == [blank |-> 50, err |-> n]
MCPage(a, b, raw, mark) == [cell |-> <<a, b>>, raw |-> raw, mark |-> mark]

\* Block 0 is good, with flips; block 1's marker byte reads wrong but corrects.
Worn == (0 :> MCPage(Data(0), Data(3), TRUE, TRUE) @@
         1 :> MCPage(Blank(2), Data(0), TRUE, TRUE) @@
         2 :> MCPage(Data(6), Data(0), FALSE, TRUE) @@
         3 :> MCPage(Data(0), Data(7), TRUE, TRUE))
\* Block 0 is marked bad; block 1's marker page cannot be decoded, though its
\* tag bytes can.
Failing == (0 :> MCPage(Data(1), Data(0), FALSE, FALSE) @@
            1 :> MCPage(Data(0), Blank(5), TRUE, TRUE) @@
            2 :> MCPage(Data(1), Data(9), FALSE, TRUE) @@
            3 :> MCPage(Blank(0), Blank(4), TRUE, TRUE))
\* Block 0's marker byte reads 0xff in a sector that cannot be decoded.
Unlucky == (0 :> MCPage(Data(9), Data(0), TRUE, TRUE) @@
            1 :> MCPage(Data(0), Data(0), TRUE, TRUE) @@
            2 :> MCPage(Data(0), Data(0), TRUE, TRUE) @@
            3 :> MCPage(Data(0), Data(0), TRUE, TRUE))

MCImages == {Worn, Failing}
UnluckyImages == {Unlucky}

Req(mode, from, len, ooboffs, ooblen) ==
    [mode |-> mode, from |-> from, len |-> len, ooboffs |-> ooboffs, ooblen |-> ooblen]

\* Within a page, across pages, oob only, both, off the end, refused.
MCRequests == {Req("PLACE", 1, 4, 4, 0), Req("AUTO", 0, 1, 1, 3), Req("PLACE", 2, 0, 2, 3),
               Req("RAW", 3, 3, 0, 0), Req("PLACE", 7, 3, 0, 0), Req("AUTO", 0, 1, 2, 1)}
FewRequests == {Req("PLACE", 1, 3, 0, 0), Req("AUTO", 4, 0, 1, 2)}
=============================================================================
