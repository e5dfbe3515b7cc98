------------------------------- MODULE MCTftpd -------------------------------
(* A file of a few blocks.                                                 *)
EXTENDS Tftpd

TwoBlocks == <<1, 2>>
FiveBlocks == <<1, 2, 3, 4, 5>>
AllRequests == {"options", "plain", "missing", "denied", "badoption", "malformed", "wrq"}
Reads == {"options", "plain"}
=============================================================================
