--------------------------- MODULE MCLunaWatchdog ---------------------------
(* Three CPUs and small times.                                             *)
EXTENDS LunaWatchdog

OneAndTwo == {1, 2}
MainAndLast == {0, 2}
=============================================================================
