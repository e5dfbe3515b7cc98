------------------------------ MODULE FileCopy ------------------------------
(***************************************************************************)
(* What a file transfer promises: the copy grows by the file's next block, *)
(* each once and in order, and the sender calls the transfer done only     *)
(* when the copy is the whole file.                                        *)
(***************************************************************************)
EXTENDS Naturals, Sequences

CONSTANT File       \* the blocks of the file; the last one is short

VARIABLES copy, done

vars == <<copy, done>>

Init == copy = <<>> /\ done = FALSE

\* The next block, and with the last one perhaps the end.
Extend ==
    /\ Len(copy) < Len(File)
    /\ copy' = Append(copy, File[Len(copy) + 1])
    /\ UNCHANGED done \/ (copy' = File /\ done' = TRUE)

Finish ==
    /\ copy = File /\ ~done
    /\ done' = TRUE
    /\ UNCHANGED copy

Next == Extend \/ Finish

Spec == Init /\ [][Next]_vars

\* The copy is completed.
LiveSpec == Spec /\ WF_vars(Extend)
=============================================================================
