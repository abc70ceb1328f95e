----------------------------- MODULE FileTransfer -----------------------------
(***************************************************************************)
(* What a TFTP session promises its client, whatever the network does: the *)
(* client's copy is at any time the beginning of the file, it only grows   *)
(* by the next bytes, and the client calls it complete when it has all.    *)
(***************************************************************************)
EXTENDS Naturals, Sequences

CONSTANT File      \* the bytes of the file

VARIABLES
  received,        \* the bytes the client has
  complete         \* the client knows that it has the whole file

-----------------------------------------------------------------------------
Init == received = <<>> /\ complete = FALSE

Grow == /\ ~complete
        /\ \E n \in Len(received) .. Len(File) :
             /\ received' = SubSeq(File, 1, n)
             /\ complete' \in {FALSE, n = Len(File)}

\* A client that starts over
Restart == received' = <<>> /\ complete' = FALSE

Next == Grow \/ Restart

Spec == Init /\ [][Next]_<<received, complete>>
=============================================================================
