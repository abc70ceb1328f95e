---------------------------- MODULE MCTftpSession ----------------------------
(* A small instance of TftpSession for TLC: the bytes of the file are told  *)
(* apart, so that no block can take the place of another one.               *)
EXTENDS TftpSession

(* With blocks of two the last one is short, with the default of five the   *)
(* second and last block is empty.                                          *)
MCFile == <<1, 2, 3, 4, 5>>
=============================================================================
