------------------------------ MODULE MCTftpProxy ------------------------------
(* A file of two blocks and two datagrams that are sent again, for TLC.      *)
EXTENDS TftpProxy

MCHandlers == 1 .. 2
================================================================================
