----------------------------- MODULE MCTftpServer -----------------------------
(* Small instances of TftpServer for TLC: as many datagrams reach the port   *)
(* as there are handlers, each the request of a new client or a repeated one.*)
EXTENDS TftpServer
=============================================================================
